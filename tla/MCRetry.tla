------------------------------ MODULE MCRetry ------------------------------
(***************************************************************************)
(* An instance of Retry for TLC.  The counters are 4 bits wide instead of  *)
(* 32; MaxDelay is 10 * BaseDelay, as config.rs computes it.               *)
(***************************************************************************)
EXTENDS Retry

SmallWord == 16
LargestCount == SmallWord - 1
TenfoldDelay == 10 * BaseDelay
=============================================================================
