------------------------------ MODULE MCFetch ------------------------------
(***************************************************************************)
(* An instance of Fetch for TLC.  The counters are 4 bits wide instead of  *)
(* 32; MaxDelay is 10 * BaseDelay, as config.rs computes it.               *)
(***************************************************************************)
EXTENDS Fetch

SmallWord == 16
TenfoldDelay == 10 * BaseDelay
=============================================================================
