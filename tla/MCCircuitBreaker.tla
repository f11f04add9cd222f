-------------------------- MODULE MCCircuitBreaker --------------------------
(***************************************************************************)
(* Instances of CircuitBreaker for TLC.                                    *)
(***************************************************************************)
EXTENDS CircuitBreaker

CONSTANTS c1, c2, c3, c4

\* Four callers: some open the circuit, some are in flight meanwhile, and some
\* arrive later, two of each at once.
FourCallers == {c1, c2, c3, c4}

OneCaller == {c1}
=============================================================================
