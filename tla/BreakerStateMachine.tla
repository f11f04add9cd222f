------------------------ MODULE BreakerStateMachine ------------------------
(***************************************************************************)
(* The state machine that circuit_breaker.rs documents for its breaker,    *)
(* as a user with one call at a time sees it:                              *)
(*                                                                         *)
(*   Closed   -> Open      after FailureThreshold consecutive failures     *)
(*   Open     -> HalfOpen  once the reset timeout has elapsed              *)
(*   HalfOpen -> Closed    on success                                      *)
(*   HalfOpen -> Open      on failure                                      *)
(*                                                                         *)
(* There is no other way out of Open.                                      *)
(***************************************************************************)
EXTENDS Naturals

CONSTANTS FailureThreshold, ResetTimeout

VARIABLES
    status,     \* the documented state
    failures,   \* consecutive failures while Closed
    elapsed     \* time spent in Open

vars == <<status, failures, elapsed>>

Init == status = "Closed" /\ failures = 0 /\ elapsed = 0

\* A closed breaker counts a failure that is not yet the last straw.
Count ==
    /\ status = "Closed"
    /\ failures + 1 < FailureThreshold
    /\ failures' = failures + 1
    /\ UNCHANGED <<status, elapsed>>

\* A success in Closed or HalfOpen.
Close ==
    /\ status \in {"Closed", "HalfOpen"}
    /\ status' = "Closed"
    /\ failures' = 0
    /\ UNCHANGED elapsed

\* The last straw in Closed, or any failure in HalfOpen.
Open ==
    /\ \/ status = "Closed" /\ failures + 1 = FailureThreshold
       \/ status = "HalfOpen"
    /\ status' = "Open"
    /\ failures' = 0
    /\ elapsed' = 0

Wait ==
    /\ status = "Open"
    /\ elapsed < ResetTimeout
    /\ elapsed' = elapsed + 1
    /\ UNCHANGED <<status, failures>>

Probe ==
    /\ status = "Open"
    /\ elapsed = ResetTimeout
    /\ status' = "HalfOpen"
    /\ elapsed' = 0
    /\ UNCHANGED failures

Next == Count \/ Close \/ Open \/ Wait \/ Probe

Spec == Init /\ [][Next]_vars
=============================================================================
