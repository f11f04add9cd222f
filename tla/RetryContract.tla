--------------------------- MODULE RetryContract ---------------------------
(***************************************************************************)
(* What the collector relies on when it wraps a call in the retry loop:    *)
(* at least one attempt and at most 1 + MaxRetries of them, an answer as   *)
(* soon as one attempt succeeds, and the error of the last attempt once    *)
(* all have failed.  Collector's Retry, Exhaust and Answer are the three   *)
(* actions of this module for one fetch.                                   *)
(***************************************************************************)
EXTENDS Naturals

CONSTANT MaxRetries

VARIABLES
    result,     \* "pending", "ok" or "failed"
    tries       \* attempts started

vars == <<result, tries>>

Init == result = "pending" /\ tries = 1

\* An attempt fails and another one starts.
Again ==
    /\ result = "pending"
    /\ tries < MaxRetries + 1
    /\ tries' = tries + 1
    /\ UNCHANGED result

\* The last permitted attempt fails.
GiveUp ==
    /\ result = "pending"
    /\ tries = MaxRetries + 1
    /\ result' = "failed"
    /\ UNCHANGED tries

\* An attempt succeeds.
Answer ==
    /\ result = "pending"
    /\ result' = "ok"
    /\ UNCHANGED tries

Next == Again \/ GiveUp \/ Answer

Spec == Init /\ [][Next]_vars /\ WF_vars(Next)
=============================================================================
