------------------------------- MODULE Fetch -------------------------------
(***************************************************************************)
(* One fetch as the collector makes it: with_retry around the client's     *)
(* get, in time.  The retry loop is the module Retry, whose attempts this  *)
(* module fills with requests of the module Client.                        *)
(*                                                                         *)
(* Sleeping is one step, which adds the delay to the time spent; waiting   *)
(* for a request advances unit by unit, since the answer may race with the *)
(* timeout.                                                                *)
(***************************************************************************)
EXTENDS Retry

CONSTANT RequestTimeout     \* REQUEST_TIMEOUT_MS

ASSUME FetchAssumption == RequestTimeout \in Nat \ {0}

VARIABLES
    request, waited,    \* the client
    spent               \* history: time since the fetch began

client == <<request, waited>>
fetchVars == <<vars, client, spent>>

C == INSTANCE Client

FetchInit == Init /\ C!Init /\ spent = 0

\* f(): the attempt is a request.
Attempt == StartAttempt /\ C!Send /\ UNCHANGED spent

Answered == AttemptSucceeds /\ request = "ok" /\ UNCHANGED <<client, spent>>

Failed == AttemptFails /\ request \in C!Errors /\ UNCHANGED <<client, spent>>

Slept == Wake /\ spent' = spent + delay /\ UNCHANGED client

GivesUp == LeaveLoop /\ UNCHANGED <<client, spent>>

\* The request goes on.
Hear == pc = "calling" /\ C!Hear /\ UNCHANGED <<vars, spent>>
TimesOut == pc = "calling" /\ C!TimesOut /\ UNCHANGED <<vars, spent>>
Wait == pc = "calling" /\ C!Wait /\ spent' = spent + 1 /\ UNCHANGED vars

FetchDone == Done /\ UNCHANGED <<client, spent>>

FetchNext ==
    \/ Attempt \/ Answered \/ Failed \/ Slept \/ GivesUp
    \/ Hear \/ TimesOut \/ Wait
    \/ FetchDone

(***************************************************************************)
(* Tasks are scheduled, sleeps end and time passes.  Nothing is assumed of *)
(* the server: Hear is not fair.                                           *)
(***************************************************************************)
FetchFairness ==
    /\ WF_fetchVars(Attempt \/ Answered \/ Failed \/ Slept \/ GivesUp)
    /\ WF_fetchVars(TimesOut)
    /\ WF_fetchVars(Wait)

FetchSpec == FetchInit /\ [][FetchNext]_fetchVars /\ FetchFairness

-----------------------------------------------------------------------------
(***************************************************************************)
(* Properties.                                                             *)
(***************************************************************************)

\* The request timeout is what makes the retry loop live up to its own
\* fairness: with a server that may fall silent at any byte, the fetch is
\* still an execution of Retry, and so of its contract.
ImplementsRetry == Spec

\* The documented schedule for the sleep after attempt n, at its longest:
\* base * 2^n and less than one more base, at most MaxDelay.
doubled[n \in Nat] == IF n = 0 THEN 1 ELSE 2 * doubled[n - 1]
LongestDelay(n) == Smaller(BaseDelay * doubled[n] + BaseDelay, MaxDelay)
longestSleeps[n \in Nat] ==
    IF n = 0 THEN 0 ELSE longestSleeps[n - 1] + LongestDelay(n - 1)

\* A fetch never takes longer than its requests at their timeout and its
\* sleeps at their longest.  This is the bound on a cycle that an operator
\* has to compare with the scrape interval.
WithinBudget ==
    spent <= (MaxAttempts + 1) * RequestTimeout + longestSleeps[MaxAttempts]
=============================================================================
