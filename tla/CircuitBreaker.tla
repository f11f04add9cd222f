--------------------------- MODULE CircuitBreaker ---------------------------
(***************************************************************************)
(* The circuit breaker of circuit_breaker.rs, as its callers see it.       *)
(*                                                                         *)
(* `execute` takes the mutex twice: once to decide whether the operation   *)
(* may run and once, after the operation has been awaited outside the      *)
(* lock, to record its outcome.  Each critical section is one atomic step  *)
(* here; between the two the caller is a member of `running`, and other    *)
(* callers take their own steps.                                           *)
(*                                                                         *)
(* Time is discrete.  Instead of the instant `since` at which the breaker  *)
(* opened, `elapsed` is the difference `now - since` that the code         *)
(* computes, kept from growing past ResetTimeout because the code only     *)
(* compares it with reset_timeout.                                         *)
(***************************************************************************)
EXTENDS Naturals

CONSTANTS
    Callers,            \* concurrent users of the one breaker
    FailureThreshold,   \* failure_threshold, at least 1 (config.rs)
    ResetTimeout        \* reset_timeout in ticks, at least 1 (config.rs)

ASSUME BreakerAssumption ==
    /\ FailureThreshold \in Nat \ {0}
    /\ ResetTimeout \in Nat \ {0}

VARIABLES
    status,                 \* which CircuitState the mutex holds
    consecutive_failures,   \* the field of Closed, 0 in the other states
    elapsed,                \* time since the breaker opened, 0 unless Open
    running,                \* callers between their two critical sections
    veterans,               \* history: those in flight since before the
                            \*   breaker last opened
    streak                  \* history: failures recorded since the last
                            \*   success, kept at FailureThreshold

circuit == <<status, consecutive_failures, elapsed>>
vars == <<status, consecutive_failures, elapsed, running, veterans, streak>>

CircuitStatus == {"Closed", "Open", "HalfOpen"}

TypeOK ==
    /\ status \in CircuitStatus
    /\ consecutive_failures \in 0 .. FailureThreshold - 1
    /\ elapsed \in 0 .. ResetTimeout
    /\ running \subseteq Callers
    /\ veterans \subseteq running
    /\ streak \in 0 .. FailureThreshold
    /\ status # "Closed" => consecutive_failures = 0
    /\ status # "Open" => elapsed = 0

Init ==
    /\ status = "Closed"
    /\ consecutive_failures = 0
    /\ elapsed = 0
    /\ running = {}
    /\ veterans = {}
    /\ streak = 0

-----------------------------------------------------------------------------
(***************************************************************************)
(* The first critical section: the decision.                               *)
(***************************************************************************)

\* Slips the runs must notice: an open breaker that lets a caller run one tick
\* early, and one that forgets to move to half-open.
AdmitEarly ==
    \/ status \in {"Closed", "HalfOpen"} /\ UNCHANGED circuit
    \/ /\ status = "Open"
       /\ elapsed + 1 >= ResetTimeout
       /\ status' = "HalfOpen"
       /\ elapsed' = 0
       /\ UNCHANGED consecutive_failures

AdmitStayingOpen ==
    \/ status \in {"Closed", "HalfOpen"} /\ UNCHANGED circuit
    \/ status = "Open" /\ elapsed >= ResetTimeout /\ UNCHANGED circuit

\* What the decision does to the circuit when it lets the caller run.  A
\* closed or half-open circuit is left as it is.
Admit ==
    \/ /\ status \in {"Closed", "HalfOpen"}
       /\ UNCHANGED circuit
    \/ /\ status = "Open"
       /\ elapsed >= ResetTimeout
       /\ status' = "HalfOpen"
       /\ elapsed' = 0
       /\ UNCHANGED consecutive_failures

Enter(c) ==
    /\ c \notin running
    /\ Admit
    /\ running' = running \cup {c}
    /\ UNCHANGED <<veterans, streak>>

\* The open breaker turns the caller away without running the operation.
Refuses == status = "Open" /\ elapsed < ResetTimeout

Reject(c) ==
    /\ c \notin running
    /\ Refuses
    /\ UNCHANGED vars

-----------------------------------------------------------------------------
(***************************************************************************)
(* The second critical section: recording the outcome.                     *)
(***************************************************************************)

\* A slip the runs must notice: a success in Closed does not reset the count.
RecordSuccessKeepingCount ==
    /\ status' = "Closed"
    /\ elapsed' = 0
    /\ UNCHANGED consecutive_failures

\* A slip the runs must notice: only a closed circuit takes note of a success.
RecordSuccessWhenClosed ==
    /\ consecutive_failures' = 0
    /\ UNCHANGED <<status, elapsed>>

\* A success closes the circuit whatever state it finds.
RecordSuccess ==
    /\ status' = "Closed"
    /\ consecutive_failures' = 0
    /\ elapsed' = 0

TripOpen ==
    /\ status' = "Open"
    /\ consecutive_failures' = 0
    /\ elapsed' = 0

\* Slips the runs must notice: the comparison with the threshold is strict,
\* the half-open arm is grouped with the open one, and a failure that finds
\* the circuit open opens it afresh.
RecordFailureOffByOne ==
    \/ /\ status = "Closed" /\ consecutive_failures + 1 > FailureThreshold
       /\ TripOpen
    \/ /\ status = "Closed" /\ consecutive_failures + 1 <= FailureThreshold
       /\ consecutive_failures' = consecutive_failures + 1
       /\ UNCHANGED <<status, elapsed>>
    \/ status = "HalfOpen" /\ TripOpen
    \/ status = "Open" /\ UNCHANGED circuit

RecordFailureIgnoringProbe ==
    IF status = "Closed" THEN
        IF consecutive_failures + 1 >= FailureThreshold
        THEN TripOpen
        ELSE /\ consecutive_failures' = consecutive_failures + 1
             /\ UNCHANGED <<status, elapsed>>
    ELSE UNCHANGED circuit

RecordFailureReopening ==
    IF status = "Closed" /\ consecutive_failures + 1 < FailureThreshold
    THEN /\ consecutive_failures' = consecutive_failures + 1
         /\ UNCHANGED <<status, elapsed>>
    ELSE TripOpen

RecordFailure ==
    \/ /\ status = "Closed"
       /\ consecutive_failures + 1 >= FailureThreshold
       /\ TripOpen
    \/ /\ status = "Closed"
       /\ consecutive_failures + 1 < FailureThreshold
       /\ consecutive_failures' = consecutive_failures + 1
       /\ UNCHANGED <<status, elapsed>>
    \/ /\ status = "HalfOpen"
       /\ TripOpen
    \/ /\ status = "Open"
       /\ UNCHANGED circuit

\* The calls that remain in flight become veterans when the circuit opens.
Leave(c) ==
    /\ running' = running \ {c}
    /\ veterans' = IF status # "Open" /\ status' = "Open"
                   THEN running \ {c}
                   ELSE veterans \ {c}

Succeed(c) ==
    /\ c \in running
    /\ RecordSuccess
    /\ Leave(c)
    /\ streak' = 0

Fail(c) ==
    /\ c \in running
    /\ RecordFailure
    /\ Leave(c)
    /\ streak' = IF streak < FailureThreshold THEN streak + 1 ELSE streak

-----------------------------------------------------------------------------
(***************************************************************************)
(* The monotonic clock.  It matters only while the circuit is open.        *)
(***************************************************************************)
Elapse ==
    /\ status = "Open"
    /\ elapsed < ResetTimeout
    /\ elapsed' = elapsed + 1
    /\ UNCHANGED <<status, consecutive_failures, running, veterans, streak>>

Next ==
    \/ \E c \in Callers : Enter(c) \/ Reject(c) \/ Succeed(c) \/ Fail(c)
    \/ Elapse

Spec == Init /\ [][Next]_vars

(***************************************************************************)
(* Every operation the collector runs under the breaker ends: it is a      *)
(* bounded retry loop of HTTP calls with a request timeout.  Time passes.  *)
(* Nothing obliges anyone to call the breaker again.                       *)
(***************************************************************************)
Fairness ==
    /\ WF_vars(Elapse)
    /\ \A c \in Callers : WF_vars(Succeed(c) \/ Fail(c))

FairSpec == Spec /\ Fairness

-----------------------------------------------------------------------------
(***************************************************************************)
(* Properties.                                                             *)
(***************************************************************************)

\* Nobody is admitted while the circuit is open: every call that is still in
\* flight then was already in flight when the circuit opened.
OpenAdmitsNobody ==
    status = "Open" => running = veterans

\* A half-open circuit is never orphaned: a call admitted after the circuit
\* last opened is in flight and will decide whether it closes or re-opens.
\* Without it the exporter would report half-open, and be ready, for ever.
HalfOpenHasProbe ==
    status = "HalfOpen" => \E c \in running : c \notin veterans

\* The circuit is closed exactly when fewer than FailureThreshold failures
\* have been recorded since the last success, and then it knows how many:
\* concurrent callers never make it lose or double-count an outcome, and
\* only a success ever forgives.
TripsExactlyOnStreak ==
    /\ status = "Closed" <=> streak < FailureThreshold
    /\ status = "Closed" => consecutive_failures = streak

\* Failures of calls that were in flight when the circuit opened never
\* restart the reset timeout.
CoolDownNeverRestarts ==
    [][status = "Open" /\ status' = "Open" => elapsed' >= elapsed]_vars

\* The documented way out of Open leads through HalfOpen.  Concurrent callers
\* add one other, and only one: a call from before the opening succeeds after
\* all (record_success does not look at the state it finds).
EarlyCloseOnlyByVeteran ==
    [][status = "Open" /\ status' = "Closed" =>
          \E c \in veterans : c \notin running']_vars

\* An admitted probe always settles a half-open circuit.
HalfOpenSettles == status = "HalfOpen" ~> status # "HalfOpen"

(***************************************************************************)
(* The documented state machine, read from the breaker's own variables.    *)
(***************************************************************************)
Machine ==
    INSTANCE BreakerStateMachine WITH failures <- consecutive_failures

\* With one call at a time the breaker is the state machine its comment
\* documents: Open is left only through HalfOpen, after the whole timeout.
ImplementsStateMachine == Machine!Spec

=============================================================================
