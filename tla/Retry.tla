------------------------------- MODULE Retry -------------------------------
(***************************************************************************)
(* with_retry of retry.rs: one operation, tried until it succeeds or the   *)
(* attempts are used up, with an exponential backoff and jitter between    *)
(* two attempts.                                                           *)
(*                                                                         *)
(* Delays are whole milliseconds.  Word is the number of values of the     *)
(* attempt counters, 2^32 in the program; a release build wraps around.    *)
(***************************************************************************)
EXTENDS Naturals

CONSTANTS
    Word,           \* size of the counters' type (u32)
    MaxAttempts,    \* max_attempts: retries after the first attempt
    BaseDelay,      \* base_delay
    MaxDelay        \* max_delay

ASSUME RetryAssumption ==
    /\ Word \in Nat \ {0}
    /\ MaxAttempts \in 0 .. Word - 1
    /\ BaseDelay \in Nat
    /\ MaxDelay \in Nat

VARIABLES
    pc,             \* "loop", "calling", "sleeping", "ok", "failed", "panicked"
    attempt,        \* the loop variable
    last_err,       \* whether last_err is Some
    delay,          \* the latest backoff, 0 before the first
    longest,        \* history: the longest backoff before the latest one
    started         \* history: attempts started

vars == <<pc, attempt, last_err, delay, longest, started>>

Ended == {"ok", "failed", "panicked"}

TypeOK ==
    /\ pc \in Ended \cup {"loop", "calling", "sleeping"}
    /\ attempt \in 0 .. Word - 1
    /\ last_err \in BOOLEAN
    /\ delay \in 0 .. MaxDelay
    /\ longest \in 0 .. MaxDelay
    /\ started \in 0 .. Word

-----------------------------------------------------------------------------
(***************************************************************************)
(* backoff_delay.                                                          *)
(***************************************************************************)
Smaller(a, b) == IF a < b THEN a ELSE b
Larger(a, b) == IF a < b THEN b ELSE a

\* 2u32.saturating_pow
pow2[n \in Nat] == IF n = 0 THEN 1 ELSE Smaller(2 * pow2[n - 1], Word - 1)

\* A slip the runs must notice: jitter on the scale of twice the base delay.
WideJitter == IF BaseDelay = 0 THEN {0} ELSE 0 .. 2 * BaseDelay - 1

\* Uniform in [0, base_delay), or nothing when that is empty.
Jitter == IF BaseDelay = 0 THEN {0} ELSE 0 .. BaseDelay - 1

\* A slip the runs must notice: the sum is not capped.
UncappedDelays(n) == {BaseDelay * pow2[n] + jitter : jitter \in Jitter}

BackoffDelays(n) ==
    {Smaller(BaseDelay * pow2[n] + jitter, MaxDelay) : jitter \in Jitter}

-----------------------------------------------------------------------------
(***************************************************************************)
(* with_retry.                                                             *)
(***************************************************************************)

\* A slip the runs must notice: the first attempt counts as a retry.
total_attempts_short == MaxAttempts % Word

\* The initial attempt and the retries, in the counters' width.
total_attempts == (MaxAttempts + 1) % Word

Init ==
    /\ pc = "loop"
    /\ attempt = 0
    /\ last_err = FALSE
    /\ delay = 0
    /\ longest = 0
    /\ started = 0

StartAttempt ==
    /\ pc = "loop"
    /\ attempt < total_attempts
    /\ pc' = "calling"
    /\ started' = started + 1
    /\ UNCHANGED <<attempt, last_err, delay, longest>>

\* The range is used up: return the last error, which must be there.
LeaveLoop ==
    /\ pc = "loop"
    /\ attempt >= total_attempts
    /\ pc' = IF last_err THEN "failed" ELSE "panicked"
    /\ UNCHANGED <<attempt, last_err, delay, longest, started>>

AttemptSucceeds ==
    /\ pc = "calling"
    /\ pc' = "ok"
    /\ UNCHANGED <<attempt, last_err, delay, longest, started>>

\* The attempt fails; it is followed by a sleep unless it was the last.
AttemptFails ==
    /\ pc = "calling"
    /\ last_err' = TRUE
    /\ \/ /\ attempt + 1 < total_attempts
          /\ delay' \in BackoffDelays(attempt)
          /\ longest' = Larger(longest, delay)
          /\ pc' = "sleeping"
          /\ UNCHANGED attempt
       \/ /\ attempt + 1 >= total_attempts
          /\ attempt' = attempt + 1
          /\ pc' = "loop"
          /\ UNCHANGED <<delay, longest>>
    /\ UNCHANGED started

Wake ==
    /\ pc = "sleeping"
    /\ attempt' = attempt + 1
    /\ pc' = "loop"
    /\ UNCHANGED <<last_err, delay, longest, started>>

Done == pc \in Ended /\ UNCHANGED vars

Next ==
    \/ StartAttempt \/ LeaveLoop
    \/ AttemptSucceeds \/ AttemptFails
    \/ Wake \/ Done

\* Requests time out and sleeps end.
Spec == Init /\ [][Next]_vars /\ WF_vars(Next)

-----------------------------------------------------------------------------
(***************************************************************************)
(* Properties.                                                             *)
(***************************************************************************)

\* Jitter never makes a backoff shorter than one before it: [0, base_delay)
\* is just narrow enough for the doubling to make up for it (backoff_delay).
BackoffNeverShrinks == delay >= longest

\* The retry loop is what the collector takes it for: the sleep and the loop
\* head are invisible, there is no sleep after the last attempt, and a result
\* comes.  At a loop head that goes on, the next attempt already counts.
Contract ==
    INSTANCE RetryContract
        WITH MaxRetries <- MaxAttempts,
             result <- IF pc \in {"ok", "failed"} THEN pc
                       ELSE IF pc = "loop" /\ attempt >= total_attempts
                            THEN "failed"
                       ELSE "pending",
             tries <- IF pc = "loop" /\ attempt < total_attempts
                      THEN started + 1
                      ELSE started

ImplementsContract == Contract!Spec

\* "total_attempts >= 1, so the loop body always executes at least once"
\* (comment of with_retry).
NeverPanics == pc # "panicked"
=============================================================================
