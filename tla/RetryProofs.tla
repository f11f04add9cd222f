---------------------------- MODULE RetryProofs ----------------------------
(***************************************************************************)
(* Proofs about Retry, for any number of retries, any delays and any width *)
(* of the counters.                                                        *)
(***************************************************************************)
EXTENDS Retry, RecursionLemmas

-----------------------------------------------------------------------------
(***************************************************************************)
(* The schedule.                                                           *)
(***************************************************************************)

LEMMA Powers ==
  /\ pow2 \in [Nat -> Nat]
  /\ pow2[0] = 1
  /\ \A n \in Nat : pow2[n + 1] = Smaller(2 * pow2[n], Word - 1)
<1> DEFINE step == [x \in Nat \X Nat |-> Smaller(2 * x[2], Word - 1)]
<1>1. step \in [Nat \X Nat -> Nat]
  BY RetryAssumption DEF Smaller
<1> HIDE DEF step
<1>2. PICK f \in [Nat -> Nat] :
         f[0] = 1 /\ \A n \in Nat \ {0} : f[n] = step[<<n, f[n - 1]>>]
  BY <1>1, 1 \in Nat, Recursion, Zenon
<1>3. ASSUME NEW n \in Nat \ {0}
      PROVE  f[n] = Smaller(2 * f[n - 1], Word - 1)
  <2>1. <<n, f[n - 1]>> \in Nat \X Nat
    BY <1>2
  <2> QED
    BY <1>2, <2>1 DEF step
<1>4. f = [n \in Nat |-> IF n = 0 THEN 1 ELSE Smaller(2 * f[n - 1], Word - 1)]
  BY <1>2, <1>3, Zenon
<1>5. pow2 =
        [n \in Nat |-> IF n = 0 THEN 1 ELSE Smaller(2 * pow2[n - 1], Word - 1)]
  BY <1>4 DEF pow2
<1>6. \A n \in Nat :
         pow2[n] = IF n = 0 THEN 1 ELSE Smaller(2 * pow2[n - 1], Word - 1)
  BY <1>5
<1>7. ASSUME NEW g, g = [n \in Nat |-> IF n = 0 THEN 1
                                       ELSE Smaller(2 * g[n - 1], Word - 1)]
      PROVE  g \in [Nat -> Nat]
  <2>1. \A n \in Nat : g[n] = IF n = 0 THEN 1
                                       ELSE Smaller(2 * g[n - 1], Word - 1)
    BY <1>7
  <2> DEFINE S == {n \in Nat : g[n] \in Nat}
  <2>2. 0 \in S
    BY <2>1
  <2>3. ASSUME NEW n \in Nat, n \in S PROVE n + 1 \in S
    BY <2>1, <2>3, RetryAssumption DEF Smaller
  <2>4. Nat \subseteq S
    BY <2>2, <2>3, Induction
  <2> QED
    BY <1>7, <2>4
<1>8. pow2 \in [Nat -> Nat]
  BY <1>5, <1>7
<1> HIDE DEF pow2
<1>9. ASSUME NEW n \in Nat PROVE pow2[n + 1] = Smaller(2 * pow2[n], Word - 1)
  <2>1. n + 1 \in Nat /\ n + 1 # 0 /\ (n + 1) - 1 = n
    OBVIOUS
  <2> QED
    BY <1>6, <2>1
<1> QED
  BY <1>6, <1>8, <1>9

LEMMA PowersPositive ==
  ASSUME Word > 1
  PROVE  \A n \in Nat : pow2[n] >= 1
<1> DEFINE S == {n \in Nat : pow2[n] >= 1}
<1>1. 0 \in S
  BY Powers
<1>2. ASSUME NEW n \in Nat, n \in S PROVE n + 1 \in S
  <2>1. pow2[n] \in Nat /\ pow2[n] >= 1 /\ pow2[n + 1] = Smaller(2 * pow2[n], Word - 1)
    BY <1>2, Powers
  <2> QED
    BY <2>1, RetryAssumption DEF Smaller
<1>3. Nat \subseteq S
  BY <1>1, <1>2, Induction
<1> QED
  BY <1>3

LEMMA DelaysAreTyped ==
  ASSUME NEW n \in Nat, NEW d \in BackoffDelays(n)
  PROVE  d \in 0 .. MaxDelay
<1>1. pow2[n] \in Nat
  BY Powers
<1>2. BaseDelay * pow2[n] \in Nat
  BY <1>1, RetryAssumption
<1>3. PICK jitter \in Jitter : d = Smaller(BaseDelay * pow2[n] + jitter, MaxDelay)
  BY DEF BackoffDelays
<1>4. jitter \in Nat
  BY <1>3, RetryAssumption DEF Jitter
<1> QED
  BY <1>2, <1>3, <1>4, RetryAssumption DEF Smaller

\* The doubling makes up for the jitter, until the delay reaches its maximum;
\* it must do so before the power reaches the end of its type.
LEMMA BackoffGrows ==
  ASSUME Word > 1, MaxDelay <= BaseDelay * (Word - 1),
         NEW n \in Nat, NEW d \in BackoffDelays(n), NEW e \in BackoffDelays(n + 1)
  PROVE  d <= e
<1> DEFINE p == pow2[n]
<1> DEFINE q == pow2[n + 1]
<1>1. p \in Nat /\ p >= 1 /\ q = Smaller(2 * p, Word - 1) /\ q \in Nat
  BY Powers, PowersPositive
<1>2. PICK i \in Jitter : d = Smaller(BaseDelay * p + i, MaxDelay)
  BY DEF BackoffDelays
<1>3. PICK j \in Jitter : e = Smaller(BaseDelay * q + j, MaxDelay)
  BY DEF BackoffDelays
<1>4. i \in Nat /\ j \in Nat /\ i <= BaseDelay
  BY <1>2, <1>3, RetryAssumption DEF Jitter
<1> HIDE DEF p, q
<1>5. BaseDelay * p \in Nat /\ BaseDelay * q \in Nat
  BY <1>1, RetryAssumption
<1>6. CASE q = 2 * p
  <2>1. BaseDelay * q = BaseDelay * p + BaseDelay * p
    BY <1>1, <1>6, RetryAssumption
  <2>2. BaseDelay * p >= BaseDelay
    BY <1>1, RetryAssumption
  <2> QED
    BY <1>2, <1>3, <1>4, <1>5, <2>1, <2>2, RetryAssumption DEF Smaller
<1>7. CASE q = Word - 1
  <2>1. BaseDelay * q >= MaxDelay
    BY <1>7
  <2> QED
    BY <1>2, <1>3, <1>4, <1>5, <2>1, RetryAssumption DEF Smaller
<1> QED
  BY <1>1, <1>6, <1>7 DEF Smaller

-----------------------------------------------------------------------------
(***************************************************************************)
(* The loop.                                                               *)
(***************************************************************************)
LEMMA TotalAttempts ==
  /\ total_attempts \in 0 .. Word - 1
  /\ total_attempts <= MaxAttempts + 1
  /\ MaxAttempts + 1 < Word => total_attempts = MaxAttempts + 1
<1>1. CASE MaxAttempts + 1 < Word
  BY <1>1, RetryAssumption DEF total_attempts
<1>2. CASE MaxAttempts + 1 = Word
  <2>1. (MaxAttempts + 1) % Word = 0
    BY <1>2, RetryAssumption
  <2> QED
    BY <1>2, <2>1, RetryAssumption DEF total_attempts
<1> QED
  BY <1>1, <1>2, RetryAssumption

\* Where the loop is, and what it has started and kept by then.
LoopInv ==
    /\ pc \in Ended \cup {"loop", "calling", "sleeping"}
    /\ attempt \in 0 .. total_attempts /\ started \in Nat /\ last_err \in BOOLEAN
    /\ pc = "loop" => started = attempt /\ (attempt > 0 => last_err)
    /\ pc = "calling" => started = attempt + 1 /\ attempt < total_attempts
    /\ pc = "sleeping" =>
          started = attempt + 1 /\ attempt + 1 < total_attempts /\ last_err
    /\ pc \in Ended => started <= total_attempts

LEMMA LoopInit == Init => LoopInv
<1> SUFFICES ASSUME Init PROVE LoopInv
  OBVIOUS
<1>1. 0 \in 0 .. total_attempts
  BY TotalAttempts, RetryAssumption
<1>2. ~(attempt > 0) /\ attempt \in 0 .. total_attempts /\ started \in Nat
  BY <1>1 DEF Init
<1>3. pc = "loop" /\ started = attempt /\ last_err \in BOOLEAN
  BY DEF Init
<1> QED
  BY <1>2, <1>3 DEF LoopInv, Ended

LEMMA LoopStep == LoopInv /\ [Next]_vars => LoopInv'
<1> SUFFICES ASSUME LoopInv, [Next]_vars PROVE LoopInv'
  OBVIOUS
<1>0. total_attempts \in Nat
  BY TotalAttempts, RetryAssumption
<1>1. CASE StartAttempt
  BY <1>0, <1>1 DEF StartAttempt, LoopInv, Ended
<1>2. CASE LeaveLoop
  BY <1>0, <1>2 DEF LeaveLoop, LoopInv, Ended
<1>3. CASE AttemptSucceeds
  BY <1>0, <1>3 DEF AttemptSucceeds, LoopInv, Ended
<1>4. CASE AttemptFails
  BY <1>0, <1>4 DEF AttemptFails, LoopInv, Ended
<1>5. CASE Wake
  BY <1>0, <1>5 DEF Wake, LoopInv, Ended
<1>6. CASE UNCHANGED vars
  BY <1>6 DEF vars, LoopInv, Ended
<1> QED
  BY <1>1, <1>2, <1>3, <1>4, <1>5, <1>6 DEF Next, Done

\* The invariant of the loop.
LEMMA LoopAlways == Spec => []LoopInv
  BY LoopInit, LoopStep, PTL DEF Spec

DelayTypeOK == delay \in 0 .. MaxDelay /\ longest \in 0 .. MaxDelay

LEMMA DelayTypeStep ==
  ASSUME LoopInv, DelayTypeOK, [Next]_vars
  PROVE  DelayTypeOK'
<1>1. CASE AttemptFails
  <2>1. attempt \in Nat
    BY TotalAttempts DEF LoopInv
  <2>2. CASE delay' \in BackoffDelays(attempt) /\ longest' = Larger(longest, delay)
    BY <2>1, <2>2, DelaysAreTyped DEF DelayTypeOK, Larger
  <2>3. CASE UNCHANGED <<delay, longest>>
    BY <2>3 DEF DelayTypeOK
  <2> QED
    BY <1>1, <2>2, <2>3 DEF AttemptFails
<1>2. CASE UNCHANGED <<delay, longest>>
  BY <1>2 DEF DelayTypeOK
<1> QED
  BY <1>1, <1>2 DEF Next, vars, StartAttempt, LeaveLoop, AttemptSucceeds, Wake,
     Done

\* The state of the loop is well formed: the counters stay within their
\* type, and no delay exceeds the configured maximum.
THEOREM TypeCorrect == Spec => []TypeOK
<1>1. Init => DelayTypeOK
  BY RetryAssumption DEF Init, DelayTypeOK
<1>2. LoopInv /\ DelayTypeOK /\ [Next]_vars => DelayTypeOK'
  BY DelayTypeStep
<1>3. LoopInv /\ DelayTypeOK => TypeOK
  BY TotalAttempts, RetryAssumption DEF LoopInv, DelayTypeOK, TypeOK, Ended
<1> QED
  BY <1>1, <1>2, <1>3, LoopAlways, PTL DEF Spec

-----------------------------------------------------------------------------
(***************************************************************************)
(* Backoffs.                                                               *)
(***************************************************************************)

\* The next sleep, if there is one, will not be shorter than the latest one.
NextSleepIsLonger ==
    /\ pc \in {"loop", "calling"} /\ attempt < total_attempts =>
          \A d \in BackoffDelays(attempt) : delay <= d
    /\ pc = "sleeping" => \A d \in BackoffDelays(attempt + 1) : delay <= d

LEMMA BackoffStep ==
  ASSUME Word > 1, MaxDelay <= BaseDelay * (Word - 1),
         LoopInv, DelayTypeOK, NextSleepIsLonger, BackoffNeverShrinks, [Next]_vars
  PROVE  NextSleepIsLonger' /\ BackoffNeverShrinks'
<1>0. attempt \in Nat /\ total_attempts \in Nat /\ delay \in Nat /\ longest \in Nat
  BY TotalAttempts, RetryAssumption DEF LoopInv, DelayTypeOK
<1>1. CASE AttemptFails
  <2>1. CASE /\ attempt + 1 < total_attempts /\ delay' \in BackoffDelays(attempt)
             /\ longest' = Larger(longest, delay)
             /\ pc' = "sleeping" /\ attempt' = attempt
    <3>1. delay <= delay'
      BY <1>0, <1>1, <2>1 DEF AttemptFails, NextSleepIsLonger
    <3>2. longest' = delay
      BY <1>0, <2>1 DEF Larger, BackoffNeverShrinks
    <3>3. \A d \in BackoffDelays(attempt + 1) : delay' <= d
      BY <1>0, <2>1, BackoffGrows
    <3> QED
      BY <2>1, <3>1, <3>2, <3>3 DEF NextSleepIsLonger, BackoffNeverShrinks
  <2>2. CASE /\ attempt + 1 >= total_attempts /\ attempt' = attempt + 1
             /\ pc' = "loop" /\ UNCHANGED <<delay, longest>>
    BY <1>0, <2>2 DEF NextSleepIsLonger, BackoffNeverShrinks
  <2> QED
    BY <1>1, <2>1, <2>2 DEF AttemptFails
<1>2. CASE StartAttempt
  BY <1>2 DEF StartAttempt, NextSleepIsLonger, BackoffNeverShrinks
<1>3. CASE Wake
  BY <1>3 DEF Wake, NextSleepIsLonger, BackoffNeverShrinks
<1>4. CASE LeaveLoop \/ AttemptSucceeds
  BY <1>4 DEF LeaveLoop, AttemptSucceeds, NextSleepIsLonger, BackoffNeverShrinks
<1>5. CASE UNCHANGED vars
  BY <1>5 DEF vars, NextSleepIsLonger, BackoffNeverShrinks
<1> QED
  BY <1>1, <1>2, <1>3, <1>4, <1>5 DEF Next, Done

\* Backoffs never shrink, provided that the maximal delay is reached before
\* the power of two is at the end of its type.  config.rs takes ten times the
\* base delay for the maximum, and the type has 32 bits.
THEOREM Backoffs ==
  ASSUME Word > 1, MaxDelay <= BaseDelay * (Word - 1)
  PROVE  Spec => []BackoffNeverShrinks
<1>1. Init => DelayTypeOK /\ NextSleepIsLonger /\ BackoffNeverShrinks
  <2> SUFFICES ASSUME Init
               PROVE  DelayTypeOK /\ NextSleepIsLonger /\ BackoffNeverShrinks
    OBVIOUS
  <2>1. pc = "loop" /\ attempt = 0 /\ delay = 0 /\ longest = 0
    BY DEF Init
  <2>2. \A d \in BackoffDelays(0) : 0 <= d
    BY DelaysAreTyped
  <2> QED
    BY <2>1, <2>2, RetryAssumption
       DEF DelayTypeOK, NextSleepIsLonger, BackoffNeverShrinks
<1>2. /\ LoopInv /\ DelayTypeOK /\ NextSleepIsLonger /\ BackoffNeverShrinks
      /\ [Next]_vars
      => DelayTypeOK' /\ NextSleepIsLonger' /\ BackoffNeverShrinks'
  BY DelayTypeStep, BackoffStep
<1> QED
  BY <1>1, <1>2, LoopAlways, PTL DEF Spec

-----------------------------------------------------------------------------
(***************************************************************************)
(* The result.                                                             *)
(***************************************************************************)

\* The panic needs the one value of max_attempts for which the number of
\* attempts wraps around.
THEOREM Panics ==
  ASSUME MaxAttempts + 1 < Word
  PROVE  Spec => []NeverPanics
<1>1. Init => NeverPanics
  BY DEF Init, NeverPanics
<1>2. LoopInv /\ NeverPanics /\ [Next]_vars => NeverPanics'
  <2> SUFFICES ASSUME LoopInv, NeverPanics, [Next]_vars PROVE NeverPanics'
    OBVIOUS
  <2>1. CASE LeaveLoop
    <3>1. attempt > 0
      BY <2>1, TotalAttempts, RetryAssumption DEF LeaveLoop, LoopInv
    <3> QED
      BY <2>1, <3>1 DEF LeaveLoop, LoopInv, NeverPanics
  <2>2. CASE pc' # "panicked"
    BY <2>2 DEF NeverPanics
  <2> QED
    BY <2>1, <2>2 DEF Next, vars, StartAttempt, AttemptSucceeds, AttemptFails,
       Wake, Done, NeverPanics
<1> QED
  BY <1>1, <1>2, LoopAlways, PTL DEF Spec

\* Every step of the loop is a step of the contract or invisible in it: at
\* least one attempt, at most one more than the retries, the last error once
\* all have failed.
THEOREM KeepsContract ==
  ASSUME MaxAttempts + 1 < Word
  PROVE  Spec => Contract!Init /\ [][Contract!Next]_(Contract!vars)
<1>0. total_attempts = MaxAttempts + 1 /\ MaxAttempts \in Nat
  BY TotalAttempts, RetryAssumption
<1>1. Init => Contract!Init
  BY <1>0 DEF Init, Contract!Init
<1>2. LoopInv /\ [Next]_vars => [Contract!Next]_(Contract!vars)
  <2> SUFFICES ASSUME LoopInv, [Next]_vars
               PROVE  Contract!Next \/ UNCHANGED Contract!vars
    OBVIOUS
  <2>1. CASE StartAttempt
    BY <1>0, <2>1 DEF StartAttempt, LoopInv, Contract!vars
  <2>2. CASE LeaveLoop
    BY <1>0, <2>2 DEF LeaveLoop, LoopInv, Contract!vars
  <2>3. CASE AttemptSucceeds
    BY <2>3 DEF AttemptSucceeds, Contract!Next, Contract!Answer
  <2>4. CASE AttemptFails
    BY <1>0, <2>4 DEF AttemptFails, LoopInv, Contract!Next, Contract!GiveUp,
       Contract!vars
  <2>5. CASE Wake
    BY <1>0, <2>5 DEF Wake, LoopInv, Contract!Next, Contract!Again
  <2>6. CASE UNCHANGED vars
    BY <2>6 DEF vars, Contract!vars
  <2> QED
    BY <2>1, <2>2, <2>3, <2>4, <2>5, <2>6 DEF Next, Done
<1> QED
  BY <1>1, <1>2, LoopAlways, PTL DEF Spec
=============================================================================
