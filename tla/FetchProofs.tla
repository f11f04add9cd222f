---------------------------- MODULE FetchProofs ----------------------------
(***************************************************************************)
(* How long a fetch can take, for any number of retries, any delays and    *)
(* any request timeout.                                                    *)
(***************************************************************************)
EXTENDS Fetch, RetryProofs

-----------------------------------------------------------------------------
(***************************************************************************)
(* The documented schedule.                                                *)
(***************************************************************************)

LEMMA Doubling ==
  /\ \A n \in Nat : doubled[n] \in Nat
  /\ doubled[0] = 1
  /\ \A n \in Nat : doubled[n + 1] = 2 * doubled[n]
<1> DEFINE step == [x \in Nat \X Nat |-> 2 * x[2]]
<1>1. step \in [Nat \X Nat -> Nat]
  OBVIOUS
<1> HIDE DEF step
<1>2. PICK f \in [Nat -> Nat] :
         f[0] = 1 /\ \A n \in Nat \ {0} : f[n] = step[<<n, f[n - 1]>>]
  BY <1>1, 1 \in Nat, Recursion, Zenon
<1>3. ASSUME NEW n \in Nat \ {0} PROVE f[n] = 2 * f[n - 1]
  <2>1. <<n, f[n - 1]>> \in Nat \X Nat
    BY <1>2
  <2> QED
    BY <1>2, <2>1 DEF step
<1>4. f = [n \in Nat |-> IF n = 0 THEN 1 ELSE 2 * f[n - 1]]
  BY <1>2, <1>3, Zenon
<1>5. doubled = [n \in Nat |-> IF n = 0 THEN 1 ELSE 2 * doubled[n - 1]]
  BY <1>4 DEF doubled
<1>6. \A n \in Nat : doubled[n] = IF n = 0 THEN 1 ELSE 2 * doubled[n - 1]
  BY <1>5
<1> HIDE DEF doubled
<1>7. ASSUME NEW n \in Nat PROVE doubled[n + 1] = 2 * doubled[n]
  <2>1. n + 1 \in Nat /\ n + 1 # 0 /\ (n + 1) - 1 = n
    OBVIOUS
  <2> QED
    BY <1>6, <2>1
<1> DEFINE S == {n \in Nat : doubled[n] \in Nat}
<1>8. 0 \in S
  BY <1>6
<1>9. ASSUME NEW n \in Nat, n \in S PROVE n + 1 \in S
  BY <1>7, <1>9
<1>10. Nat \subseteq S
  BY <1>8, <1>9, Induction
<1> QED
  BY <1>6, <1>7, <1>10

LEMMA LongestDelayTyped == \A n \in Nat : LongestDelay(n) \in Nat
<1> SUFFICES ASSUME NEW n \in Nat PROVE LongestDelay(n) \in Nat
  OBVIOUS
<1>1. BaseDelay * doubled[n] \in Nat
  BY Doubling, RetryAssumption
<1> QED
  BY <1>1, RetryAssumption DEF LongestDelay, Smaller

LEMMA Sleeping ==
  /\ \A n \in Nat : longestSleeps[n] \in Nat
  /\ longestSleeps[0] = 0
  /\ \A n \in Nat : longestSleeps[n + 1] = longestSleeps[n] + LongestDelay(n)
<1> DEFINE step == [x \in Nat \X Nat |->
                       IF x[1] = 0 THEN 0 ELSE x[2] + LongestDelay(x[1] - 1)]
<1>1. step \in [Nat \X Nat -> Nat]
  <2>1. ASSUME NEW x \in Nat \X Nat
        PROVE  (IF x[1] = 0 THEN 0 ELSE x[2] + LongestDelay(x[1] - 1)) \in Nat
    <3>1. x[1] \in Nat /\ x[2] \in Nat
      BY <2>1
    <3>2. x[1] # 0 => LongestDelay(x[1] - 1) \in Nat
      BY <3>1, LongestDelayTyped
    <3> QED
      BY <3>1, <3>2
  <2> QED
    BY <2>1
<1> HIDE DEF step
<1>2. PICK f \in [Nat -> Nat] :
         f[0] = 0 /\ \A n \in Nat \ {0} : f[n] = step[<<n, f[n - 1]>>]
  BY <1>1, 0 \in Nat, Recursion, Zenon
<1>3. ASSUME NEW n \in Nat \ {0} PROVE f[n] = f[n - 1] + LongestDelay(n - 1)
  <2>1. <<n, f[n - 1]>> \in Nat \X Nat
    BY <1>2
  <2> QED
    BY <1>2, <2>1 DEF step
<1>4. f = [n \in Nat |-> IF n = 0 THEN 0 ELSE f[n - 1] + LongestDelay(n - 1)]
  BY <1>2, <1>3, Zenon
<1>5. longestSleeps =
        [n \in Nat |-> IF n = 0 THEN 0
                       ELSE longestSleeps[n - 1] + LongestDelay(n - 1)]
  BY <1>4 DEF longestSleeps
<1>6. \A n \in Nat :
         longestSleeps[n] = IF n = 0 THEN 0
                            ELSE longestSleeps[n - 1] + LongestDelay(n - 1)
  BY <1>5
<1> HIDE DEF longestSleeps
<1>7. ASSUME NEW n \in Nat
      PROVE  longestSleeps[n + 1] = longestSleeps[n] + LongestDelay(n)
  <2>1. n + 1 \in Nat /\ n + 1 # 0 /\ (n + 1) - 1 = n
    OBVIOUS
  <2> QED
    BY <1>6, <2>1
<1> DEFINE S == {n \in Nat : longestSleeps[n] \in Nat}
<1>8. 0 \in S
  BY <1>6
<1>9. ASSUME NEW n \in Nat, n \in S PROVE n + 1 \in S
  BY <1>7, <1>9, LongestDelayTyped
<1>10. Nat \subseteq S
  BY <1>8, <1>9, Induction
<1> QED
  BY <1>6, <1>7, <1>10

\* The power of the code, which saturates, is never above the true one.
LEMMA PowersBelow == \A n \in Nat : pow2[n] <= doubled[n]
<1> DEFINE S == {n \in Nat : pow2[n] <= doubled[n]}
<1>1. 0 \in S
  BY Powers, Doubling
<1>2. ASSUME NEW n \in Nat, n \in S PROVE n + 1 \in S
  <2>1. /\ pow2[n] \in Nat /\ pow2[n + 1] = Smaller(2 * pow2[n], Word - 1)
        /\ doubled[n] \in Nat /\ doubled[n + 1] = 2 * doubled[n]
    BY Powers, Doubling
  <2> QED
    BY <1>2, <2>1, RetryAssumption DEF Smaller
<1>3. Nat \subseteq S
  BY <1>1, <1>2, Induction
<1> QED
  BY <1>3

\* A delay of the code is never above the documented one.
LEMMA DelaysWithinSchedule ==
  ASSUME NEW n \in Nat, NEW d \in BackoffDelays(n)
  PROVE  d <= LongestDelay(n)
<1>1. PICK jitter \in Jitter : d = Smaller(BaseDelay * pow2[n] + jitter, MaxDelay)
  BY DEF BackoffDelays
<1>2. jitter \in Nat /\ jitter <= BaseDelay
  BY <1>1, RetryAssumption DEF Jitter
<1>3. pow2[n] \in Nat /\ doubled[n] \in Nat /\ pow2[n] <= doubled[n]
  BY Powers, Doubling, PowersBelow
<1>4. /\ BaseDelay * pow2[n] <= BaseDelay * doubled[n]
      /\ BaseDelay * pow2[n] \in Nat /\ BaseDelay * doubled[n] \in Nat
  BY <1>3, RetryAssumption
<1> QED
  BY <1>1, <1>2, <1>4, RetryAssumption DEF LongestDelay, Smaller

LEMMA SleepsGrow ==
  ASSUME NEW m \in Nat, NEW n \in Nat, m <= n
  PROVE  longestSleeps[m] <= longestSleeps[n]
<1> DEFINE S == {k \in Nat : longestSleeps[m] <= longestSleeps[m + k]}
<1>1. 0 \in S
  BY Sleeping
<1>2. ASSUME NEW k \in Nat, k \in S PROVE k + 1 \in S
  <2>1. m + k \in Nat /\ m + (k + 1) = (m + k) + 1
    OBVIOUS
  <2>2. longestSleeps[m + (k + 1)] = longestSleeps[m + k] + LongestDelay(m + k)
    BY <2>1, Sleeping
  <2>3. /\ longestSleeps[m] \in Nat /\ longestSleeps[m + k] \in Nat
        /\ LongestDelay(m + k) \in Nat
    BY <2>1, Sleeping, LongestDelayTyped
  <2> QED
    BY <1>2, <2>2, <2>3
<1>3. Nat \subseteq S
  BY <1>1, <1>2, Induction
<1>4. n - m \in S /\ m + (n - m) = n
  BY <1>3
<1> QED
  BY <1>4

-----------------------------------------------------------------------------
(***************************************************************************)
(* The time of a fetch.                                                    *)
(***************************************************************************)

\* A fetch is an execution of the retry loop, as long as nothing has to
\* happen; so the invariant of the loop is one of the fetch.
LEMMA FetchSteps == [FetchNext]_fetchVars => [Next]_vars
  BY DEF FetchNext, fetchVars, Next, vars, Attempt, Answered, Failed, Slept,
     GivesUp, Hear, TimesOut, Wait, FetchDone, Done

\* The time spent, by the attempts that were started and the sleeps that were
\* slept.
Budget ==
    /\ spent \in Nat /\ waited \in 0 .. RequestTimeout
    /\ pc = "loop" =>
          \E n \in Nat :
              /\ n <= attempt /\ n <= MaxAttempts
              /\ spent <= started * RequestTimeout + longestSleeps[n]
    /\ pc = "calling" =>
          spent <= attempt * RequestTimeout + waited + longestSleeps[attempt]
    /\ pc = "sleeping" =>
          /\ spent <= started * RequestTimeout + longestSleeps[attempt]
          /\ delay <= LongestDelay(attempt)
    /\ WithinBudget

FetchInv == LoopInv /\ DelayTypeOK /\ Budget

\* Some number of attempts and some number of sleeps fit in the budget.
LEMMA Fits ==
  ASSUME NEW k \in Nat, k <= MaxAttempts + 1, NEW n \in Nat, n <= MaxAttempts,
         NEW t \in Nat, t <= k * RequestTimeout + longestSleeps[n]
  PROVE  t <= (MaxAttempts + 1) * RequestTimeout + longestSleeps[MaxAttempts]
<1>1. MaxAttempts \in Nat /\ RequestTimeout \in Nat
  BY RetryAssumption, FetchAssumption
<1>2. k * RequestTimeout <= (MaxAttempts + 1) * RequestTimeout
  BY <1>1
<1>3. /\ k * RequestTimeout \in Nat /\ (MaxAttempts + 1) * RequestTimeout \in Nat
      /\ longestSleeps[n] \in Nat /\ longestSleeps[MaxAttempts] \in Nat
  BY <1>1, Sleeping
<1>4. longestSleeps[n] <= longestSleeps[MaxAttempts]
  BY <1>1, SleepsGrow
<1> QED
  BY <1>2, <1>3, <1>4

\* An attempt takes no longer than the timeout.
LEMMA AttemptFits ==
  ASSUME FetchInv, pc = "calling"
  PROVE  /\ attempt \in Nat /\ attempt <= MaxAttempts /\ started = attempt + 1
         /\ attempt * RequestTimeout + waited <= started * RequestTimeout
         /\ spent <= started * RequestTimeout + longestSleeps[attempt]
<1>1. /\ attempt \in Nat /\ attempt < total_attempts /\ started = attempt + 1
      /\ total_attempts \in Nat
  BY TotalAttempts, RetryAssumption DEF FetchInv, LoopInv
<1>2. attempt <= MaxAttempts
  BY <1>1, TotalAttempts, RetryAssumption
<1>3. /\ RequestTimeout \in Nat /\ waited \in Nat /\ waited <= RequestTimeout
      /\ spent \in Nat
      /\ spent <= attempt * RequestTimeout + waited + longestSleeps[attempt]
  BY FetchAssumption DEF FetchInv, Budget
<1>4. started * RequestTimeout = attempt * RequestTimeout + RequestTimeout
  BY <1>1, <1>3
<1>5. attempt * RequestTimeout \in Nat /\ longestSleeps[attempt] \in Nat
  BY <1>1, <1>3, Sleeping
<1> QED
  BY <1>1, <1>2, <1>3, <1>4, <1>5

LEMMA BudgetAttempt ==
  ASSUME FetchInv, Attempt
  PROVE  Budget'
<1>1. /\ pc = "loop" /\ pc' = "calling" /\ waited' = 0
      /\ UNCHANGED <<attempt, spent>>
  BY DEF Attempt, StartAttempt, C!Send
<1>2. attempt \in Nat /\ started = attempt /\ spent \in Nat
  BY <1>1, TotalAttempts, RetryAssumption DEF FetchInv, LoopInv, Budget
<1>3. PICK n \in Nat : /\ n <= attempt
                       /\ spent <= started * RequestTimeout + longestSleeps[n]
  BY <1>1 DEF FetchInv, Budget
<1>4. longestSleeps[n] <= longestSleeps[attempt]
  BY <1>2, <1>3, SleepsGrow
<1>5. /\ longestSleeps[n] \in Nat /\ longestSleeps[attempt] \in Nat
      /\ attempt * RequestTimeout \in Nat
  BY <1>2, <1>3, Sleeping, FetchAssumption
<1>6. spent <= attempt * RequestTimeout + 0 + longestSleeps[attempt]
  BY <1>2, <1>3, <1>4, <1>5
<1> QED
  BY <1>1, <1>2, <1>6, FetchAssumption DEF Budget, WithinBudget, FetchInv

LEMMA BudgetWait ==
  ASSUME FetchInv, Wait
  PROVE  Budget'
<1>1. /\ pc = "calling" /\ waited < RequestTimeout
      /\ waited' = waited + 1 /\ spent' = spent + 1
      /\ UNCHANGED <<pc, attempt, started>>
  BY DEF Wait, C!Wait, vars
<1>2. /\ waited \in Nat /\ spent \in Nat /\ RequestTimeout \in Nat
      /\ spent <= attempt * RequestTimeout + waited + longestSleeps[attempt]
  BY <1>1, FetchAssumption DEF FetchInv, Budget
<1>3. attempt \in Nat /\ attempt <= MaxAttempts /\ started = attempt + 1
  BY <1>1, AttemptFits
<1>4. attempt * RequestTimeout \in Nat /\ longestSleeps[attempt] \in Nat
  BY <1>2, <1>3, Sleeping
<1>5. spent' <= attempt * RequestTimeout + waited' + longestSleeps[attempt]
  BY <1>1, <1>2, <1>4
<1>6. started * RequestTimeout = attempt * RequestTimeout + RequestTimeout
  BY <1>2, <1>3
<1>7. spent' <= started * RequestTimeout + longestSleeps[attempt]
  BY <1>1, <1>2, <1>4, <1>5, <1>6
<1>8. started \in Nat /\ started <= MaxAttempts + 1
  BY <1>3, RetryAssumption
<1>9. spent' \in Nat
  BY <1>1, <1>2
<1>10. WithinBudget'
  BY <1>3, <1>7, <1>8, <1>9, Fits DEF WithinBudget
<1> QED
  BY <1>1, <1>2, <1>5, <1>9, <1>10 DEF Budget

LEMMA BudgetFailed ==
  ASSUME FetchInv, Failed
  PROVE  Budget'
<1>1. pc = "calling" /\ UNCHANGED <<started, spent, waited>>
  BY DEF Failed, AttemptFails, client
<1>2. /\ attempt \in Nat /\ attempt <= MaxAttempts
      /\ spent <= started * RequestTimeout + longestSleeps[attempt]
  BY <1>1, AttemptFits
<1>3. CASE /\ delay' \in BackoffDelays(attempt)
           /\ pc' = "sleeping" /\ UNCHANGED attempt
  BY <1>1, <1>2, <1>3, DelaysWithinSchedule DEF FetchInv, Budget, WithinBudget
<1>4. CASE attempt' = attempt + 1 /\ pc' = "loop"
  BY <1>1, <1>2, <1>4 DEF FetchInv, Budget, WithinBudget
<1> QED
  BY <1>3, <1>4 DEF Failed, AttemptFails

LEMMA BudgetSlept ==
  ASSUME FetchInv, Slept
  PROVE  Budget'
<1>1. /\ pc = "sleeping" /\ pc' = "loop" /\ attempt' = attempt + 1
      /\ spent' = spent + delay /\ UNCHANGED <<started, waited>>
  BY DEF Slept, Wake, client
<1>2. /\ attempt \in Nat /\ started = attempt + 1
      /\ attempt + 1 < total_attempts /\ total_attempts \in Nat
  BY <1>1, TotalAttempts, RetryAssumption DEF FetchInv, LoopInv
<1>3. attempt + 1 <= MaxAttempts /\ started <= MaxAttempts + 1 /\ started \in Nat
  BY <1>2, TotalAttempts, RetryAssumption
<1>4. /\ spent \in Nat /\ delay \in Nat /\ delay <= LongestDelay(attempt)
      /\ spent <= started * RequestTimeout + longestSleeps[attempt]
  BY <1>1, RetryAssumption DEF FetchInv, Budget, DelayTypeOK
<1>5. /\ longestSleeps[attempt + 1] = longestSleeps[attempt] + LongestDelay(attempt)
      /\ longestSleeps[attempt] \in Nat /\ LongestDelay(attempt) \in Nat
      /\ started * RequestTimeout \in Nat
  BY <1>2, <1>3, Sleeping, LongestDelayTyped, FetchAssumption
<1>6. spent' <= started * RequestTimeout + longestSleeps[attempt + 1]
  BY <1>1, <1>4, <1>5
<1>7. attempt + 1 \in Nat /\ spent' \in Nat
  BY <1>1, <1>2, <1>4
<1>8. WithinBudget'
  BY <1>3, <1>6, <1>7, Fits DEF WithinBudget
<1> QED
  BY <1>1, <1>2, <1>3, <1>6, <1>7, <1>8 DEF FetchInv, Budget

LEMMA BudgetStep ==
  ASSUME FetchInv, [FetchNext]_fetchVars
  PROVE  Budget'
<1>1. CASE Hear \/ TimesOut
  BY <1>1 DEF Hear, TimesOut, C!Hear, C!SendFails, C!HeadArrives, C!BodyArrives,
     C!TimesOut, C!Becomes, vars, FetchInv, Budget, WithinBudget
<1>2. CASE Answered \/ GivesUp
  <2>1. /\ pc' \in {"ok", "failed", "panicked"} /\ spent' = spent
        /\ waited' = waited
    BY <1>2 DEF Answered, GivesUp, AttemptSucceeds, LeaveLoop, client
  <2> QED
    BY <2>1 DEF FetchInv, Budget, WithinBudget
<1>3. CASE UNCHANGED fetchVars
  BY <1>3 DEF fetchVars, vars, client, FetchInv, Budget, WithinBudget
<1> QED
  BY <1>1, <1>2, <1>3, BudgetAttempt, BudgetWait, BudgetFailed, BudgetSlept
     DEF FetchNext, FetchDone, Done, fetchVars

LEMMA FetchInvInit == FetchInit => FetchInv
<1> SUFFICES ASSUME FetchInit PROVE FetchInv
  OBVIOUS
<1>1. /\ pc = "loop" /\ attempt = 0 /\ started = 0 /\ spent = 0 /\ waited = 0
      /\ delay = 0 /\ longest = 0
  BY DEF FetchInit, Init, C!Init
<1>2. MaxAttempts \in Nat /\ RequestTimeout \in Nat
  BY RetryAssumption, FetchAssumption
<1>3. 0 <= 0 * RequestTimeout + longestSleeps[0]
  BY <1>2, Sleeping
<1>4. WithinBudget
  BY <1>1, <1>2, <1>3, Fits DEF WithinBudget
<1>5. Budget
  BY <1>1, <1>2, <1>3, <1>4 DEF Budget
<1>6. DelayTypeOK
  BY <1>1, RetryAssumption DEF DelayTypeOK
<1> QED
  BY <1>5, <1>6, LoopInit DEF FetchInv, FetchInit

\* A fetch is over within its requests at their timeout and its sleeps at
\* their longest, whatever the server does.
THEOREM InTime == FetchSpec => []WithinBudget
<1>1. FetchInv /\ [FetchNext]_fetchVars => FetchInv'
  BY FetchSteps, LoopStep, DelayTypeStep, BudgetStep DEF FetchInv
<1>2. FetchInv => WithinBudget
  BY DEF FetchInv, Budget
<1> QED
  BY <1>1, <1>2, FetchInvInit, PTL DEF FetchSpec
=============================================================================
