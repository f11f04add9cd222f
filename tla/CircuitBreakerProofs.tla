------------------------ MODULE CircuitBreakerProofs ------------------------
(***************************************************************************)
(* Proofs about CircuitBreaker, for any set of callers, any threshold and  *)
(* any reset timeout.                                                      *)
(*                                                                         *)
(* None of the safety properties needs the others, but all of them need    *)
(* TypeOK, and OpenAdmitsNobody and HalfOpenHasProbe constrain the same    *)
(* history variable.  IInv is their conjunction; it is inductive.          *)
(***************************************************************************)
EXTENDS CircuitBreaker, TLAPS

IInv ==
    /\ TypeOK
    /\ OpenAdmitsNobody
    /\ HalfOpenHasProbe
    /\ TripsExactlyOnStreak

\* The initial state satisfies the invariant.
LEMMA InitIInv == Init => IInv
  BY BreakerAssumption, SMT
     DEF Init, IInv, TypeOK, OpenAdmitsNobody, HalfOpenHasProbe,
         TripsExactlyOnStreak, CircuitStatus

\* A caller that enters is not a veteran; the one that turns the circuit
\* half-open is the probe.
LEMMA EnterIInv ==
  ASSUME IInv, NEW c \in Callers, Enter(c)
  PROVE  IInv'
<1> USE BreakerAssumption DEF IInv, Enter, Admit, circuit
<1>1. TypeOK'
  BY SMT DEF TypeOK, CircuitStatus
<1>2. OpenAdmitsNobody'
  BY SMT DEF TypeOK, OpenAdmitsNobody
<1>3. HalfOpenHasProbe'
  BY SMT DEF TypeOK, HalfOpenHasProbe
<1>4. TripsExactlyOnStreak'
  BY SMT DEF TypeOK, TripsExactlyOnStreak
<1> QED
  BY <1>1, <1>2, <1>3, <1>4

\* A success closes the circuit and clears the streak.
LEMMA SucceedIInv ==
  ASSUME IInv, NEW c \in Callers, Succeed(c)
  PROVE  IInv'
<1> USE BreakerAssumption DEF IInv, Succeed, RecordSuccess, Leave
<1>1. TypeOK'
  BY SMT DEF TypeOK, CircuitStatus
<1>2. OpenAdmitsNobody' /\ HalfOpenHasProbe'
  BY SMT DEF OpenAdmitsNobody, HalfOpenHasProbe
<1>3. TripsExactlyOnStreak'
  BY SMT DEF TripsExactlyOnStreak
<1> QED
  BY <1>1, <1>2, <1>3

\* A failure counts, trips the circuit, re-opens it or is ignored.  When it
\* opens the circuit, whoever remains in flight becomes a veteran.
LEMMA FailIInv ==
  ASSUME IInv, NEW c \in Callers, Fail(c)
  PROVE  IInv'
<1> USE BreakerAssumption DEF IInv, Fail, RecordFailure, TripOpen, Leave, circuit
<1>1. TypeOK'
  BY SMT DEF TypeOK, CircuitStatus, TripsExactlyOnStreak
<1>2. OpenAdmitsNobody'
  BY SMT DEF TypeOK, CircuitStatus, OpenAdmitsNobody
<1>3. HalfOpenHasProbe'
  BY SMT DEF TypeOK, CircuitStatus, HalfOpenHasProbe
<1>4. TripsExactlyOnStreak'
  BY SMT DEF TypeOK, CircuitStatus, TripsExactlyOnStreak
<1> QED
  BY <1>1, <1>2, <1>3, <1>4

LEMMA ElapseIInv ==
  ASSUME IInv, Elapse
  PROVE  IInv'
  BY BreakerAssumption, SMT
     DEF IInv, Elapse, TypeOK, CircuitStatus, OpenAdmitsNobody,
         HalfOpenHasProbe, TripsExactlyOnStreak

\* Every step preserves the invariant.
LEMMA NextIInv == IInv /\ [Next]_vars => IInv'
<1> SUFFICES ASSUME IInv, [Next]_vars
             PROVE  IInv'
  OBVIOUS
<1>1. CASE UNCHANGED vars
  BY <1>1 DEF vars, IInv, TypeOK, OpenAdmitsNobody, HalfOpenHasProbe,
              TripsExactlyOnStreak
<1>2. ASSUME NEW c \in Callers, Enter(c)
      PROVE  IInv'
  BY <1>2, EnterIInv
<1>3. ASSUME NEW c \in Callers, Reject(c)
      PROVE  IInv'
  BY <1>1, <1>3 DEF Reject
<1>4. ASSUME NEW c \in Callers, Succeed(c)
      PROVE  IInv'
  BY <1>4, SucceedIInv
<1>5. ASSUME NEW c \in Callers, Fail(c)
      PROVE  IInv'
  BY <1>5, FailIInv
<1>6. CASE Elapse
  BY <1>6, ElapseIInv
<1> QED
  BY <1>1, <1>2, <1>3, <1>4, <1>5, <1>6 DEF Next

\* The inductive invariant holds in every reachable state.
THEOREM Invariance == Spec => []IInv
  BY InitIInv, NextIInv, PTL DEF Spec

\* Type correctness: in particular the count of failures stays below the
\* threshold, so record_failure never overflows it.
THEOREM TypeCorrect == Spec => []TypeOK
<1>1. IInv => TypeOK
  BY DEF IInv
<1> QED
  BY <1>1, Invariance, PTL

\* Nobody is admitted while the circuit is open.
THEOREM OpenAdmits == Spec => []OpenAdmitsNobody
<1>1. IInv => OpenAdmitsNobody
  BY DEF IInv
<1> QED
  BY <1>1, Invariance, PTL

\* A half-open circuit always has a probe in flight.
THEOREM ProbeExists == Spec => []HalfOpenHasProbe
<1>1. IInv => HalfOpenHasProbe
  BY DEF IInv
<1> QED
  BY <1>1, Invariance, PTL

\* The circuit is closed exactly while the streak of failures is shorter than
\* the threshold.
THEOREM TripsOnStreak == Spec => []TripsExactlyOnStreak
<1>1. IInv => TripsExactlyOnStreak
  BY DEF IInv
<1> QED
  BY <1>1, Invariance, PTL

-----------------------------------------------------------------------------
(***************************************************************************)
(* Steps.                                                                  *)
(***************************************************************************)

\* While the circuit stays open, no step sets the time since it opened back.
LEMMA NextCoolDown ==
  ASSUME IInv, [Next]_vars, status = "Open", status' = "Open"
  PROVE  elapsed' >= elapsed
<1> elapsed \in Nat
  BY BreakerAssumption, SMT DEF IInv, TypeOK
<1>1. CASE UNCHANGED vars
  BY <1>1, SMT DEF vars
<1>2. ASSUME NEW c \in Callers, Enter(c)
      PROVE  elapsed' >= elapsed
  BY <1>2, SMT DEF Enter, Admit, circuit
<1>3. ASSUME NEW c \in Callers, Reject(c)
      PROVE  elapsed' >= elapsed
  BY <1>1, <1>3 DEF Reject
<1>4. ASSUME NEW c \in Callers, Succeed(c)
      PROVE  elapsed' >= elapsed
  BY <1>4 DEF Succeed, RecordSuccess
<1>5. ASSUME NEW c \in Callers, Fail(c)
      PROVE  elapsed' >= elapsed
  BY <1>5, SMT DEF Fail, RecordFailure, circuit
<1>6. CASE Elapse
  BY <1>6, SMT DEF Elapse
<1> QED
  BY <1>1, <1>2, <1>3, <1>4, <1>5, <1>6 DEF Next

\* Failures of calls from before never restart the reset timeout.
THEOREM CoolDown == Spec => CoolDownNeverRestarts
<1>1. IInv /\ [Next]_vars
        => [status = "Open" /\ status' = "Open" => elapsed' >= elapsed]_vars
  BY NextCoolDown
<1> QED
  BY <1>1, Invariance, PTL DEF Spec, CoolDownNeverRestarts

LEMMA NextEarlyClose ==
  ASSUME IInv, [Next]_vars, status = "Open", status' = "Closed"
  PROVE  \E c \in veterans : c \notin running'
<1>1. running = veterans
  BY DEF IInv, OpenAdmitsNobody
<1>2. CASE UNCHANGED vars
  BY <1>2 DEF vars
<1>3. ASSUME NEW c \in Callers, Enter(c)
      PROVE  status' # "Closed"
  BY <1>3 DEF Enter, Admit, circuit
<1>4. ASSUME NEW c \in Callers, Reject(c)
      PROVE  status' # "Closed"
  BY <1>4 DEF Reject, vars
<1>5. ASSUME NEW c \in Callers, Succeed(c)
      PROVE  c \in veterans /\ c \notin running'
  BY <1>1, <1>5 DEF Succeed, Leave
<1>6. ASSUME NEW c \in Callers, Fail(c)
      PROVE  status' # "Closed"
  BY <1>6 DEF Fail, RecordFailure, TripOpen, circuit
<1>7. CASE Elapse
  BY <1>7 DEF Elapse
<1> QED
  BY <1>2, <1>3, <1>4, <1>5, <1>6, <1>7 DEF Next

\* An open circuit is closed before its time only by the late success of a
\* call that was in flight when it opened.
THEOREM EarlyClose == Spec => EarlyCloseOnlyByVeteran
<1>1. IInv /\ [Next]_vars
        => [status = "Open" /\ status' = "Closed" =>
               \E c \in veterans : c \notin running']_vars
  BY NextEarlyClose
<1> QED
  BY <1>1, Invariance, PTL DEF Spec, EarlyCloseOnlyByVeteran

-----------------------------------------------------------------------------
(***************************************************************************)
(* Refinement.  When there is at most one caller, nobody else can be in    *)
(* flight while the circuit is open, so no late success can close it.      *)
(***************************************************************************)
AtMostOneCaller == \A a, b \in Callers : a = b

\* With at most one caller there are no veterans.
NoVeterans == veterans = {}

LEMMA NextNoVeterans ==
  ASSUME AtMostOneCaller, IInv, NoVeterans, [Next]_vars
  PROVE  NoVeterans'
<1>1. CASE UNCHANGED vars
  BY <1>1 DEF vars, NoVeterans
<1>2. ASSUME NEW c \in Callers, Enter(c)
      PROVE  NoVeterans'
  BY <1>2 DEF Enter, NoVeterans
<1>3. ASSUME NEW c \in Callers, Reject(c)
      PROVE  NoVeterans'
  BY <1>1, <1>3 DEF Reject
<1>4. ASSUME NEW c \in Callers, Succeed(c) \/ Fail(c)
      PROVE  NoVeterans'
  <2>1. running \ {c} = {}
    BY <1>4, SMT DEF AtMostOneCaller, IInv, TypeOK
  <2> QED
    BY <1>4, <2>1, SMT DEF Succeed, Fail, Leave, NoVeterans
<1>5. CASE Elapse
  BY <1>5 DEF Elapse, NoVeterans
<1> QED
  BY <1>1, <1>2, <1>3, <1>4, <1>5 DEF Next

\* Each step of the breaker is a step of the documented machine or leaves it
\* alone.
LEMMA StepSimulation ==
  ASSUME IInv, NoVeterans, [Next]_vars
  PROVE  [Machine!Next]_(Machine!vars)
<1> USE BreakerAssumption DEF IInv, TypeOK, CircuitStatus
<1>1. CASE UNCHANGED vars
  BY <1>1 DEF vars, Machine!vars
<1>2. ASSUME NEW c \in Callers, Enter(c)
      PROVE  [Machine!Next]_(Machine!vars)
  <2>1. CASE status \in {"Closed", "HalfOpen"}
    BY <1>2, <2>1, SMT DEF Enter, Admit, circuit, Machine!vars
  <2>2. CASE status = "Open"
    BY <1>2, <2>2, SMT DEF Enter, Admit, circuit, Machine!Next, Machine!Probe
  <2> QED
    BY <2>1, <2>2
<1>3. ASSUME NEW c \in Callers, Reject(c)
      PROVE  [Machine!Next]_(Machine!vars)
  BY <1>1, <1>3 DEF Reject
<1>4. ASSUME NEW c \in Callers, Succeed(c)
      PROVE  [Machine!Next]_(Machine!vars)
  BY <1>4, SMT DEF OpenAdmitsNobody, NoVeterans, Succeed, RecordSuccess,
                   Machine!Next, Machine!Close
<1>5. ASSUME NEW c \in Callers, Fail(c)
      PROVE  [Machine!Next]_(Machine!vars)
  <2>1. status # "Open"
    BY <1>5, SMT DEF OpenAdmitsNobody, NoVeterans, Fail
  <2>2. Machine!Open \/ Machine!Count
    BY <1>5, <2>1, SMT DEF Fail, RecordFailure, TripOpen,
                           Machine!Open, Machine!Count
  <2> QED
    BY <2>2 DEF Machine!Next
<1>6. CASE Elapse
  BY <1>6, SMT DEF Elapse, Machine!Next, Machine!Wait
<1> QED
  BY <1>1, <1>2, <1>3, <1>4, <1>5, <1>6 DEF Next

\* With at most one caller the breaker implements the documented machine.
THEOREM SequentialRefinement ==
  ASSUME AtMostOneCaller
  PROVE  Spec => ImplementsStateMachine
<1>1. Init => Machine!Init /\ NoVeterans
  BY DEF Init, NoVeterans, Machine!Init
<1>2. IInv /\ NoVeterans /\ [Next]_vars => NoVeterans'
  BY NextNoVeterans
<1>3. IInv /\ NoVeterans /\ [Next]_vars => [Machine!Next]_(Machine!vars)
  BY StepSimulation
<1> QED
  BY <1>1, <1>2, <1>3, Invariance, PTL
     DEF Spec, ImplementsStateMachine, Machine!Spec

=============================================================================
