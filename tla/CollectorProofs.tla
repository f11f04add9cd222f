-------------------------- MODULE CollectorProofs --------------------------
(***************************************************************************)
(* Proofs about Collector, for any endpoints, libraries and error kinds,   *)
(* any number of retries, threshold and timeout.                           *)
(*                                                                         *)
(* The argument has two layers.  The collector keeps an invariant of its   *)
(* own that does not mention the state of the breaker; from it follows     *)
(* that every step of the collector is a step of CircuitBreaker or leaves  *)
(* it alone.  The theorems of CircuitBreakerProofs then hold for the       *)
(* collector's breaker, and what the collector promises about its breaker  *)
(* follows from both.                                                      *)
(***************************************************************************)
EXTENDS Collector, FiniteSetTheorems, TLAPS

\* The theorems about the breaker, for the breaker of the collector.
CBT == INSTANCE CircuitBreakerProofs
           WITH Callers <- Fetches, running <- InFlight

\* No call is in flight outside the fan-out.
NobodyCalls ==
    loop \notin {"fetching", "stopped"} =>
        \A f \in Fetches : fetch[f] # "calling"

\* What a cycle says of itself before it has published.
NothingPublished ==
    loop \in {"starting", "probing", "fetching"} =>
        errors = NoErrors /\ timestamp # "latest"

\* A library is asked for its count only after the list has been answered.
ListFirst ==
    \A lib \in Libraries :
        fetch[lib] # "idle" => fetch["libraries"] = "ok"

IInv ==
    /\ LoopTypeOK
    /\ NobodyCalls
    /\ NothingPublished
    /\ ListFirst
    /\ TimestampTracksErrors
    /\ LibrariesComeFromAList

-----------------------------------------------------------------------------
(***************************************************************************)
(* Facts about the constants and about counting.                           *)
(***************************************************************************)

LEMMA ConstantFacts ==
  /\ "libraries" \in Endpoints /\ "libraries" \in Fetches
  /\ "libraries" \notin Libraries
  /\ Endpoints \subseteq Fetches /\ Libraries \subseteq Fetches
  /\ \A kind \in ErrorKinds :
        kind \notin {"circuit_open", "unreachable", "idle", "ready", "calling", "ok"}
  /\ MaxRetries \in Nat /\ IsFiniteSet(Endpoints)
  BY CollectorAssumption DEF Fetches

\* The number of endpoints of which something is true.
LEMMA CountEndpoints ==
  ASSUME NEW S, S \subseteq Endpoints
  PROVE  /\ Cardinality(S) \in 0 .. Cardinality(Endpoints)
         /\ Cardinality(S) = 0 <=> S = {}
<1>1. IsFiniteSet(Endpoints)
  BY ConstantFacts
<1>2. IsFiniteSet(S) /\ Cardinality(S) <= Cardinality(Endpoints)
  BY <1>1, FS_Subset
<1>3. Cardinality(S) \in Nat /\ Cardinality(Endpoints) \in Nat
  BY <1>1, <1>2, FS_CardinalityType
<1>4. Cardinality(S) = 0 <=> S = {}
  BY <1>2, FS_EmptySet
<1> QED
  BY <1>2, <1>3, <1>4

\* The largest error count is at least one: "libraries" is an endpoint.
LEMMA OneEndpoint == {0, 1} \subseteq 0 .. Cardinality(Endpoints)
<1>1. Cardinality(Endpoints) \in Nat
  BY ConstantFacts, FS_CardinalityType
<1>2. Cardinality(Endpoints) # 0
  BY ConstantFacts, FS_EmptySet
<1> QED
  BY <1>1, <1>2, SMT

LEMMA NoErrorsType ==
  /\ NoErrors \in [Kinds -> 0 .. Cardinality(Endpoints)]
  /\ \A k \in Kinds : NoErrors[k] = 0
  BY OneEndpoint DEF NoErrors

-----------------------------------------------------------------------------
(***************************************************************************)
(* The collector's own invariant.                                          *)
(***************************************************************************)

LEMMA InitIInv == Init => IInv
<1> SUFFICES ASSUME Init
             PROVE  IInv
  OBVIOUS
<1>1. LoopTypeOK
  <2>1. \A f \in Fetches : 0 \in 0 .. MaxRetries + 1
    BY ConstantFacts, SMT
  <2> QED
    BY <2>1, NoErrorsType DEF Init, LoopTypeOK
<1>2. NobodyCalls /\ NothingPublished /\ ListFirst
  BY ConstantFacts DEF Init, NobodyCalls, NothingPublished, ListFirst, Fetches
<1>3. TimestampTracksErrors /\ LibrariesComeFromAList
  BY ConstantFacts DEF Init, TimestampTracksErrors, LibrariesComeFromAList, Fetches
<1> QED
  BY <1>1, <1>2, <1>3 DEF IInv

LEMMA BeginIInv ==
  ASSUME IInv, BeginCollect
  PROVE  IInv'
<1> USE DEF IInv, BeginCollect
<1>1. LoopTypeOK'
  <2>1. \A f \in Fetches : 0 \in 0 .. MaxRetries + 1
    BY ConstantFacts, SMT
  <2> QED
    BY <2>1, NoErrorsType DEF LoopTypeOK
<1>2. (NobodyCalls /\ NothingPublished)'
  BY DEF NobodyCalls, NothingPublished, LoopTypeOK
<1>3. ListFirst'
  BY ConstantFacts DEF ListFirst
<1>4. (TimestampTracksErrors /\ LibrariesComeFromAList)'
  BY DEF TimestampTracksErrors, LibrariesComeFromAList
<1> QED
  BY <1>1, <1>2, <1>3, <1>4

LEMMA LoopEndsIInv ==
  ASSUME IInv, Stop \/ Abort
  PROVE  IInv'
<1> USE DEF IInv, Stop, Abort, published
<1>1. LoopTypeOK'
  BY DEF LoopTypeOK
<1>2. (NobodyCalls /\ NothingPublished /\ ListFirst)'
  BY DEF NobodyCalls, NothingPublished, ListFirst
<1>3. (TimestampTracksErrors /\ LibrariesComeFromAList)'
  BY DEF TimestampTracksErrors, LibrariesComeFromAList
<1> QED
  BY <1>1, <1>2, <1>3

\* Steps that touch neither the loop, the fetches nor anything published.
LEMMA QuietStepIInv ==
  ASSUME IInv,
         UNCHANGED <<loop, fetch, tries, published>>,
         cancelled' \in BOOLEAN, server' \in ServerConditions
  PROVE  IInv'
<1> USE DEF IInv, published
<1>1. LoopTypeOK'
  BY DEF LoopTypeOK
<1>2. (NobodyCalls /\ NothingPublished /\ ListFirst)'
  BY DEF NobodyCalls, NothingPublished, ListFirst
<1>3. (TimestampTracksErrors /\ LibrariesComeFromAList)'
  BY DEF TimestampTracksErrors, LibrariesComeFromAList
<1> QED
  BY <1>1, <1>2, <1>3

LEMMA ProbeFailsIInv ==
  ASSUME IInv, ProbeFails
  PROVE  IInv'
<1> USE DEF IInv, ProbeFails
<1>1. errors' = [k \in Kinds |-> IF k = "unreachable" THEN 1 ELSE 0]
  <2>1. errors = [k \in Kinds |-> 0] /\ "unreachable" \in Kinds
    BY DEF NothingPublished, NoErrors, Kinds
  <2> QED
    BY <2>1, SMT
<1>2. LoopTypeOK'
  BY <1>1, OneEndpoint DEF LoopTypeOK
<1>3. (NobodyCalls /\ NothingPublished /\ ListFirst)'
  BY DEF NobodyCalls, NothingPublished, ListFirst
<1>4. TimestampTracksErrors'
  BY <1>1 DEF TimestampTracksErrors, NothingPublished, Kinds
<1>5. LibrariesComeFromAList'
  BY DEF LibrariesComeFromAList
<1> QED
  BY <1>2, <1>3, <1>4, <1>5

LEMMA ProbeSucceedsIInv ==
  ASSUME IInv, ProbeSucceeds
  PROVE  IInv'
<1> USE DEF IInv, ProbeSucceeds
<1>1. LoopTypeOK'
  BY DEF LoopTypeOK
<1>2. (NobodyCalls /\ NothingPublished)'
  BY DEF NobodyCalls, NothingPublished
<1>3. ListFirst'
  BY CollectorAssumption, ConstantFacts DEF ListFirst
<1>4. (TimestampTracksErrors /\ LibrariesComeFromAList)'
  BY DEF TimestampTracksErrors, LibrariesComeFromAList
<1> QED
  BY <1>1, <1>2, <1>3, <1>4

\* A fetch moves from one state to another while nothing is published.
LEMMA FetchIInv ==
  ASSUME IInv, NEW f \in Fetches, FetchStep(f)
  PROVE  IInv'
<1> USE ConstantFacts DEF IInv
<1>1. loop = "fetching" /\ loop' = loop /\ UNCHANGED <<cancelled, server, published>>
  BY DEF FetchStep, Enter, FastFail, Retry, Exhaust, Answer, published
<1>2. fetch' \in [Fetches -> Outcomes \cup {"idle", "ready", "calling"}]
  <2>1. CASE Answer(f)
    BY <2>1 DEF Answer, LoopTypeOK, Outcomes
  <2>2. CASE Enter(f) \/ FastFail(f) \/ Retry(f) \/ Exhaust(f)
    BY <2>2 DEF Enter, FastFail, Retry, Exhaust, LoopTypeOK, Outcomes
  <2> QED
    BY <2>1, <2>2 DEF FetchStep
<1>3. tries' \in [Fetches -> 0 .. MaxRetries + 1]
  BY SMT DEF FetchStep, Enter, FastFail, Retry, Exhaust, Answer, LoopTypeOK
<1>4. LoopTypeOK'
  BY <1>1, <1>2, <1>3 DEF LoopTypeOK, published
<1>5. ListFirst'
  <2>1. CASE Answer(f)
    BY <2>1 DEF Answer, LoopTypeOK, ListFirst
  <2>2. CASE Enter(f) \/ FastFail(f) \/ Retry(f) \/ Exhaust(f)
    BY <2>2 DEF Enter, FastFail, Retry, Exhaust, LoopTypeOK, ListFirst
  <2> QED
    BY <2>1, <2>2 DEF FetchStep
<1>6. (NobodyCalls /\ NothingPublished)'
  BY <1>1 DEF NobodyCalls, NothingPublished, published
<1>7. (TimestampTracksErrors /\ LibrariesComeFromAList)'
  BY <1>1 DEF TimestampTracksErrors, LibrariesComeFromAList, published
<1> QED
  BY <1>4, <1>5, <1>6, <1>7

\* When everything has been joined, nobody is calling any more.
LEMMA JoinedMeansQuiet ==
  ASSUME LoopTypeOK, Joined
  PROVE  \A f \in Fetches : fetch[f] # "calling"
<1> SUFFICES ASSUME NEW f \in Fetches, fetch[f] = "calling"
             PROVE  FALSE
  OBVIOUS
<1>1. f \in Endpoints \cup Listed
  BY DEF Fetches, Listed
<1> QED
  BY <1>1, ConstantFacts DEF Joined, Done, Outcomes

LEMMA PublishIInv ==
  ASSUME IInv, Publish
  PROVE  IInv'
<1> USE ConstantFacts DEF IInv, Publish
<1> DEFINE Of(k) == {e \in Endpoints : fetch[e] = k}
<1>1. \A k \in Kinds : /\ errors'[k] \in 0 .. Cardinality(Endpoints)
                       /\ errors'[k] = 0 <=> Of(k) = {}
  <2> SUFFICES ASSUME NEW k \in Kinds
               PROVE  /\ Cardinality(Of(k)) \in 0 .. Cardinality(Endpoints)
                      /\ Cardinality(Of(k)) = 0 <=> Of(k) = {}
    BY DEF RecordErrors
  <2> QED
    BY CountEndpoints
<1>2. errors' \in [Kinds -> 0 .. Cardinality(Endpoints)]
  BY <1>1 DEF RecordErrors
<1>3. LoopTypeOK'
  BY <1>2 DEF LoopTypeOK, Shown
<1>4. (NobodyCalls /\ NothingPublished /\ ListFirst)'
  BY JoinedMeansQuiet DEF NobodyCalls, NothingPublished, ListFirst
<1>5. AnyErr <=> \E k \in Kinds : Of(k) # {}
  <2>1. \A e \in Endpoints : fetch[e] # "unreachable"
    BY DEF LoopTypeOK, Outcomes
  <2> QED
    BY <2>1 DEF AnyErr, Failed, Kinds
<1>6. TimestampTracksErrors'
  BY <1>1, <1>5 DEF TimestampTracksErrors, NothingPublished
<1>7. LibrariesComeFromAList'
  BY DEF LibrariesComeFromAList, ListFirst, Shown, Listed
<1> QED
  BY <1>3, <1>4, <1>6, <1>7

LEMMA NextIInv == IInv /\ [Next]_vars => IInv'
<1> SUFFICES ASSUME IInv, [Next]_vars
             PROVE  IInv'
  OBVIOUS
<1>0. cancelled \in BOOLEAN /\ server \in ServerConditions
  BY DEF IInv, LoopTypeOK
<1>1. CASE UNCHANGED vars
  BY <1>0, <1>1, QuietStepIInv DEF vars
<1>2. CASE BeginCollect
  BY <1>2, BeginIInv
<1>3. CASE Stop \/ Abort
  BY <1>3, LoopEndsIInv
<1>4. CASE Cancel \/ Elapse \/ ServerChanges
  BY <1>0, <1>4, QuietStepIInv DEF Cancel, Elapse, ServerChanges
<1>5. CASE ProbeFails
  BY <1>5, ProbeFailsIInv
<1>6. CASE ProbeSucceeds
  BY <1>6, ProbeSucceedsIInv
<1>7. ASSUME NEW f \in Fetches, FetchStep(f)
      PROVE  IInv'
  BY <1>7, FetchIInv
<1>8. CASE Publish
  BY <1>8, PublishIInv
<1>9. CASE Ended
  BY <1>1, <1>9 DEF Ended
<1> QED
  BY <1>1, <1>2, <1>3, <1>4, <1>5, <1>6, <1>7, <1>8, <1>9 DEF Next

\* The collector's own invariant holds in every reachable state.
THEOREM Invariance == Spec => []IInv
  BY InitIInv, NextIInv, PTL DEF Spec

-----------------------------------------------------------------------------
(***************************************************************************)
(* The collector as a user of the breaker.                                 *)
(***************************************************************************)

\* A step that neither changes who is in flight nor touches the breaker.
LEMMA BreakerUntouched ==
  ASSUME InFlight' = InFlight, UNCHANGED breaker
  PROVE  UNCHANGED CB!vars
  BY DEF CB!vars, breaker

\* Every step of the collector is a step of the breaker, or leaves it alone:
\* in particular no step but the record of an outcome takes a call out of
\* flight.
LEMMA StepUsesBreaker ==
  ASSUME LoopTypeOK, NobodyCalls, [Next]_vars
  PROVE  [CB!Next]_(CB!vars)
<1>1. CASE UNCHANGED <<fetch, breaker>>
  <2>1. InFlight' = InFlight
    BY <1>1 DEF InFlight
  <2> QED
    BY <1>1, <2>1, BreakerUntouched
<1>2. CASE BeginCollect \/ ProbeSucceeds
  <2>1. InFlight = {}
    BY <1>2 DEF BeginCollect, ProbeSucceeds, NobodyCalls, InFlight
  <2>2. InFlight' = {}
    BY <1>2 DEF BeginCollect, ProbeSucceeds, InFlight
  <2> QED
    BY <1>2, <2>1, <2>2, BreakerUntouched DEF BeginCollect, ProbeSucceeds
<1>3. ASSUME NEW f \in Fetches, FetchStep(f)
      PROVE  [CB!Next]_(CB!vars)
  <2>1. CASE Retry(f)
    BY <1>1, <2>1 DEF Retry
  <2>2. CB!Enter(f) \/ CB!Reject(f) \/ CB!Succeed(f) \/ CB!Fail(f) => CB!Next
    BY DEF CB!Next
  <2> QED
    BY <1>3, <2>1, <2>2 DEF FetchStep, Enter, FastFail, Exhaust, Answer
<1>4. CASE Elapse
  BY <1>4 DEF Elapse, CB!Next
<1> QED
  BY <1>1, <1>2, <1>3, <1>4
     DEF Next, vars, Stop, Cancel, Abort, ProbeFails, Publish, ServerChanges, Ended

\* The fan-out, the retry loop, the joins and the loop between cycles keep to
\* the protocol of the breaker: one record for every admission.
THEOREM KeepsProtocol == Spec => UsesBreaker
<1>1. Init => CB!Init
  BY DEF Init
<1>2. IInv /\ [Next]_vars => [CB!Next]_(CB!vars)
  BY StepUsesBreaker DEF IInv
<1> QED
  BY <1>1, <1>2, Invariance, PTL DEF Spec, UsesBreaker, CB!Spec

\* The assumption of the breaker's theorems, for the collector's constants.
LEMMA ThresholdAndTimeout == CBT!BreakerAssumption
  BY CollectorAssumption DEF CBT!BreakerAssumption

\* The breaker of the theorems is the breaker of the collector.
LEMMA SameBreaker == UsesBreaker => CBT!Spec
  BY DEF UsesBreaker, CB!Spec, CBT!Spec, CB!Init, CBT!Init, CB!Next, CBT!Next,
         CB!vars, CBT!vars, CB!Enter, CBT!Enter, CB!Reject, CBT!Reject,
         CB!Succeed, CBT!Succeed, CB!Fail, CBT!Fail, CB!Elapse, CBT!Elapse,
         CB!Admit, CBT!Admit, CB!Refuses, CBT!Refuses, CB!circuit, CBT!circuit,
         CB!RecordSuccess, CBT!RecordSuccess, CB!RecordFailure,
         CBT!RecordFailure, CB!TripOpen, CBT!TripOpen, CB!Leave, CBT!Leave

\* Type correctness of the collector and of its breaker.
THEOREM TypeCorrect == Spec => []TypeOK
<1>1. IInv /\ CBT!TypeOK => TypeOK
  BY DEF IInv, TypeOK, CBT!TypeOK, CB!TypeOK, CBT!CircuitStatus, CB!CircuitStatus
<1> QED
  BY <1>1, Invariance, KeepsProtocol, SameBreaker, ThresholdAndTimeout,
     CBT!TypeCorrect, PTL

\* Between cycles no call is in flight and no verdict is pending.
THEOREM Quiet == Spec => []QuietBetweenCycles
<1>1. IInv /\ CBT!HalfOpenHasProbe => QuietBetweenCycles
  BY DEF IInv, NobodyCalls, QuietBetweenCycles, CBT!HalfOpenHasProbe, InFlight
<1> QED
  BY <1>1, Invariance, KeepsProtocol, SameBreaker, ThresholdAndTimeout,
     CBT!ProbeExists, PTL

LEMMA NextReadiness ==
  ASSUME IInv, [Next]_vars, loop # "fetching"
  PROVE  status' = status
<1>1. CASE UNCHANGED vars
  BY <1>1 DEF vars, breaker
<1>2. CASE BeginCollect \/ Stop \/ Cancel \/ Abort \/ ServerChanges \/ Ended
  BY <1>1, <1>2 DEF BeginCollect, Stop, Cancel, Abort, ServerChanges, Ended, breaker
<1>3. CASE ProbeFails \/ ProbeSucceeds \/ Publish
  BY <1>3 DEF ProbeFails, ProbeSucceeds, Publish, breaker
<1>4. ASSUME NEW f \in Fetches, FetchStep(f)
      PROVE  FALSE
  BY <1>4 DEF FetchStep, Enter, FastFail, Retry, Exhaust, Answer
<1>5. CASE Elapse
  BY <1>5 DEF Elapse, CB!Elapse
<1> QED
  BY <1>1, <1>2, <1>3, <1>4, <1>5 DEF Next

\* Readiness changes in the fan-out of a cycle only.
THEOREM ReadinessInCycles == Spec => ReadinessMovesInCycles
<1>1. IInv /\ [Next]_vars => [loop # "fetching" => status' = status]_vars
  BY NextReadiness
<1> QED
  BY <1>1, Invariance, PTL DEF Spec, ReadinessMovesInCycles

\* The timestamp moves exactly when no error is counted.
THEOREM AccountsAgree == Spec => []TimestampTracksErrors
<1>1. IInv => TimestampTracksErrors
  BY DEF IInv
<1> QED
  BY <1>1, Invariance, PTL

\* A library is shown only with the list it came from.
THEOREM LibrariesWithTheirList == Spec => []LibrariesComeFromAList
<1>1. IInv => LibrariesComeFromAList
  BY DEF IInv
<1> QED
  BY <1>1, Invariance, PTL

-----------------------------------------------------------------------------
(***************************************************************************)
(* What a cycle without a failure says of the breaker.                     *)
(***************************************************************************)

\* As long as a cycle has seen a success and no failure, the breaker is
\* closed with a clean record.
CleanSoFar ==
    (\E f \in Fetches : fetch[f] = "ok") /\ (\A f \in Fetches : ~Failed(f))
        => status = "Closed" /\ consecutive_failures = 0

\* A cycle that looks flawless from outside is one.
FlawlessIsFlawless ==
    /\ loop = "waiting" /\ timestamp = "latest"
    /\ \A lib \in Libraries : served[lib] # "zero"
    => fetch["libraries"] = "ok" /\ \A f \in Fetches : ~Failed(f)

LEMMA InitClean == Init => CleanSoFar
  BY DEF Init, CleanSoFar

LEMMA NextClean ==
  ASSUME IInv, CleanSoFar, [Next]_vars
  PROVE  CleanSoFar'
<1> USE ConstantFacts DEF CleanSoFar, Failed
<1>1. CASE UNCHANGED <<fetch, breaker>>
  BY <1>1 DEF breaker
<1>2. CASE BeginCollect \/ ProbeSucceeds
  BY <1>2 DEF BeginCollect, ProbeSucceeds
<1>3. ASSUME NEW f \in Fetches, FetchStep(f)
      PROVE  CleanSoFar'
  <2>0. fetch \in [Fetches -> Outcomes \cup {"idle", "ready", "calling"}]
    BY DEF IInv, LoopTypeOK
  <2>1. CASE Enter(f)
    BY <2>0, <2>1 DEF Enter, CB!Enter, CB!Admit, CB!circuit
  <2>2. CASE FastFail(f) \/ Exhaust(f)
    <3>1. Failed(f)'
      BY <2>0, <2>2 DEF FastFail, Exhaust
    <3> QED
      BY <3>1
  <2>3. CASE Retry(f)
    BY <1>1, <2>3 DEF Retry
  <2>4. CASE Answer(f)
    BY <2>4 DEF Answer, CB!Succeed, CB!RecordSuccess
  <2> QED
    BY <1>3, <2>1, <2>2, <2>3, <2>4 DEF FetchStep
<1>4. CASE Elapse
  BY <1>4 DEF Elapse, CB!Elapse, published
<1> QED
  BY <1>1, <1>2, <1>3, <1>4
     DEF Next, vars, Stop, Cancel, Abort, ProbeFails, Publish, ServerChanges, Ended

LEMMA NextFlawless ==
  ASSUME IInv, FlawlessIsFlawless, [Next]_vars
  PROVE  FlawlessIsFlawless'
<1> USE ConstantFacts DEF FlawlessIsFlawless, Failed
<1>1. CASE UNCHANGED <<loop, timestamp, served, fetch>>
  BY <1>1
<1>2. CASE loop' # "waiting"
  BY <1>2
<1>3. CASE ProbeFails
  BY <1>3 DEF ProbeFails, IInv, NothingPublished
<1>4. CASE Publish
  <2> SUFFICES ASSUME timestamp' = "latest",
                      \A lib \in Libraries : served'[lib] # "zero"
               PROVE  /\ fetch["libraries"] = "ok"
                      /\ \A f \in Fetches : fetch[f] \notin ErrorKinds \cup {"circuit_open"}
    BY <1>4 DEF Publish
  <2>1. ~AnyErr
    BY <1>4 DEF Publish, IInv, NothingPublished
  <2>2. \A e \in Endpoints : fetch[e] = "ok"
    BY <1>4, <2>1 DEF Publish, AnyErr, Joined, Done, Outcomes
  <2>3. \A lib \in Libraries : fetch[lib] \in {"idle", "ok"}
    BY <1>4 DEF Publish, Shown, Listed, Fetches
  <2> QED
    BY <2>2, <2>3 DEF Fetches
<1> QED
  BY <1>1, <1>2, <1>3, <1>4
     DEF Next, vars, published, BeginCollect, Stop, Cancel, Abort, ProbeSucceeds,
         FetchStep, Enter, FastFail, Retry, Exhaust, Answer, Elapse,
         ServerChanges, Ended

\* A cycle that looks flawless leaves the breaker closed with a clean record.
THEOREM FlawlessCloses == Spec => []FlawlessCycleCloses
<1>1. Init => CleanSoFar /\ FlawlessIsFlawless
  BY InitClean DEF Init, FlawlessIsFlawless
<1>2. IInv /\ CleanSoFar /\ FlawlessIsFlawless /\ [Next]_vars
        => (CleanSoFar /\ FlawlessIsFlawless)'
  BY NextClean, NextFlawless
<1>3. CleanSoFar /\ FlawlessIsFlawless => FlawlessCycleCloses
  BY ConstantFacts DEF CleanSoFar, FlawlessIsFlawless, FlawlessCycleCloses
<1> QED
  BY <1>1, <1>2, <1>3, Invariance, PTL DEF Spec

=============================================================================
