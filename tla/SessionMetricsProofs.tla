------------------------ MODULE SessionMetricsProofs ------------------------
(***************************************************************************)
(* Proofs about SanitizeLabel and SessionMetrics, for any lists of         *)
(* sessions, any texts in them and any length of a label.                  *)
(***************************************************************************)
EXTENDS SessionMetrics, RecursionLemmas, SequenceTheorems

-----------------------------------------------------------------------------
(***************************************************************************)
(* Sums.  The library folds a set in an order of its own, so that first of *)
(* all the order must be shown not to matter.                              *)
(***************************************************************************)
LEMMA ImageIsFinite ==
  ASSUME NEW f, IsFiniteSet(DOMAIN f)
  PROVE  IsFiniteSet(Range(f)) /\ Cardinality(Range(f)) <= Cardinality(DOMAIN f)
<1> DEFINE g == [x \in DOMAIN f |-> f[x]]
<1>1. g \in Surjection(DOMAIN f, Range(f))
  BY DEF Surjection, Range
<1> QED
  BY <1>1, FS_Surjection

IsCounter(f) == IsFiniteSet(DOMAIN f) /\ f \in [DOMAIN f -> Nat]

\* The sums of f over every part of its domain, as the library computes them.
SumTable(f) ==
    CHOOSE sum : sum = [s \in SUBSET DOMAIN f |->
        IF s = {} THEN 0
        ELSE f[CHOOSE x \in s : TRUE] + sum[s \ {CHOOSE x \in s : TRUE}]]

LEMMA SumFromTable ==
  ASSUME NEW f
  PROVE  SumFunction(f) = SumTable(f)[DOMAIN f]
BY DEF SumFunction, SumFunctionOnSet, FoldFunctionOnSet, MapThenFoldSet, SumTable

LEMMA SumTableExists ==
  ASSUME NEW f, IsCounter(f)
  PROVE  SumTable(f) = [s \in SUBSET DOMAIN f |->
            IF s = {} THEN 0
            ELSE f[CHOOSE x \in s : TRUE] + SumTable(f)[s \ {CHOOSE x \in s : TRUE}]]
<1> DEFINE D == DOMAIN f
<1> DEFINE pick == [s \in SUBSET D |-> CHOOSE x \in s : TRUE]
<1> DEFINE add == [p \in D \X Nat |-> f[p[1]] + p[2]]
<1> DEFINE Step(sum, s) == IF s = {} THEN 0
                           ELSE f[CHOOSE x \in s : TRUE] + sum[s \ {CHOOSE x \in s : TRUE}]
<1>1. IsFiniteSet(D) /\ f \in [D -> Nat]
  BY DEF IsCounter
<1>2. \A s \in SUBSET D : s # {} => pick[s] \in s
  OBVIOUS
<1>3. \A x \in D : \A v \in Nat : add[<<x, v>>] = f[x] + v /\ add[<<x, v>>] \in Nat
  BY <1>1
<1> HIDE DEF add
<1>4. CanFold(D, Nat, 0, pick, add)
  BY <1>1, <1>2, <1>3 DEF CanFold
<1>5. PICK sum : IsFold(sum, D, Nat, 0, pick, add)
  <2> HIDE DEF D, pick
  <2> QED
    BY <1>4, FoldExists
<1>6. ASSUME NEW s \in SUBSET D PROVE sum[s] = Step(sum, s)
  <2>1. CASE s = {}
    BY <1>5, <2>1 DEF IsFold
  <2>2. CASE s # {}
    <3>1. pick[s] \in D /\ sum[s \ {pick[s]}] \in Nat
      BY <1>2, <1>5, <2>2 DEF IsFold
    <3>2. sum[s] = f[pick[s]] + sum[s \ {pick[s]}]
      BY <1>3, <1>5, <2>2, <3>1 DEF IsFold
    <3> QED
      BY <2>2, <3>2
  <2> QED
    BY <2>1, <2>2
<1>7. sum = [s \in SUBSET D |-> Step(sum, s)]
  <2> HIDE DEF Step
  <2> QED
    BY <1>6, <1>5 DEF IsFold
<1> QED
  BY <1>7 DEF SumTable

\* Any element may be taken off first.
LEMMA SumTakesOff ==
  ASSUME NEW f, IsCounter(f)
  PROVE  /\ SumTable(f)[{}] = 0
         /\ \A s \in SUBSET DOMAIN f :
               /\ SumTable(f)[s] \in Nat
               /\ \A x \in s : SumTable(f)[s] = f[x] + SumTable(f)[s \ {x}]
<1> DEFINE D == DOMAIN f
<1> DEFINE T == SumTable(f)
<1> DEFINE Right(s) == T[s] \in Nat /\ \A x \in s : T[s] = f[x] + T[s \ {x}]
<1> DEFINE Good == {n \in Nat : \A s \in SUBSET D : Cardinality(s) <= n => Right(s)}
<1>1. /\ T[{}] = 0
      /\ \A s \in SUBSET D : s # {} =>
            T[s] = f[CHOOSE x \in s : TRUE] + T[s \ {CHOOSE x \in s : TRUE}]
  BY SumTableExists
<1>2. f \in [D -> Nat] /\ IsFiniteSet(D)
  BY DEF IsCounter
<1>3. \A s \in SUBSET D :
         /\ IsFiniteSet(s) /\ Cardinality(s) \in Nat
         /\ Cardinality(s) = 0 => s = {}
         /\ \A x \in s : Cardinality(s \ {x}) = Cardinality(s) - 1
  BY <1>2, FS_Subset, FS_CardinalityType, FS_EmptySet, FS_RemoveElement
<1> HIDE DEF T
<1>4. 0 \in Good
  <2>1. Right({})
    BY <1>1
  <2>2. \A s \in SUBSET D : Cardinality(s) <= 0 => s = {}
    BY <1>3
  <2> HIDE DEF Right
  <2> QED
    BY <2>1, <2>2
<1>5. ASSUME NEW n \in Nat, n \in Good PROVE n + 1 \in Good
  <2> SUFFICES ASSUME NEW s \in SUBSET D, Cardinality(s) <= n + 1 PROVE Right(s)
    OBVIOUS
  <2>3. \A u \in SUBSET D : Cardinality(u) <= n => Right(u)
    BY <1>5
  <2>1. CASE s = {}
    BY <1>1, <2>1
  <2>2. CASE s # {}
    <3> DEFINE c == CHOOSE x \in s : TRUE
    <3>1. c \in s /\ T[s] = f[c] + T[s \ {c}]
      BY <1>1, <2>2
    <3> HIDE DEF c
    <3>2. \A x \in s : Right(s \ {x}) /\ f[x] \in Nat
      <4>1. \A x \in s : Cardinality(s \ {x}) <= n
        BY <1>3
      <4> QED
        BY <1>2, <2>3, <4>1
    <3>3. T[s] \in Nat
      BY <3>1, <3>2
    <3>4. ASSUME NEW x \in s, x # c PROVE T[s] = f[x] + T[s \ {x}]
      <4>1. T[s \ {c}] = f[x] + T[(s \ {c}) \ {x}]
        BY <3>1, <3>2, <3>4
      <4>2. T[s \ {x}] = f[c] + T[(s \ {x}) \ {c}]
        BY <3>1, <3>2, <3>4
      <4>3. (s \ {c}) \ {x} = (s \ {x}) \ {c}
        OBVIOUS
      <4>4. T[(s \ {x}) \ {c}] \in Nat
        <5>1. (s \ {x}) \ {c} \in SUBSET D /\ Cardinality((s \ {x}) \ {c}) <= n
          <6>1. Cardinality((s \ {x}) \ {c}) = Cardinality(s \ {x}) - 1
            BY <1>3, <3>1, <3>4
          <6>2. Cardinality(s \ {x}) = Cardinality(s) - 1
            BY <1>3
          <6> QED
            BY <1>3, <6>1, <6>2
        <5> QED
          BY <2>3, <5>1
      <4> DEFINE r == T[(s \ {x}) \ {c}]
      <4>5. /\ T[s] = f[c] + (f[x] + r) /\ T[s \ {x}] = f[c] + r
            /\ r \in Nat /\ f[c] \in Nat /\ f[x] \in Nat
        BY <3>1, <3>2, <4>1, <4>2, <4>3, <4>4
      <4> HIDE DEF r
      <4> QED
        BY <4>5
    <3> QED
      BY <3>1, <3>3, <3>4
  <2> QED
    BY <2>1, <2>2
<1>6. Nat \subseteq Good
  <2> HIDE DEF Good
  <2> QED
    BY <1>4, <1>5, Induction
<1>7. \A s \in SUBSET D : Right(s)
  BY <1>3, <1>6
<1> QED
  BY <1>1, <1>7 DEF T

\* The sum over a set depends on the values there and on nothing else.
LEMMA SumsAgree ==
  ASSUME NEW f, IsCounter(f), NEW g, IsCounter(g),
         NEW S \in SUBSET (DOMAIN f \cap DOMAIN g), \A x \in S : f[x] = g[x]
  PROVE  SumTable(f)[S] = SumTable(g)[S]
<1> DEFINE F == SumTable(f)
<1> DEFINE G == SumTable(g)
<1> DEFINE Good == {n \in Nat : \A s \in SUBSET S : Cardinality(s) <= n => F[s] = G[s]}
<1>1. /\ F[{}] = 0 /\ \A s \in SUBSET S : \A x \in s : F[s] = f[x] + F[s \ {x}]
      /\ G[{}] = 0 /\ \A s \in SUBSET S : \A x \in s : G[s] = g[x] + G[s \ {x}]
  BY SumTakesOff
<1>2. IsFiniteSet(S)
  BY FS_Subset DEF IsCounter
<1>3. \A s \in SUBSET S :
         /\ IsFiniteSet(s) /\ Cardinality(s) \in Nat
         /\ Cardinality(s) = 0 => s = {}
         /\ \A x \in s : Cardinality(s \ {x}) = Cardinality(s) - 1
  BY <1>2, FS_Subset, FS_CardinalityType, FS_EmptySet, FS_RemoveElement
<1> HIDE DEF F, G
<1>4. 0 \in Good
  <2>1. \A s \in SUBSET S : Cardinality(s) <= 0 => s = {}
    BY <1>3
  <2> QED
    BY <1>1, <2>1
<1>5. ASSUME NEW n \in Nat, n \in Good PROVE n + 1 \in Good
  <2> SUFFICES ASSUME NEW s \in SUBSET S, Cardinality(s) <= n + 1 PROVE F[s] = G[s]
    OBVIOUS
  <2>1. CASE s = {}
    BY <1>1, <2>1
  <2>2. ASSUME NEW x \in s PROVE F[s] = G[s]
    <3>1. Cardinality(s \ {x}) <= n /\ s \ {x} \in SUBSET S
      BY <1>3
    <3>2. F[s \ {x}] = G[s \ {x}] /\ f[x] = g[x]
      BY <1>5, <3>1
    <3> QED
      BY <1>1, <3>2
  <2> QED
    BY <2>1, <2>2
<1>6. Nat \subseteq Good
  <2> HIDE DEF Good
  <2> QED
    BY <1>4, <1>5, Induction
<1> QED
  BY <1>3, <1>6 DEF F, G

-----------------------------------------------------------------------------
(***************************************************************************)
(* Counting in a labelled gauge.                                           *)
(***************************************************************************)
At(gauge, labels) == IF labels \in DOMAIN gauge THEN gauge[labels] ELSE 0

LEMMA IncCounts ==
  ASSUME NEW gauge, IsCounter(gauge), NEW labels
  PROVE  /\ IsCounter(Inc(gauge, labels))
         /\ DOMAIN Inc(gauge, labels) = DOMAIN gauge \cup {labels}
         /\ \A l : At(Inc(gauge, labels), l) =
                      At(gauge, l) + IF l = labels THEN 1 ELSE 0
         /\ \A l : At(gauge, l) \in Nat
<1> DEFINE g == Inc(gauge, labels)
<1>1. gauge \in [DOMAIN gauge -> Nat] /\ IsFiniteSet(DOMAIN gauge)
  BY DEF IsCounter
<1>2. \A l : At(gauge, l) \in Nat
  BY <1>1 DEF At
<1>3. g = [l \in DOMAIN gauge \cup {labels} |->
              IF l = labels THEN 1 + At(gauge, labels) ELSE gauge[l]]
  BY DEF Inc, SetChild, At
<1>4. DOMAIN g = DOMAIN gauge \cup {labels} /\ IsFiniteSet(DOMAIN g)
  BY <1>1, <1>3, FS_AddElement
<1>5. ASSUME NEW l \in DOMAIN g PROVE g[l] \in Nat
  BY <1>1, <1>2, <1>3, <1>4
<1>6. g \in [DOMAIN g -> Nat]
  <2>1. g = [l \in DOMAIN g |-> g[l]]
    BY <1>3
  <2> HIDE DEF g
  <2> QED
    BY <1>5, <2>1
<1>7. \A l : At(g, l) = At(gauge, l) + IF l = labels THEN 1 ELSE 0
  BY <1>1, <1>2, <1>3 DEF At
<1> QED
  BY <1>2, <1>4, <1>6, <1>7 DEF IsCounter

LEMMA IncSums ==
  ASSUME NEW gauge, IsCounter(gauge), NEW labels
  PROVE  SumFunction(Inc(gauge, labels)) = SumFunction(gauge) + 1
<1> DEFINE g == Inc(gauge, labels)
<1> DEFINE S == DOMAIN gauge \ {labels}
<1>1. /\ IsCounter(g) /\ DOMAIN g = DOMAIN gauge \cup {labels}
      /\ \A l : At(g, l) = At(gauge, l) + IF l = labels THEN 1 ELSE 0
      /\ \A l : At(gauge, l) \in Nat
  BY IncCounts
<1> HIDE DEF g
<1>2. S \in SUBSET (DOMAIN gauge \cap DOMAIN g)
  BY <1>1
<1>3. \A x \in S : gauge[x] = g[x]
  BY <1>1 DEF At
<1>4. SumTable(gauge)[S] = SumTable(g)[S]
  <2> HIDE DEF S
  <2> QED
    BY <1>1, <1>2, <1>3, SumsAgree
<1>5. SumTable(gauge)[S] \in Nat /\ SumTable(gauge)[DOMAIN gauge] \in Nat
  BY SumTakesOff
<1>6. SumTable(g)[DOMAIN g] = g[labels] + SumTable(g)[S]
  <2>1. DOMAIN g \ {labels} = S /\ labels \in DOMAIN g
    BY <1>1
  <2> QED
    BY <1>1, <2>1, SumTakesOff
<1>7. SumTable(gauge)[DOMAIN gauge] = At(gauge, labels) + SumTable(gauge)[S]
  <2>1. CASE labels \in DOMAIN gauge
    BY <2>1, SumTakesOff DEF At
  <2>2. CASE labels \notin DOMAIN gauge
    <3>1. S = DOMAIN gauge
      BY <2>2
    <3> QED
      BY <1>5, <2>2, <3>1 DEF At
  <2> QED
    BY <2>1, <2>2
<1>8. g[labels] = At(gauge, labels) + 1
  BY <1>1 DEF At
<1> QED
  BY <1>1, <1>4, <1>5, <1>6, <1>7, <1>8, SumFromTable DEF g

LEMMA NothingCounted ==
  IsCounter(NoChildren) /\ SumFunction(NoChildren) = 0 /\ DOMAIN NoChildren = {}
<1>1. DOMAIN NoChildren = {} /\ NoChildren \in [{} -> Nat]
  BY DEF NoChildren
<1>2. IsCounter(NoChildren)
  BY <1>1, FS_EmptySet DEF IsCounter
<1> QED
  BY <1>1, <1>2, SumTakesOff, SumFromTable
-----------------------------------------------------------------------------
(***************************************************************************)
(* Left folds.  The library takes the last position off a set of           *)
(* positions; on the prefixes 1 .. k of a sequence this is the loop over   *)
(* the sequence, one turn after the other.                                 *)
(***************************************************************************)
LEMMA MaxOfPositions ==
  ASSUME NEW n \in Nat
  PROVE  /\ \A s \in SUBSET (1 .. n) : s # {} =>
               Max(s) \in s /\ \A i \in s : i <= Max(s)
         /\ \A k \in 1 .. n : /\ Max(1 .. k) = k /\ 1 .. k # {}
                              /\ (1 .. k) \ {k} = 1 .. k - 1
                              /\ 1 .. k \in SUBSET (1 .. n)
<1>1. ASSUME NEW s \in SUBSET (1 .. n), s # {}
      PROVE  Max(s) \in s /\ \A i \in s : i <= Max(s)
  <2> DEFINE T == {n - i : i \in s}
  <2>1. \A i \in s : i \in Nat /\ i <= n
    OBVIOUS
  <2>2. T \in SUBSET Nat /\ T # {}
    <3>1. \A i \in s : n - i \in Nat
      BY <2>1
    <3> QED
      BY <1>1, <3>1
  <2>3. PICK m \in T : \A x \in T : m <= x
    BY <2>2, LeastElement
  <2>4. PICK i \in s : m = n - i
    BY <2>3
  <2>5. \A j \in s : i >= j
    BY <2>1, <2>3, <2>4
  <2>6. Max(s) \in s /\ \A j \in s : Max(s) >= j
    BY <2>5 DEF Max
  <2> QED
    BY <2>1, <2>6
<1>2. ASSUME NEW k \in 1 .. n
      PROVE  /\ Max(1 .. k) = k /\ 1 .. k # {}
             /\ (1 .. k) \ {k} = 1 .. k - 1
             /\ 1 .. k \in SUBSET (1 .. n)
  <2>1. k \in 1 .. k /\ 1 .. k \in SUBSET (1 .. n)
    OBVIOUS
  <2>2. Max(1 .. k) \in 1 .. k /\ k <= Max(1 .. k)
    BY <1>1, <2>1
  <2> QED
    BY <2>1, <2>2
<1> QED
  BY <1>1, <1>2

CanFoldLeft(n, V, base, step) ==
    /\ n \in Nat /\ base \in V
    /\ \A i \in 1 .. n : \A v \in V : step[<<i, v>>] \in V

IsFoldLeft(f, n, V, base, step) ==
    /\ f \in [SUBSET (1 .. n) -> V]
    /\ \A s \in SUBSET (1 .. n) :
          f[s] = IF s = {} THEN base ELSE step[<<Max(s), f[s \ {Max(s)}]>>]

LEMMA LeftFoldExists ==
  ASSUME NEW n, NEW V, NEW base, NEW step, CanFoldLeft(n, V, base, step)
  PROVE  \E f : IsFoldLeft(f, n, V, base, step)
<1>6. n \in Nat
  BY DEF CanFoldLeft
<1> DEFINE pick == [s \in SUBSET (1 .. n) |-> Max(s)]
<1>1. \A s \in SUBSET (1 .. n) : s # {} => pick[s] \in s
  BY <1>6, MaxOfPositions
<1>2. IsFiniteSet(1 .. n)
  BY <1>6, FS_Interval
<1>3. CanFold(1 .. n, V, base, pick, step)
  BY <1>1, <1>2 DEF CanFold, CanFoldLeft
<1>4. PICK f : IsFold(f, 1 .. n, V, base, pick, step)
  <2> HIDE DEF pick
  <2> QED
    BY <1>3, FoldExists
<1>5. \A s \in SUBSET (1 .. n) : pick[s] = Max(s)
  OBVIOUS
<1> HIDE DEF pick
<1> QED
  BY <1>4, <1>5 DEF IsFold, IsFoldLeft

\* The loop that keeps the active sessions.
LEMMA ActiveLoop ==
  ASSUME NEW sessions, sessions \in Seq(Range(sessions))
  PROVE  \E t : /\ t[0] = << >>
                /\ \A k \in 1 .. Len(sessions) : t[k] = PushActive(t[k - 1], sessions[k])
                /\ FoldLeft(PushActive, << >>, sessions) = t[Len(sessions)]
<1> DEFINE n == Len(sessions)
<1> DEFINE V == Seq(Range(sessions))
<1> DEFINE Turn(f, s) == IF s = {} THEN << >>
                         ELSE PushActive(f[s \ {Max(s)}], sessions[Max(s)])
<1> DEFINE T == CHOOSE f : f = [s \in SUBSET DOMAIN sessions |-> Turn(f, s)]
<1>1. n \in Nat /\ DOMAIN sessions = 1 .. n
  OBVIOUS
<1>2. FoldLeft(PushActive, << >>, sessions) = T[DOMAIN sessions]
  BY DEF FoldLeft, MapThenFoldSet
<1>3. << >> \in V
  OBVIOUS
<1>4. \A i \in 1 .. n : \A v \in V : PushActive(v, sessions[i]) \in V
  BY <1>1 DEF PushActive, Range
<1>5. \E f : f = [s \in SUBSET (1 .. n) |-> Turn(f, s)]
  <2> DEFINE step == [p \in (1 .. n) \X V |-> PushActive(p[2], sessions[p[1]])]
  <2>1. \A i \in 1 .. n : \A v \in V :
           step[<<i, v>>] = PushActive(v, sessions[i]) /\ step[<<i, v>>] \in V
    BY <1>4
  <2> HIDE DEF step, V
  <2>2. CanFoldLeft(n, V, << >>, step)
    BY <1>1, <1>3, <2>1 DEF CanFoldLeft
  <2>3. PICK f : IsFoldLeft(f, n, V, << >>, step)
    BY <2>2, LeftFoldExists
  <2>4. ASSUME NEW s \in SUBSET (1 .. n) PROVE f[s] = Turn(f, s)
    <3>1. CASE s = {}
      BY <2>3, <3>1 DEF IsFoldLeft
    <3>2. CASE s # {}
      <4>1. Max(s) \in 1 .. n /\ s \ {Max(s)} \in SUBSET (1 .. n)
        BY <1>1, <3>2, MaxOfPositions
      <4>2. f[s \ {Max(s)}] \in V /\ f[s] = step[<<Max(s), f[s \ {Max(s)}]>>]
        BY <2>3, <3>2, <4>1 DEF IsFoldLeft
      <4> QED
        BY <2>1, <3>2, <4>1, <4>2
    <3> QED
      BY <3>1, <3>2
  <2> HIDE DEF Turn
  <2>5. f = [s \in SUBSET (1 .. n) |-> Turn(f, s)]
    BY <2>3, <2>4 DEF IsFoldLeft
  <2> QED
    BY <2>5
<1>6. T = [s \in SUBSET (1 .. n) |-> Turn(T, s)]
  <2> HIDE DEF Turn
  <2> QED
    BY <1>1, <1>5
<1> HIDE DEF T
<1>7. /\ T[1 .. 0] = << >>
      /\ \A k \in 1 .. n : T[1 .. k] = PushActive(T[1 .. k - 1], sessions[k])
  <2>1. \A s \in SUBSET (1 .. n) : T[s] = Turn(T, s)
    BY <1>6
  <2>2. 1 .. 0 = {}
    OBVIOUS
  <2>3. ASSUME NEW k \in 1 .. n
        PROVE  T[1 .. k] = PushActive(T[1 .. k - 1], sessions[k])
    <3>1. /\ Max(1 .. k) = k /\ 1 .. k # {} /\ (1 .. k) \ {k} = 1 .. k - 1
          /\ 1 .. k \in SUBSET (1 .. n)
      BY <1>1, MaxOfPositions
    <3>2. T[1 .. k] = PushActive(T[(1 .. k) \ {Max(1 .. k)}], sessions[Max(1 .. k)])
      BY <2>1, <3>1
    <3> QED
      BY <3>1, <3>2
  <2> QED
    BY <2>1, <2>2, <2>3
<1> DEFINE t == [k \in 0 .. n |-> T[1 .. k]]
<1>8. t[0] = << >> /\ t[n] = T[1 .. n]
  BY <1>1, <1>7
<1>9. \A k \in 1 .. n : t[k] = PushActive(t[k - 1], sessions[k])
  <2>1. \A k \in 1 .. n : k \in 0 .. n /\ k - 1 \in 0 .. n
    BY <1>1
  <2> HIDE DEF T
  <2> QED
    BY <1>7, <2>1
<1> HIDE DEF t
<1> QED
  BY <1>1, <1>2, <1>8, <1>9

LEMMA ActiveSessions ==
  ASSUME NEW sessions, sessions \in Seq(Range(sessions))
  PROVE  FoldLeft(PushActive, << >>, sessions)
            \in Seq({s \in Range(sessions) : IsActive(s)})
<1> DEFINE n == Len(sessions)
<1> DEFINE V == Seq({s \in Range(sessions) : IsActive(s)})
<1>1. PICK t : /\ t[0] = << >>
               /\ \A k \in 1 .. n : t[k] = PushActive(t[k - 1], sessions[k])
               /\ FoldLeft(PushActive, << >>, sessions) = t[n]
  BY ActiveLoop
<1>2. n \in Nat /\ DOMAIN sessions = 1 .. n
  OBVIOUS
<1>3. \A i \in 1 .. n : \A v \in V : PushActive(v, sessions[i]) \in V
  BY <1>2 DEF PushActive, Range
<1>4. << >> \in V
  OBVIOUS
<1> DEFINE Good == {k \in Nat : k <= n => t[k] \in V}
<1> HIDE DEF V
<1>5. 0 \in Good
  BY <1>1, <1>4
<1>6. ASSUME NEW k \in Nat, k \in Good PROVE k + 1 \in Good
  <2> SUFFICES ASSUME k + 1 <= n PROVE t[k + 1] \in V
    OBVIOUS
  <2>1. k + 1 \in 1 .. n /\ (k + 1) - 1 = k /\ t[k] \in V
    BY <1>2, <1>6
  <2> QED
    BY <1>1, <1>3, <2>1
<1>7. n \in Good
  <2> HIDE DEF Good
  <2> QED
    BY <1>2, <1>5, <1>6, Induction
<1> QED
  BY <1>1, <1>2, <1>7 DEF V

\* The loop that collapses white space.
LEMMA CollapseLoop ==
  ASSUME NEW text, text \in Seq(Range(text))
  PROVE  \E t : /\ t[0] = << >>
                /\ \A k \in 1 .. Len(text) : t[k] = PushCollapsed(t[k - 1], text[k])
                /\ Collapse(text) = t[Len(text)]
<1> DEFINE n == Len(text)
<1> DEFINE V == Seq(Range(text) \cup {Space})
<1> DEFINE Turn(f, s) == IF s = {} THEN << >>
                         ELSE PushCollapsed(f[s \ {Max(s)}], text[Max(s)])
<1> DEFINE T == CHOOSE f : f = [s \in SUBSET DOMAIN text |-> Turn(f, s)]
<1>1. n \in Nat /\ DOMAIN text = 1 .. n
  OBVIOUS
<1>2. Collapse(text) = T[DOMAIN text]
  BY DEF FoldLeft, MapThenFoldSet, Collapse
<1>3. << >> \in V
  OBVIOUS
<1>4. \A i \in 1 .. n : \A v \in V : PushCollapsed(v, text[i]) \in V
  BY <1>1 DEF PushCollapsed, Range
<1>5. \E f : f = [s \in SUBSET (1 .. n) |-> Turn(f, s)]
  <2> DEFINE step == [p \in (1 .. n) \X V |-> PushCollapsed(p[2], text[p[1]])]
  <2>1. \A i \in 1 .. n : \A v \in V :
           step[<<i, v>>] = PushCollapsed(v, text[i]) /\ step[<<i, v>>] \in V
    BY <1>4
  <2> HIDE DEF step, V
  <2>2. CanFoldLeft(n, V, << >>, step)
    BY <1>1, <1>3, <2>1 DEF CanFoldLeft
  <2>3. PICK f : IsFoldLeft(f, n, V, << >>, step)
    BY <2>2, LeftFoldExists
  <2>4. ASSUME NEW s \in SUBSET (1 .. n) PROVE f[s] = Turn(f, s)
    <3>1. CASE s = {}
      BY <2>3, <3>1 DEF IsFoldLeft
    <3>2. CASE s # {}
      <4>1. Max(s) \in 1 .. n /\ s \ {Max(s)} \in SUBSET (1 .. n)
        BY <1>1, <3>2, MaxOfPositions
      <4>2. f[s \ {Max(s)}] \in V /\ f[s] = step[<<Max(s), f[s \ {Max(s)}]>>]
        BY <2>3, <3>2, <4>1 DEF IsFoldLeft
      <4> QED
        BY <2>1, <3>2, <4>1, <4>2
    <3> QED
      BY <3>1, <3>2
  <2> HIDE DEF Turn
  <2>5. f = [s \in SUBSET (1 .. n) |-> Turn(f, s)]
    BY <2>3, <2>4 DEF IsFoldLeft
  <2> QED
    BY <2>5
<1>6. T = [s \in SUBSET (1 .. n) |-> Turn(T, s)]
  <2> HIDE DEF Turn
  <2> QED
    BY <1>1, <1>5
<1> HIDE DEF T
<1>7. /\ T[1 .. 0] = << >>
      /\ \A k \in 1 .. n : T[1 .. k] = PushCollapsed(T[1 .. k - 1], text[k])
  <2>1. \A s \in SUBSET (1 .. n) : T[s] = Turn(T, s)
    BY <1>6
  <2>2. 1 .. 0 = {}
    OBVIOUS
  <2>3. ASSUME NEW k \in 1 .. n
        PROVE  T[1 .. k] = PushCollapsed(T[1 .. k - 1], text[k])
    <3>1. /\ Max(1 .. k) = k /\ 1 .. k # {} /\ (1 .. k) \ {k} = 1 .. k - 1
          /\ 1 .. k \in SUBSET (1 .. n)
      BY <1>1, MaxOfPositions
    <3>2. T[1 .. k] = PushCollapsed(T[(1 .. k) \ {Max(1 .. k)}], text[Max(1 .. k)])
      BY <2>1, <3>1
    <3> QED
      BY <3>1, <3>2
  <2> QED
    BY <2>1, <2>2, <2>3
<1> DEFINE t == [k \in 0 .. n |-> T[1 .. k]]
<1>8. t[0] = << >> /\ t[n] = T[1 .. n]
  BY <1>1, <1>7
<1>9. \A k \in 1 .. n : t[k] = PushCollapsed(t[k - 1], text[k])
  <2>1. \A k \in 1 .. n : k \in 0 .. n /\ k - 1 \in 0 .. n
    BY <1>1
  <2> HIDE DEF T
  <2> QED
    BY <1>7, <2>1
<1> HIDE DEF t
<1> QED
  BY <1>1, <1>2, <1>8, <1>9

\* The loop that counts the reasons of a transcode.
LEMMA ReasonLoop ==
  ASSUME NEW reasons, reasons \in Seq(Range(reasons)),
         NEW base, IsCounter(base)
  PROVE  \E t : /\ t[0] = base
                /\ \A k \in 1 .. Len(reasons) : t[k] = CountReason(t[k - 1], reasons[k])
                /\ CountReasons(base, reasons) = t[Len(reasons)]
<1> DEFINE n == Len(reasons)
<1> DEFINE L == DOMAIN base \cup {<<sanitize_label({reasons[i]})>> : i \in 1 .. n}
<1> DEFINE V == UNION {[D -> Nat] : D \in SUBSET L}
<1> DEFINE Turn(f, s) == IF s = {} THEN base
                         ELSE CountReason(f[s \ {Max(s)}], reasons[Max(s)])
<1> DEFINE T == CHOOSE f : f = [s \in SUBSET DOMAIN reasons |-> Turn(f, s)]
<1>1. n \in Nat /\ DOMAIN reasons = 1 .. n
  OBVIOUS
<1>2. CountReasons(base, reasons) = T[DOMAIN reasons]
  BY DEF FoldLeft, MapThenFoldSet, CountReasons
<1>3. base \in V
  BY DEF IsCounter
<1>4. \A i \in 1 .. n : \A v \in V : CountReason(v, reasons[i]) \in V
  <2>1. \A v \in V : DOMAIN v \in SUBSET L /\ v \in [DOMAIN v -> Nat]
    OBVIOUS
  <2>2. ASSUME NEW i \in 1 .. n, NEW v \in V PROVE CountReason(v, reasons[i]) \in V
    <3>1. IsCounter(v)
      <4>1. IsFiniteSet(L)
        <5> DEFINE label == [j \in 1 .. n |-> <<sanitize_label({reasons[j]})>>]
        <5>1. IsFiniteSet(1 .. n) /\ DOMAIN label = 1 .. n
          BY <1>1, FS_Interval
        <5>2. IsFiniteSet(Range(label))
          BY <5>1, ImageIsFinite
        <5>3. L = DOMAIN base \cup Range(label)
          BY DEF Range
        <5> QED
          BY <5>2, <5>3, FS_Union DEF IsCounter
      <4>2. IsFiniteSet(DOMAIN v)
        BY <2>1, <4>1, FS_Subset
      <4> QED
        BY <2>1, <4>2 DEF IsCounter
    <3>2. <<sanitize_label({reasons[i]})>> \in L
      BY <1>1
    <3> HIDE DEF L
    <3>3. IsCounter(CountReason(v, reasons[i])) /\ DOMAIN CountReason(v, reasons[i]) \in SUBSET L
      BY <2>1, <3>1, <3>2, IncCounts DEF CountReason
    <3> QED
      BY <3>3 DEF IsCounter
  <2> QED
    BY <2>2
<1>5. \E f : f = [s \in SUBSET (1 .. n) |-> Turn(f, s)]
  <2> DEFINE step == [p \in (1 .. n) \X V |-> CountReason(p[2], reasons[p[1]])]
  <2>1. \A i \in 1 .. n : \A v \in V :
           step[<<i, v>>] = CountReason(v, reasons[i]) /\ step[<<i, v>>] \in V
    BY <1>4
  <2> HIDE DEF step, V
  <2>2. CanFoldLeft(n, V, base, step)
    BY <1>1, <1>3, <2>1 DEF CanFoldLeft
  <2>3. PICK f : IsFoldLeft(f, n, V, base, step)
    BY <2>2, LeftFoldExists
  <2>4. ASSUME NEW s \in SUBSET (1 .. n) PROVE f[s] = Turn(f, s)
    <3>1. CASE s = {}
      BY <2>3, <3>1 DEF IsFoldLeft
    <3>2. CASE s # {}
      <4>1. Max(s) \in 1 .. n /\ s \ {Max(s)} \in SUBSET (1 .. n)
        BY <1>1, <3>2, MaxOfPositions
      <4>2. f[s \ {Max(s)}] \in V /\ f[s] = step[<<Max(s), f[s \ {Max(s)}]>>]
        BY <2>3, <3>2, <4>1 DEF IsFoldLeft
      <4> QED
        BY <2>1, <3>2, <4>1, <4>2
    <3> QED
      BY <3>1, <3>2
  <2> HIDE DEF Turn
  <2>5. f = [s \in SUBSET (1 .. n) |-> Turn(f, s)]
    BY <2>3, <2>4 DEF IsFoldLeft
  <2> QED
    BY <2>5
<1>6. T = [s \in SUBSET (1 .. n) |-> Turn(T, s)]
  <2> HIDE DEF Turn
  <2> QED
    BY <1>1, <1>5
<1> HIDE DEF T
<1>7. /\ T[1 .. 0] = base
      /\ \A k \in 1 .. n : T[1 .. k] = CountReason(T[1 .. k - 1], reasons[k])
  <2>1. \A s \in SUBSET (1 .. n) : T[s] = Turn(T, s)
    BY <1>6
  <2>2. 1 .. 0 = {}
    OBVIOUS
  <2>3. ASSUME NEW k \in 1 .. n
        PROVE  T[1 .. k] = CountReason(T[1 .. k - 1], reasons[k])
    <3>1. /\ Max(1 .. k) = k /\ 1 .. k # {} /\ (1 .. k) \ {k} = 1 .. k - 1
          /\ 1 .. k \in SUBSET (1 .. n)
      BY <1>1, MaxOfPositions
    <3>2. T[1 .. k] = CountReason(T[(1 .. k) \ {Max(1 .. k)}], reasons[Max(1 .. k)])
      BY <2>1, <3>1
    <3> QED
      BY <3>1, <3>2
  <2> QED
    BY <2>1, <2>2, <2>3
<1> DEFINE t == [k \in 0 .. n |-> T[1 .. k]]
<1>8. t[0] = base /\ t[n] = T[1 .. n]
  BY <1>1, <1>7
<1>9. \A k \in 1 .. n : t[k] = CountReason(t[k - 1], reasons[k])
  <2>1. \A k \in 1 .. n : k \in 0 .. n /\ k - 1 \in 0 .. n
    BY <1>1
  <2> HIDE DEF T
  <2> QED
    BY <1>7, <2>1
<1> HIDE DEF t
<1> QED
  BY <1>1, <1>2, <1>8, <1>9
-----------------------------------------------------------------------------
(***************************************************************************)
(* Labels.                                                                 *)
(***************************************************************************)
LEMMA MinOfPositions ==
  ASSUME NEW s \in SUBSET Nat, s # {}
  PROVE  Min(s) \in s /\ \A i \in s : Min(s) <= i
<1>1. \E m \in s : \A i \in s : m <= i
  BY LeastElement
<1> QED
  BY <1>1 DEF Min

\* The part of a text from one position to another.
LEMMA Parts ==
  ASSUME NEW text, IsText(text), NEW a \in 1 .. Len(text), NEW b \in a .. Len(text)
  PROVE  /\ IsText(SubSeq(text, a, b)) /\ Len(SubSeq(text, a, b)) = b - a + 1
         /\ \A i \in 1 .. b - a + 1 : SubSeq(text, a, b)[i] = text[a + i - 1]
<1> DEFINE u == SubSeq(text, a, b)
<1>1. /\ text \in Seq(Range(text)) /\ Len(text) \in Nat
      /\ a \in Nat /\ b \in Nat /\ 1 <= a /\ a <= b /\ b <= Len(text)
  BY DEF IsText
<1>2. /\ u \in Seq(Range(text)) /\ Len(u) = b - a + 1
      /\ \A i \in 1 .. b - a + 1 : u[i] = text[a + i - 1]
  BY <1>1
<1> HIDE DEF u
<1>3. u \in Seq(Range(u))
  <2>1. DOMAIN u = 1 .. Len(u) /\ \A i \in 1 .. Len(u) : u[i] \in Range(u)
    BY <1>2 DEF Range
  <2> QED
    BY <1>2, <2>1
<1> QED
  BY <1>2, <1>3 DEF IsText, u

LEMMA TrimmedEnds ==
  ASSUME NEW text, IsText(text), Trim(text) # << >>
  PROVE  /\ IsText(Trim(text)) /\ Len(Trim(text)) \in Nat \ {0}
         /\ Trim(text)[1] \notin White /\ Trim(text)[Len(Trim(text))] \notin White
<1> DEFINE kept == {i \in DOMAIN text : text[i] \notin White}
<1> DEFINE a == Min(kept)
<1> DEFINE b == Max(kept)
<1>1. Trim(text) = SubSeq(text, a, b) /\ kept # {}
  BY DEF Trim
<1>2. Len(text) \in Nat /\ DOMAIN text = 1 .. Len(text)
  BY DEF IsText
<1>3. kept \in SUBSET (1 .. Len(text)) /\ kept \in SUBSET Nat
  BY <1>2
<1>4. a \in kept /\ b \in kept /\ a <= b
  <2> HIDE DEF kept
  <2> QED
    BY <1>1, <1>2, <1>3, MinOfPositions, MaxOfPositions
<1>5. /\ a \in 1 .. Len(text) /\ b \in a .. Len(text)
      /\ text[a] \notin White /\ text[b] \notin White
  BY <1>3, <1>4
<1> HIDE DEF a, b
<1> DEFINE u == SubSeq(text, a, b)
<1>6. /\ IsText(u) /\ Len(u) = b - a + 1
      /\ \A i \in 1 .. b - a + 1 : u[i] = text[a + i - 1]
  BY <1>5, Parts
<1>7. 1 \in 1 .. b - a + 1 /\ b - a + 1 \in 1 .. b - a + 1 /\ a + 1 - 1 = a
      /\ a + (b - a + 1) - 1 = b
  BY <1>2, <1>5
<1> HIDE DEF u
<1>8. Len(u) \in Nat \ {0}
  BY <1>6, <1>7
<1>9. u[1] = text[a]
  BY <1>6, <1>7
<1>10. u[b - a + 1] = text[b]
  BY <1>6, <1>7
<1> QED
  BY <1>1, <1>5, <1>6, <1>8, <1>9, <1>10 DEF u

\* What the slow path holds after it has seen text[k].
Collapsed(u, text, k) ==
    /\ u \in Seq(Range(text) \cup {Space}) /\ Len(u) \in Nat \ {0}
    /\ u[1] \notin White
    /\ \A i \in 1 .. Len(u) : u[i] # Tab
    /\ \A i \in 2 .. Len(u) : ~(u[i - 1] = Space /\ u[i] = Space)
    /\ text[k] \notin White => u[Len(u)] \notin White

LEMMA OneTurn ==
  ASSUME NEW text, IsText(text), NEW k \in 1 .. Len(text), k - 1 \in 1 .. Len(text),
         NEW u, Collapsed(u, text, k - 1)
  PROVE  Collapsed(PushCollapsed(u, text[k]), text, k)
<1> DEFINE C == Range(text) \cup {Space}
<1> DEFINE n == Len(u)
<1>1. /\ u \in Seq(C) /\ n \in Nat \ {0} /\ text[k] \in C
      /\ u[1] \notin White
      /\ \A i \in 1 .. n : u[i] # Tab
      /\ \A i \in 2 .. n : ~(u[i - 1] = Space /\ u[i] = Space)
  BY DEF Collapsed, IsText, Range
<1>2. Space \in C /\ Space \in White /\ Tab \in White /\ Space # Tab
  BY DEF White, Space, Tab
<1>3. ASSUME NEW c \in C, c # Tab, ~(u[n] = Space /\ c = Space),
             text[k] \notin White => c \notin White
      PROVE  Collapsed(Append(u, c), text, k)
  <2> DEFINE v == Append(u, c)
  <2>1. /\ v \in Seq(C) /\ Len(v) = n + 1 /\ v[n + 1] = c
        /\ \A i \in 1 .. n : v[i] = u[i]
    BY <1>1
  <2> HIDE DEF v
  <2>2. v[1] \notin White
    BY <1>1, <2>1
  <2>3. \A i \in 1 .. Len(v) : v[i] # Tab
    BY <1>1, <1>3, <2>1
  <2>4. ASSUME NEW i \in 2 .. Len(v) PROVE ~(v[i - 1] = Space /\ v[i] = Space)
    <3>1. CASE i = n + 1
      <4>1. i - 1 = n /\ n \in 1 .. n
        BY <1>1, <3>1
      <4> QED
        BY <1>3, <2>1, <3>1, <4>1
    <3>2. CASE i # n + 1
      <4>1. i \in 2 .. n /\ i \in 1 .. n /\ i - 1 \in 1 .. n
        BY <1>1, <2>1, <3>2
      <4> QED
        BY <1>1, <2>1, <4>1
    <3> QED
      BY <3>1, <3>2
  <2>5. Len(v) \in Nat \ {0} /\ v[Len(v)] = c
    BY <1>1, <2>1
  <2> QED
    BY <1>3, <2>1, <2>2, <2>3, <2>4, <2>5 DEF Collapsed, v
<1>4. CASE text[k] \notin White
  <2>1. PushCollapsed(u, text[k]) = Append(u, text[k])
    BY <1>4 DEF PushCollapsed
  <2> QED
    BY <1>1, <1>2, <1>3, <1>4, <2>1
<1>5. CASE text[k] \in White /\ Last(u) = Space
  <2>1. PushCollapsed(u, text[k]) = u
    BY <1>5 DEF PushCollapsed
  <2> QED
    BY <1>1, <1>5, <2>1 DEF Collapsed
<1>6. CASE text[k] \in White /\ Last(u) # Space
  <2>1. PushCollapsed(u, text[k]) = Append(u, Space)
    BY <1>6 DEF PushCollapsed
  <2>2. u[n] # Space
    BY <1>6 DEF Last
  <2> QED
    BY <1>2, <1>3, <1>6, <2>1, <2>2
<1> QED
  BY <1>4, <1>5, <1>6

LEMMA CollapsedText ==
  ASSUME NEW text, IsText(text), Len(text) # 0, text[1] \notin White
  PROVE  Collapsed(Collapse(text), text, Len(text))
<1> DEFINE n == Len(text)
<1>1. n \in Nat \ {0} /\ text \in Seq(Range(text))
  BY DEF IsText
<1>2. PICK t : /\ t[0] = << >>
               /\ \A k \in 1 .. n : t[k] = PushCollapsed(t[k - 1], text[k])
               /\ Collapse(text) = t[n]
  BY <1>1, CollapseLoop
<1> DEFINE Good == {k \in Nat : k + 1 <= n => Collapsed(t[k + 1], text, k + 1)}
<1>3. 0 \in Good
  <2>1. 1 \in 1 .. n /\ 1 - 1 = 0 /\ text[1] \in Range(text)
    BY <1>1 DEF Range
  <2>2. t[1] = PushCollapsed(t[0], text[1])
    BY <1>2, <2>1
  <2>3. t[1] = Append(<< >>, text[1])
    BY <1>2, <2>2 DEF PushCollapsed
  <2>4. t[1] \in Seq(Range(text) \cup {Space}) /\ Len(t[1]) = 1 /\ t[1][1] = text[1]
    BY <2>1, <2>3
  <2>5. Tab \in White
    BY DEF White
  <2>6. Collapsed(t[1], text, 1)
    BY <2>4, <2>5 DEF Collapsed
  <2> QED
    BY <2>6
<1>4. ASSUME NEW k \in Nat, k \in Good PROVE k + 1 \in Good
  <2> SUFFICES ASSUME (k + 1) + 1 <= n
               PROVE  Collapsed(t[(k + 1) + 1], text, (k + 1) + 1)
    OBVIOUS
  <2> DEFINE m == (k + 1) + 1
  <2>1. m \in 1 .. n /\ m - 1 \in 1 .. n /\ m - 1 = k + 1
    BY <1>1
  <2>2. Collapsed(t[m - 1], text, m - 1)
    BY <1>4, <2>1
  <2> HIDE DEF m
  <2>3. t[m] = PushCollapsed(t[m - 1], text[m])
    BY <1>2, <2>1
  <2>4. Collapsed(t[m], text, m)
    BY <2>1, <2>2, <2>3, OneTurn
  <2> QED
    BY <2>4 DEF m
<1>5. n - 1 \in Good
  <2> HIDE DEF Good
  <2> QED
    BY <1>1, <1>3, <1>4, Induction
<1>6. n - 1 \in Nat /\ (n - 1) + 1 = n
  BY <1>1
<1> QED
  BY <1>2, <1>5, <1>6

LEMMA UnknownIsClean == IsClean(Unknown)
<1>1. Len(Unknown) = 1 /\ DOMAIN Unknown = {1} /\ Unknown[1] = "unknown"
  BY DEF Unknown
<1>2. "unknown" \notin White /\ "unknown" # Tab
  BY DEF White, Space, Tab, Wide
<1> QED
  BY <1>1, <1>2, SanitizeAssumption DEF IsClean

LEMMA SanitizedIsClean ==
  ASSUME NEW value, \A text \in value : IsText(text)
  PROVE  IsClean(sanitize_label(value)) /\ IsText(sanitize_label(value))
<1> DEFINE text == OrElse(value, << >>)
<1> DEFINE trimmed == Trim(text)
<1>1. IsText(text)
  <2>1. IsText(<< >>)
    BY DEF IsText
  <2>2. CASE value = {}
    BY <2>1, <2>2 DEF OrElse
  <2>3. CASE value # {}
    BY <2>3 DEF OrElse
  <2> QED
    BY <2>2, <2>3
<1>2. CASE trimmed = << >>
  <2>1. sanitize_label(value) = Unknown
    BY <1>2 DEF sanitize_label
  <2>2. IsText(Unknown)
    BY DEF IsText, Unknown, Range
  <2> QED
    BY <2>1, <2>2, UnknownIsClean
<1>3. ASSUME trimmed # << >>
      PROVE  /\ IsText(trimmed) /\ Len(trimmed) \in Nat \ {0}
             /\ trimmed[1] \notin White /\ trimmed[Len(trimmed)] \notin White
             /\ DOMAIN trimmed = 1 .. Len(trimmed)
  <2>1. IsText(trimmed)
    BY <1>1, <1>3, TrimmedEnds
  <2> QED
    BY <1>1, <1>3, <2>1, TrimmedEnds DEF IsText
<1>4. CASE trimmed # << >> /\ ~NeedsCollapse(trimmed) /\ Len(trimmed) <= MaxLabelChars
  <2>1. sanitize_label(value) = trimmed
    BY <1>4 DEF sanitize_label
  <2> HIDE DEF trimmed
  <2>2. IsClean(trimmed)
    BY <1>3, <1>4 DEF IsClean, NeedsCollapse
  <2> QED
    BY <1>3, <1>4, <2>1, <2>2
<1>5. CASE trimmed # << >> /\ ~(~NeedsCollapse(trimmed) /\ Len(trimmed) <= MaxLabelChars)
  <2> DEFINE c == Collapse(trimmed)
  <2> DEFINE m == Min({MaxLabelChars, Len(c)})
  <2>1. sanitize_label(value) = SubSeq(c, 1, m)
    BY <1>5 DEF sanitize_label, Truncate
  <2>2. Collapsed(c, trimmed, Len(trimmed))
    <3> HIDE DEF trimmed
    <3> QED
      BY <1>3, <1>5, CollapsedText
  <2> HIDE DEF trimmed
  <2>3. /\ IsText(c) /\ Len(c) \in Nat \ {0} /\ c[1] \notin White
        /\ \A i \in 1 .. Len(c) : c[i] # Tab
        /\ \A i \in 2 .. Len(c) : ~(c[i - 1] = Space /\ c[i] = Space)
        /\ c[Len(c)] \notin White
    BY <1>3, <1>5, <2>2 DEF Collapsed, IsText, Range
  <2> HIDE DEF c
  <2>4. MaxLabelChars \in Nat \ {0}
    BY SanitizeAssumption
  <2>5. m \in 1 .. Len(c) /\ m <= MaxLabelChars /\ (m = MaxLabelChars \/ m = Len(c))
    <3>1. {MaxLabelChars, Len(c)} \in SUBSET Nat
      BY <2>3, <2>4
    <3>2. m \in {MaxLabelChars, Len(c)} /\ \A i \in {MaxLabelChars, Len(c)} : m <= i
      BY <3>1, MinOfPositions
    <3> QED
      BY <2>3, <2>4, <3>2
  <2> HIDE DEF m
  <2> DEFINE u == SubSeq(c, 1, m)
  <2>6. IsText(u) /\ Len(u) = m /\ \A i \in 1 .. m : u[i] = c[i]
    <3>1. 1 \in 1 .. Len(c) /\ m \in 1 .. Len(c) /\ m - 1 + 1 = m
      BY <2>3, <2>5
    <3>2. \A i \in 1 .. m : 1 + i - 1 = i
      BY <2>3, <2>5
    <3> QED
      BY <2>3, <3>1, <3>2, Parts
  <2>7. DOMAIN u = 1 .. m
    BY <2>6 DEF IsText
  <2> HIDE DEF u
  <2>8. /\ Len(u) \in 1 .. MaxLabelChars /\ u[1] \notin White
        /\ \A i \in DOMAIN u : u[i] # Tab
    BY <2>3, <2>4, <2>5, <2>6, <2>7
  <2>9. u[Len(u)] \in White => Len(u) = MaxLabelChars
    BY <2>3, <2>5, <2>6
  <2>10. \A i \in 2 .. Len(u) : ~(u[i - 1] = Space /\ u[i] = Space)
    BY <2>3, <2>5, <2>6
  <2>11. IsClean(u)
    BY <2>8, <2>9, <2>10 DEF IsClean
  <2> QED
    BY <2>1, <2>6, <2>11 DEF u
<1> QED
  BY <1>2, <1>4, <1>5

LEMMA SanitizedCodecIsClean ==
  ASSUME NEW value, \A text \in value : IsText(text)
  PROVE  IsClean(sanitize_codec_label(value))
<1> DEFINE u == sanitize_label(value)
<1> DEFINE v == sanitize_codec_label(value)
<1>1. IsClean(u) /\ IsText(u)
  BY SanitizedIsClean
<1>2. v = [i \in DOMAIN u |->
              IF u[i] \in DOMAIN LowerCase THEN LowerCase[u[i]] ELSE u[i]]
  BY DEF sanitize_codec_label, ToLower
<1> HIDE DEF u, v
<1>3. DOMAIN u = 1 .. Len(u) /\ Len(u) \in Nat \ {0}
  BY <1>1, SanitizeAssumption DEF IsText, IsClean
<1>4. v \in Seq(Range(v)) /\ Len(v) = Len(u) /\ DOMAIN v = 1 .. Len(u)
  BY <1>2, <1>3 DEF Range
<1>5. /\ Space \in White /\ Tab \in White
      /\ \A c \in DOMAIN LowerCase : c \notin White /\ LowerCase[c] \notin White
  BY SanitizeAssumption DEF White
<1>6. \A i \in 1 .. Len(u) : (v[i] \in White \/ u[i] \in White) => v[i] = u[i]
  BY <1>2, <1>3, <1>5
<1>7. v[1] \notin White /\ (v[Len(v)] \in White => Len(v) = MaxLabelChars)
  BY <1>1, <1>3, <1>4, <1>6 DEF IsClean
<1>8. \A i \in DOMAIN v : v[i] # Tab
  BY <1>1, <1>3, <1>4, <1>5, <1>6 DEF IsClean
<1>9. \A i \in 2 .. Len(v) : ~(v[i - 1] = Space /\ v[i] = Space)
  BY <1>1, <1>3, <1>4, <1>5, <1>6 DEF IsClean
<1> QED
  BY <1>1, <1>4, <1>7, <1>8, <1>9 DEF IsClean, v

\* A label that needs no sanitizing is left as it is.
LEMMA CleanStays ==
  ASSUME NEW text, IsText(text), IsClean(text), text[Len(text)] \notin White
  PROVE  sanitize_label({text}) = text
<1> DEFINE n == Len(text)
<1> DEFINE kept == {i \in DOMAIN text : text[i] \notin White}
<1>1. /\ n \in Nat \ {0} /\ n <= MaxLabelChars /\ text[1] \notin White
      /\ DOMAIN text = 1 .. n /\ text \in Seq(Range(text))
  BY SanitizeAssumption DEF IsClean, IsText
<1>2. 1 \in kept /\ n \in kept /\ kept \in SUBSET (1 .. n) /\ kept \in SUBSET Nat
  BY <1>1
<1> HIDE DEF kept
<1>3. Min(kept) = 1 /\ Max(kept) = n
  <2>1. Min(kept) \in kept /\ Min(kept) <= 1
    BY <1>2, MinOfPositions
  <2>2. Max(kept) \in kept /\ n <= Max(kept)
    BY <1>1, <1>2, MaxOfPositions
  <2>3. Min(kept) \in 1 .. n /\ Max(kept) \in 1 .. n
    BY <1>2, <2>1, <2>2
  <2> HIDE DEF n
  <2> QED
    BY <1>1, <2>1, <2>2, <2>3
<1>4. Trim(text) = text
  <2>1. Trim(text) = SubSeq(text, 1, n)
    BY <1>2, <1>3 DEF Trim, kept
  <2> QED
    BY <1>1, <2>1
<1>5. OrElse({text}, << >>) = text /\ text # << >>
  BY <1>1 DEF OrElse
<1>6. ~NeedsCollapse(text)
  BY DEF NeedsCollapse, IsClean
<1> QED
  BY <1>1, <1>4, <1>5, <1>6 DEF sanitize_label
-----------------------------------------------------------------------------
(***************************************************************************)
(* The gauges of a session.                                                *)
(***************************************************************************)
GaugeNames == Overlaid \cup {"transcodes_active", "transcode_reason_sessions",
                             "play_method_sessions", "sessions_active_count",
                             "transcode_hw_accelerated"}

LEMMA BlankGauges ==
  /\ Blank = [name \in GaugeNames |->
                 IF name \in {"sessions_active_count", "transcode_hw_accelerated"}
                 THEN 0 ELSE NoChildren]
  /\ DOMAIN Blank = GaugeNames
  /\ \A name \in Overlaid : Blank[name] = NoChildren
  /\ Blank["transcodes_active"] = NoChildren
  /\ Blank["transcode_reason_sessions"] = NoChildren
BY DEF Blank, GaugeNames, Overlaid

\* What a visit makes of one gauge.
Shown(name, gauge, session) ==
    LET user == sanitize_label(session.user_name)
        device == sanitize_label(session.device_name)
        media == sanitize_label(Field(session.now_playing_item, "media_type"))
        remote == sanitize_label(session.remote_end_point)
        rate == Bitrate(session)
    IN CASE name = "sessions_active" -> SetChild(gauge, SessionLabels(session), 1)
         [] name = "session_paused" ->
               SetChild(gauge, <<user, SessionLabels(session)[2], device>>,
                        OrElse(Flag(Field(session.play_state, "is_paused")), 0))
         [] name = "session_play_position_seconds" ->
               SetIfSome(gauge, <<user, media>>, PositionSeconds(session))
         [] name = "session_remote_address" ->
               IF expose_remote_address /\ session.remote_end_point # {}
               THEN SetChild(gauge, <<user, remote>>, 1) ELSE gauge
         [] name = "stream_bitrate" ->
               IF rate > 0 THEN SetChild(gauge, <<user, MediaType(session)>>, rate)
               ELSE gauge
         [] name = "transcode_completion" ->
               SetIfSome(gauge, <<user>>,
                         Field(Transcoding(session), "completion_percentage"))
         [] name = "stream_direct" ->
               SetIfSome(SetIfSome(gauge, <<user, <<"video">> >>,
                                   StreamIsDirect(session, "is_video_direct")),
                         <<user, <<"audio">> >>,
                         StreamIsDirect(session, "is_audio_direct"))

LEMMA VisitedGauges ==
  ASSUME NEW g, DOMAIN g = GaugeNames, NEW session
  PROVE  /\ DOMAIN VisitGauges(g, session) = GaugeNames
         /\ \A name \in {"transcode_reason_sessions", "play_method_sessions",
                         "sessions_active_count", "transcode_hw_accelerated"} :
               VisitGauges(g, session)[name] = g[name]
         /\ VisitGauges(g, session)["transcodes_active"] =
               CountCodecs(g["transcodes_active"], Transcoding(session))
         /\ \A name \in Overlaid :
               VisitGauges(g, session)[name] = Shown(name, g[name], session)
<1>1. VisitGauges(g, session)["sessions_active"] =
         Shown("sessions_active", g["sessions_active"], session)
  BY DEF VisitGauges, GaugeNames, Overlaid, Shown
<1>2. VisitGauges(g, session)["session_paused"] =
         Shown("session_paused", g["session_paused"], session)
  BY DEF VisitGauges, GaugeNames, Overlaid, Shown
<1>3. VisitGauges(g, session)["session_play_position_seconds"] =
         Shown("session_play_position_seconds", g["session_play_position_seconds"], session)
  BY DEF VisitGauges, GaugeNames, Overlaid, Shown
<1>4. VisitGauges(g, session)["session_remote_address"] =
         Shown("session_remote_address", g["session_remote_address"], session)
  BY DEF VisitGauges, GaugeNames, Overlaid, Shown
<1>5. VisitGauges(g, session)["stream_bitrate"] =
         Shown("stream_bitrate", g["stream_bitrate"], session)
  BY DEF VisitGauges, GaugeNames, Overlaid, Shown
<1>6. VisitGauges(g, session)["transcode_completion"] =
         Shown("transcode_completion", g["transcode_completion"], session)
  BY DEF VisitGauges, GaugeNames, Overlaid, Shown
<1>7. VisitGauges(g, session)["stream_direct"] =
         Shown("stream_direct", g["stream_direct"], session)
  BY DEF VisitGauges, GaugeNames, Overlaid, Shown
<1>8. \A name \in Overlaid :
         VisitGauges(g, session)[name] = Shown(name, g[name], session)
  BY <1>1, <1>2, <1>3, <1>4, <1>5, <1>6, <1>7 DEF Overlaid
<1>9. /\ DOMAIN VisitGauges(g, session) = GaugeNames
      /\ \A name \in {"transcode_reason_sessions", "play_method_sessions",
                      "sessions_active_count", "transcode_hw_accelerated"} :
            VisitGauges(g, session)[name] = g[name]
      /\ VisitGauges(g, session)["transcodes_active"] =
            CountCodecs(g["transcodes_active"], Transcoding(session))
  BY DEF VisitGauges, GaugeNames, Overlaid
<1> QED
  BY <1>8, <1>9

\* The children of f, and those of g that f does not have.
Over(f, g) == [l \in DOMAIN f \cup DOMAIN g |-> IF l \in DOMAIN f THEN f[l] ELSE g[l]]

LEMMA SetOver ==
  ASSUME NEW f, NEW g, NEW labels, NEW v, NEW option
  PROVE  /\ SetChild(Over(f, g), labels, v) = Over(SetChild(f, labels, v), g)
         /\ SetIfSome(Over(f, g), labels, option) = Over(SetIfSome(f, labels, option), g)
<1>1. \A x : SetChild(Over(f, g), labels, x) = Over(SetChild(f, labels, x), g)
  BY DEF SetChild, Over
<1> QED
  BY <1>1 DEF SetIfSome

LEMMA OverNothing ==
  ASSUME NEW g, g = [l \in DOMAIN g |-> g[l]]
  PROVE  Over(NoChildren, g) = g
BY DEF Over, NoChildren

LEMMA ShownOver ==
  ASSUME NEW f, NEW g, NEW session, NEW name \in Overlaid
  PROVE  Shown(name, Over(f, g), session) = Over(Shown(name, f, session), g)
<1>1. CASE name = "sessions_active"
  BY <1>1, SetOver DEF Shown
<1>2. CASE name = "session_paused"
  BY <1>2, SetOver DEF Shown
<1>3. CASE name = "session_play_position_seconds"
  BY <1>3, SetOver DEF Shown
<1>4. CASE name = "session_remote_address"
  BY <1>4, SetOver DEF Shown
<1>5. CASE name = "stream_bitrate"
  BY <1>5, SetOver DEF Shown
<1>6. CASE name = "transcode_completion"
  BY <1>6, SetOver DEF Shown
<1>7. CASE name = "stream_direct"
  BY <1>7, SetOver DEF Shown
<1> QED
  BY <1>1, <1>2, <1>3, <1>4, <1>5, <1>6, <1>7 DEF Overlaid

LEMMA VisitOverlays ==
  ASSUME NEW g, DOMAIN g = GaugeNames, NEW session, NEW name \in Overlaid,
         g[name] = [l \in DOMAIN g[name] |-> g[name][l]]
  PROVE  VisitGauges(g, session)[name] = Over(Alone(session)[name], g[name])
<1>1. g[name] = Over(NoChildren, g[name])
  BY OverNothing
<1>2. Alone(session)[name] = Shown(name, NoChildren, session)
  BY BlankGauges, VisitedGauges DEF Alone
<1>3. VisitGauges(g, session)[name] = Shown(name, g[name], session)
  BY VisitedGauges
<1> QED
  BY <1>1, <1>2, <1>3, ShownOver

\* Gauges laid over one another, A[1] first and A[n] last.
Overlay(A, n) ==
    [l \in UNION {DOMAIN A[i] : i \in 1 .. n} |->
        A[Max({i \in 1 .. n : l \in DOMAIN A[i]})][l]]

LEMMA OverlayOfNone ==
  ASSUME NEW A
  PROVE  Overlay(A, 0) = NoChildren
<1>1. 1 .. 0 = {}
  OBVIOUS
<1> QED
  BY <1>1 DEF Overlay, NoChildren

LEMMA OverlayOfOneMore ==
  ASSUME NEW A, NEW n \in Nat
  PROVE  Overlay(A, n + 1) = Over(A[n + 1], Overlay(A, n))
<1> DEFINE With(l, m) == {i \in 1 .. m : l \in DOMAIN A[i]}
<1> DEFINE D(m) == UNION {DOMAIN A[i] : i \in 1 .. m}
<1>1. 1 .. n + 1 = (1 .. n) \cup {n + 1}
  OBVIOUS
<1>2. D(n + 1) = DOMAIN A[n + 1] \cup D(n)
  BY <1>1
<1>3. ASSUME NEW l \in DOMAIN A[n + 1] PROVE Max(With(l, n + 1)) = n + 1
  <2>1. n + 1 \in With(l, n + 1) /\ With(l, n + 1) \in SUBSET (1 .. n + 1)
    BY <1>1, <1>3
  <2> HIDE DEF With
  <2>2. Max(With(l, n + 1)) \in 1 .. n + 1 /\ n + 1 <= Max(With(l, n + 1))
    BY <2>1, MaxOfPositions
  <2> QED
    BY <2>2
<1>4. ASSUME NEW l, l \notin DOMAIN A[n + 1] PROVE With(l, n + 1) = With(l, n)
  BY <1>1, <1>4
<1>5. \A m : Overlay(A, m) = [l \in D(m) |-> A[Max(With(l, m))][l]]
  BY DEF Overlay
<1> HIDE DEF D, With
<1>6. Overlay(A, n + 1) =
         [l \in DOMAIN A[n + 1] \cup D(n) |-> A[Max(With(l, n + 1))][l]]
  BY <1>2, <1>5
<1>7. /\ DOMAIN Overlay(A, n) = D(n)
      /\ \A l \in D(n) : Overlay(A, n)[l] = A[Max(With(l, n))][l]
  BY <1>5
<1>8. Over(A[n + 1], Overlay(A, n)) =
         [l \in DOMAIN A[n + 1] \cup D(n) |->
             IF l \in DOMAIN A[n + 1] THEN A[n + 1][l] ELSE Overlay(A, n)[l]]
  BY <1>7 DEF Over
<1>9. ASSUME NEW l \in DOMAIN A[n + 1] \cup D(n)
      PROVE  A[Max(With(l, n + 1))][l] =
                IF l \in DOMAIN A[n + 1] THEN A[n + 1][l] ELSE Overlay(A, n)[l]
  <2>1. CASE l \in DOMAIN A[n + 1]
    BY <1>3, <2>1
  <2>2. CASE l \notin DOMAIN A[n + 1]
    BY <1>4, <1>7, <1>9, <2>2
  <2> QED
    BY <2>1, <2>2
<1> QED
  BY <1>6, <1>8, <1>9
-----------------------------------------------------------------------------
(***************************************************************************)
(* Counting sessions.                                                      *)
(***************************************************************************)
LEMMA CountNext ==
  ASSUME NEW X
  PROVE  /\ Cardinality((1 .. 0) \cap X) = 0
         /\ \A n \in Nat :
               /\ Cardinality((1 .. n) \cap X) \in Nat
               /\ Cardinality((1 .. n + 1) \cap X) =
                     Cardinality((1 .. n) \cap X) + IF n + 1 \in X THEN 1 ELSE 0
<1>1. Cardinality((1 .. 0) \cap X) = 0
  <2>1. (1 .. 0) \cap X = {}
    OBVIOUS
  <2> QED
    BY <2>1, FS_EmptySet
<1>2. ASSUME NEW n \in Nat
      PROVE  /\ Cardinality((1 .. n) \cap X) \in Nat
             /\ Cardinality((1 .. n + 1) \cap X) =
                   Cardinality((1 .. n) \cap X) + IF n + 1 \in X THEN 1 ELSE 0
  <2>1. IsFiniteSet(1 .. n)
    BY FS_Interval
  <2>2. IsFiniteSet((1 .. n) \cap X)
    BY <2>1, FS_Subset
  <2>3. Cardinality((1 .. n) \cap X) \in Nat
    BY <2>2, FS_CardinalityType
  <2>4. CASE n + 1 \in X
    <3>1. (1 .. n + 1) \cap X = ((1 .. n) \cap X) \cup {n + 1} /\ n + 1 \notin (1 .. n) \cap X
      BY <2>4
    <3> QED
      BY <2>2, <2>3, <2>4, <3>1, FS_AddElement
  <2>5. CASE n + 1 \notin X
    <3>1. (1 .. n + 1) \cap X = (1 .. n) \cap X
      BY <2>5
    <3> QED
      BY <2>3, <2>5, <3>1
  <2> QED
    BY <2>3, <2>4, <2>5
<1> QED
  BY <1>1, <1>2

LEMMA OptionSize ==
  ASSUME NEW x, IsOption(x)
  PROVE  Cardinality(x) \in {0, 1} /\ (x = {} => Cardinality(x) = 0)
<1>1. CASE x = {}
  BY <1>1, FS_EmptySet
<1>2. CASE x # {}
  <2>1. PICK y \in x : TRUE
    BY <1>2
  <2>2. x = {y}
    BY <2>1 DEF IsOption
  <2> QED
    BY <1>2, <2>2, FS_Singleton
<1> QED
  BY <1>1, <1>2

\* What the loop over the reasons of a transcode leaves in the counter.
LEMMA ReasonsCounted ==
  ASSUME NEW reasons, IsText(reasons), NEW base, IsCounter(base),
         NEW f, f = CountReasons(base, reasons)
  PROVE  /\ IsCounter(f)
         /\ \A l : /\ At(base, l) \in Nat /\ At(f, l) \in Nat
                   /\ At(f, l) >= At(base, l)
                   /\ (\E r \in Range(reasons) : <<sanitize_label({r})>> = l) =>
                         At(f, l) >= At(base, l) + 1
         /\ \A l \in DOMAIN f :
               l \in DOMAIN base \/ \E r \in Range(reasons) : <<sanitize_label({r})>> = l
<1> DEFINE n == Len(reasons)
<1> DEFINE label(i) == <<sanitize_label({reasons[i]})>>
<1>1. /\ n \in Nat /\ DOMAIN reasons = 1 .. n
      /\ reasons \in Seq(Range(reasons))
      /\ Range(reasons) = {reasons[i] : i \in 1 .. n}
  BY DEF IsText, Range
<1>2. PICK t : /\ t[0] = base
               /\ \A k \in 1 .. n : t[k] = CountReason(t[k - 1], reasons[k])
               /\ CountReasons(base, reasons) = t[n]
  BY <1>1, ReasonLoop
<1> HIDE DEF label
<1> DEFINE Right(k) ==
      /\ IsCounter(t[k])
      /\ \A l : /\ At(t[k], l) \in Nat
                /\ At(t[k], l) >= At(base, l)
                /\ (\E i \in 1 .. k : label(i) = l) => At(t[k], l) >= At(base, l) + 1
      /\ \A l \in DOMAIN t[k] : l \in DOMAIN base \/ \E i \in 1 .. k : label(i) = l
<1> DEFINE Good == {k \in Nat : k <= n => Right(k)}
<1>3. \A l : At(base, l) \in Nat
  BY IncCounts
<1>4. 0 \in Good
  <2>1. 1 .. 0 = {}
    OBVIOUS
  <2>2. Right(0)
    BY <1>2, <1>3, <2>1
  <2> HIDE DEF Right
  <2> QED
    BY <2>2
<1>5. ASSUME NEW k \in Nat, k \in Good PROVE k + 1 \in Good
  <2> SUFFICES ASSUME k + 1 <= n PROVE Right(k + 1)
    <3> HIDE DEF Right
    <3> QED
      OBVIOUS
  <2>1. k + 1 \in 1 .. n /\ (k + 1) - 1 = k /\ k <= n
    BY <1>1
  <2>2. Right(k)
    BY <1>5, <2>1
  <2>3. t[k + 1] = Inc(t[k], label(k + 1))
    BY <1>2, <2>1 DEF CountReason, label
  <2>4. /\ IsCounter(t[k + 1])
        /\ DOMAIN t[k + 1] = DOMAIN t[k] \cup {label(k + 1)}
        /\ \A l : At(t[k + 1], l) = At(t[k], l) + IF l = label(k + 1) THEN 1 ELSE 0
    <3>1. IsCounter(t[k])
      BY <2>2
    <3> HIDE DEF Right, Good
    <3>2. \A lab :
             /\ IsCounter(Inc(t[k], lab))
             /\ DOMAIN Inc(t[k], lab) = DOMAIN t[k] \cup {lab}
             /\ \A l : At(Inc(t[k], lab), l) = At(t[k], l) + IF l = lab THEN 1 ELSE 0
      BY <3>1, IncCounts
    <3> QED
      BY <2>3, <3>2
  <2>5. 1 .. k + 1 = (1 .. k) \cup {k + 1}
    OBVIOUS
  <2>6. ASSUME NEW l
        PROVE  /\ At(t[k + 1], l) \in Nat
               /\ At(t[k + 1], l) >= At(base, l)
               /\ (\E i \in 1 .. k + 1 : label(i) = l) => At(t[k + 1], l) >= At(base, l) + 1
    BY <1>3, <2>2, <2>4, <2>5
  <2>7. \A l \in DOMAIN t[k + 1] :
           l \in DOMAIN base \/ \E i \in 1 .. k + 1 : label(i) = l
    BY <2>2, <2>4, <2>5
  <2> QED
    BY <2>4, <2>6, <2>7
<1>6. n \in Good
  <2> HIDE DEF Good
  <2> QED
    BY <1>1, <1>4, <1>5, Induction
<1>7. Right(n)
  <2> HIDE DEF Right
  <2> QED
    BY <1>1, <1>6
<1>8. \A l : (\E r \in Range(reasons) : <<sanitize_label({r})>> = l)
                <=> \E i \in 1 .. n : label(i) = l
  BY <1>1 DEF label
<1> QED
  BY <1>2, <1>3, <1>7, <1>8

LEMMA MethodsToCount ==
  /\ IsFiniteSet(Methods)
  /\ SumFunction([m \in Methods |-> 0]) = 0
<1> DEFINE a == << <<"DirectPlay">> >>
<1> DEFINE b == << <<"Transcode">> >>
<1> DEFINE c == << <<"DirectStream">> >>
<1> DEFINE f == [m \in Methods |-> 0]
<1>1. Methods = {a, b, c}
  BY DEF Methods
<1> HIDE DEF a, b, c
<1>2. IsFiniteSet({}) /\ IsFiniteSet({} \cup {a}) /\ IsFiniteSet(({} \cup {a}) \cup {b})
      /\ IsFiniteSet((({} \cup {a}) \cup {b}) \cup {c})
  BY FS_EmptySet, FS_AddElement
<1>3. (({} \cup {a}) \cup {b}) \cup {c} = Methods
  BY <1>1
<1>4. IsFiniteSet(Methods)
  BY <1>2, <1>3
<1>5. DOMAIN f = Methods /\ f \in [Methods -> Nat] /\ \A m \in Methods : f[m] = 0
  OBVIOUS
<1> HIDE DEF f
<1>6. IsCounter(f)
  BY <1>4, <1>5 DEF IsCounter
<1>7. /\ SumTable(f)[{}] = 0
      /\ \A s \in SUBSET Methods :
            /\ SumTable(f)[s] \in Nat
            /\ \A x \in s : SumTable(f)[s] = SumTable(f)[s \ {x}]
  <2>1. /\ SumTable(f)[{}] = 0
        /\ \A s \in SUBSET Methods :
              /\ SumTable(f)[s] \in Nat
              /\ \A x \in s : SumTable(f)[s] = f[x] + SumTable(f)[s \ {x}]
    BY <1>5, <1>6, SumTakesOff
  <2>2. \A s \in SUBSET Methods : \A x \in s : s \ {x} \in SUBSET Methods /\ f[x] = 0
    BY <1>5
  <2>3. ASSUME NEW s \in SUBSET Methods, NEW x \in s
        PROVE  SumTable(f)[s] = SumTable(f)[s \ {x}]
    <3>1. /\ SumTable(f)[s] = f[x] + SumTable(f)[s \ {x}]
          /\ f[x] = 0 /\ SumTable(f)[s \ {x}] \in Nat
      BY <2>1, <2>2
    <3> QED
      BY <3>1
  <2> QED
    BY <2>1, <2>3
<1>8. \A s \in SUBSET Methods : \A x : SumTable(f)[s] = SumTable(f)[s \ {x}]
  <2> SUFFICES ASSUME NEW s \in SUBSET Methods, NEW x
               PROVE  SumTable(f)[s] = SumTable(f)[s \ {x}]
    OBVIOUS
  <2>1. CASE x \in s
    BY <1>7, <2>1
  <2>2. CASE x \notin s
    <3>1. s \ {x} = s
      BY <2>2
    <3> QED
      BY <3>1
  <2> QED
    BY <2>1, <2>2
<1>9. /\ SumTable(f)[Methods] = SumTable(f)[Methods \ {a}]
      /\ SumTable(f)[Methods \ {a}] = SumTable(f)[(Methods \ {a}) \ {b}]
      /\ SumTable(f)[(Methods \ {a}) \ {b}] = SumTable(f)[((Methods \ {a}) \ {b}) \ {c}]
      /\ ((Methods \ {a}) \ {b}) \ {c} = {}
  BY <1>1, <1>8
<1>10. SumFunction(f) = 0
  BY <1>5, <1>7, <1>9, SumFromTable
<1> QED
  BY <1>4, <1>10 DEF f

\* One more session of some play method.
LEMMA MethodCounted ==
  ASSUME NEW methods, methods \in [Methods -> Nat], NEW method, NEW more,
         more = [m \in Methods |-> methods[m] + IF m = method THEN 1 ELSE 0]
  PROVE  /\ more \in [Methods -> Nat]
         /\ SumFunction(methods) \in Nat
         /\ SumFunction(more) \in Nat
         /\ SumFunction(more) <= SumFunction(methods) + 1
<1>1. IsCounter(methods) /\ DOMAIN methods = Methods
  BY MethodsToCount DEF IsCounter
<1>2. more \in [Methods -> Nat]
  OBVIOUS
<1>3. IsCounter(more) /\ DOMAIN more = Methods
  BY <1>2, MethodsToCount DEF IsCounter
<1>4. SumFunction(methods) \in Nat /\ SumFunction(more) \in Nat
  BY <1>1, <1>3, SumTakesOff, SumFromTable
<1>5. CASE method \in Methods
  <2>1. more = Inc(methods, method)
    <3>1. DOMAIN methods \cup {method} = Methods
      BY <1>5
    <3> QED
      BY <1>5, <3>1 DEF Inc, SetChild
  <2> QED
    BY <1>1, <1>2, <1>4, <2>1, IncSums
<1>6. CASE method \notin Methods
  <2>1. more = methods
    BY <1>6
  <2> QED
    BY <1>2, <1>4, <2>1
<1> QED
  BY <1>5, <1>6
-----------------------------------------------------------------------------
(***************************************************************************)
(* The labels of a session.                                                *)
(***************************************************************************)
LEMMA OptionalField ==
  ASSUME NEW option, IsOption(option), NEW name,
         \A x \in option : IsOptionalText(x[name])
  PROVE  IsOptionalText(Field(option, name))
<1>1. CASE option = {}
  BY <1>1 DEF IsOptionalText, IsOption, Field
<1>2. CASE option # {}
  <2>1. PICK x \in option : TRUE
    BY <1>2
  <2>2. option = {x}
    BY <2>1 DEF IsOption
  <2>3. Field(option, name) = x[name]
    BY <2>2 DEF Field
  <2> QED
    BY <2>1, <2>3
<1> QED
  BY <1>1, <1>2

\* Everything of a session that is sanitized is an optional text.
LEMMA SessionTexts ==
  ASSUME NEW session, IsSession(session)
  PROVE  /\ IsOptionalText(session.user_name)
         /\ IsOptionalText(session.client)
         /\ IsOptionalText(session.device_name)
         /\ IsOptionalText(session.remote_end_point)
         /\ IsOptionalText(Field(session.now_playing_item, "media_type"))
         /\ IsOptionalText(Field(session.play_state, "play_method"))
<1>1. /\ IsOptionalText(session["user_name"])
      /\ IsOptionalText(session["client"])
      /\ IsOptionalText(session["device_name"])
      /\ IsOptionalText(session["remote_end_point"])
      /\ IsOption(session["now_playing_item"])
      /\ IsOption(session["play_state"])
  BY DEF IsSession
<1>2. /\ \A item \in session.now_playing_item : IsOptionalText(item["media_type"])
      /\ \A state \in session.play_state : IsOptionalText(state["play_method"])
  BY DEF IsSession
<1>3. /\ IsOption(session.now_playing_item) /\ IsOption(session.play_state)
  BY <1>1
<1>4. IsOptionalText(Field(session.now_playing_item, "media_type"))
  BY <1>2, <1>3, OptionalField
<1>5. IsOptionalText(Field(session.play_state, "play_method"))
  BY <1>2, <1>3, OptionalField
<1> QED
  BY <1>1, <1>4, <1>5

LEMMA TranscodingTexts ==
  ASSUME NEW session, IsSession(session)
  PROVE  LET t == Transcoding(session) IN
         /\ IsOption(t)
         /\ IsOptionalText(Field(t, "video_codec"))
         /\ IsOptionalText(Field(t, "audio_codec"))
         /\ Cardinality(Field(t, "hardware_acceleration_type")) \in {0, 1}
         /\ t = {} => Cardinality(Field(t, "hardware_acceleration_type")) = 0
         /\ IsText(OrElse(Field(t, "transcode_reasons"), << >>))
         /\ \A r \in Range(OrElse(Field(t, "transcode_reasons"), << >>)) : IsText(r)
<1> DEFINE t == Transcoding(session)
<1>1. IsOption(session["transcoding_info"])
  BY DEF IsSession
<1>2. t \in SUBSET session["transcoding_info"]
  BY DEF Transcoding
<1>3. \A info \in t :
         /\ IsOptionalText(info["video_codec"])
         /\ IsOptionalText(info["audio_codec"])
         /\ IsOption(info["hardware_acceleration_type"])
         /\ \A reasons \in info["transcode_reasons"] :
               IsText(reasons) /\ \A r \in Range(reasons) : IsText(r)
  BY <1>2 DEF IsSession
<1> HIDE DEF t
<1>4. IsOption(t)
  BY <1>1, <1>2 DEF IsOption
<1>5. IsOptionalText(Field(t, "video_codec")) /\ IsOptionalText(Field(t, "audio_codec"))
  BY <1>3, <1>4, OptionalField
<1>6. IsOption(Field(t, "hardware_acceleration_type"))
      /\ (t = {} => Field(t, "hardware_acceleration_type") = {})
  BY <1>3, <1>4 DEF IsOption, Field
<1>7. \A reasons \in Field(t, "transcode_reasons") :
         IsText(reasons) /\ \A r \in Range(reasons) : IsText(r)
  BY <1>3 DEF Field
<1>8. IsText(<< >>) /\ \A r \in Range(<< >>) : IsText(r)
  BY DEF IsText, Range
<1>9. \/ OrElse(Field(t, "transcode_reasons"), << >>) = << >>
      \/ OrElse(Field(t, "transcode_reasons"), << >>) \in Field(t, "transcode_reasons")
  BY DEF OrElse
<1> QED
  BY <1>4, <1>5, <1>6, <1>7, <1>8, <1>9, OptionSize DEF t

LEMMA FixedLabels == IsClean(<<"video">>) /\ IsClean(<<"audio">>)
<1>1. "video" \notin White /\ "video" # Tab /\ "audio" \notin White /\ "audio" # Tab
  BY DEF White, Space, Tab, Wide
<1> QED
  BY <1>1, SanitizeAssumption DEF IsClean

LEMMA ChildSet ==
  ASSUME NEW gauge, NEW labels, NEW v
  PROVE  DOMAIN SetChild(gauge, labels, v) \in SUBSET (DOMAIN gauge \cup {labels})
BY DEF SetChild

LEMMA ChildrenSet ==
  ASSUME NEW gauge, NEW labels, NEW option
  PROVE  DOMAIN SetIfSome(gauge, labels, option) \in SUBSET (DOMAIN gauge \cup {labels})
BY ChildSet DEF SetIfSome

\* The labels that a visit adds to a gauge are clean.
LEMMA ShownLabels ==
  ASSUME NEW gauge, NEW session, IsSession(session), NEW name \in Overlaid
  PROVE  \A l \in DOMAIN Shown(name, gauge, session) \ DOMAIN gauge :
            \A k \in DOMAIN l : IsClean(l[k]) \/ (name = "stream_bitrate" /\ k = 2)
<1> DEFINE user == sanitize_label(session.user_name)
<1> DEFINE client == sanitize_label(session.client)
<1> DEFINE device == sanitize_label(session.device_name)
<1> DEFINE method == PlayMethod(session)
<1> DEFINE media == sanitize_label(Field(session.now_playing_item, "media_type"))
<1> DEFINE remote == sanitize_label(session.remote_end_point)
<1>1. /\ IsClean(user) /\ IsClean(client) /\ IsClean(device) /\ IsClean(method)
      /\ IsClean(media) /\ IsClean(remote)
  BY SessionTexts, SanitizedIsClean DEF IsOptionalText, PlayMethod
<1>2. SessionLabels(session) = <<user, client, method, device>>
  BY DEF SessionLabels
<1>3. CASE name = "sessions_active"
  <2>1. Shown(name, gauge, session) = SetChild(gauge, <<user, client, method, device>>, 1)
    BY <1>2, <1>3 DEF Shown
  <2> HIDE DEF user, client, device, method
  <2>2. DOMAIN Shown(name, gauge, session)
           \in SUBSET (DOMAIN gauge \cup {<<user, client, method, device>>})
    BY <2>1, ChildSet
  <2> QED
    BY <1>1, <2>2
<1>4. CASE name = "session_paused"
  <2>1. Shown(name, gauge, session) =
           SetChild(gauge, <<user, client, device>>,
                    OrElse(Flag(Field(session.play_state, "is_paused")), 0))
    BY <1>2, <1>4 DEF Shown
  <2> HIDE DEF user, client, device
  <2>2. DOMAIN Shown(name, gauge, session)
           \in SUBSET (DOMAIN gauge \cup {<<user, client, device>>})
    BY <2>1, ChildSet
  <2> QED
    BY <1>1, <2>2
<1>5. CASE name = "session_play_position_seconds"
  <2>1. Shown(name, gauge, session) =
           SetIfSome(gauge, <<user, media>>, PositionSeconds(session))
    BY <1>5 DEF Shown
  <2> HIDE DEF user, media
  <2>2. DOMAIN Shown(name, gauge, session) \in SUBSET (DOMAIN gauge \cup {<<user, media>>})
    BY <2>1, ChildrenSet
  <2> QED
    BY <1>1, <2>2
<1>6. CASE name = "session_remote_address"
  <2>1. \/ Shown(name, gauge, session) = SetChild(gauge, <<user, remote>>, 1)
        \/ Shown(name, gauge, session) = gauge
    BY <1>6 DEF Shown
  <2> HIDE DEF user, remote
  <2>2. DOMAIN Shown(name, gauge, session) \in SUBSET (DOMAIN gauge \cup {<<user, remote>>})
    BY <2>1, ChildSet
  <2> QED
    BY <1>1, <2>2
<1>7. CASE name = "stream_bitrate"
  <2>1. \/ Shown(name, gauge, session) =
              SetChild(gauge, <<user, MediaType(session)>>, Bitrate(session))
        \/ Shown(name, gauge, session) = gauge
    BY <1>7 DEF Shown
  <2> HIDE DEF user
  <2>2. DOMAIN Shown(name, gauge, session)
           \in SUBSET (DOMAIN gauge \cup {<<user, MediaType(session)>>})
    BY <2>1, ChildSet
  <2> QED
    BY <1>1, <1>7, <2>2
<1>8. CASE name = "transcode_completion"
  <2>1. Shown(name, gauge, session) =
           SetIfSome(gauge, <<user>>,
                     Field(Transcoding(session), "completion_percentage"))
    BY <1>8 DEF Shown
  <2> HIDE DEF user
  <2>2. DOMAIN Shown(name, gauge, session) \in SUBSET (DOMAIN gauge \cup {<<user>>})
    BY <2>1, ChildrenSet
  <2> QED
    BY <1>1, <2>2
<1>9. CASE name = "stream_direct"
  <2> DEFINE one == SetIfSome(gauge, <<user, <<"video">> >>,
                              StreamIsDirect(session, "is_video_direct"))
  <2>1. Shown(name, gauge, session) =
           SetIfSome(one, <<user, <<"audio">> >>,
                     StreamIsDirect(session, "is_audio_direct"))
    BY <1>9 DEF Shown
  <2>2. DOMAIN one \in SUBSET (DOMAIN gauge \cup {<<user, <<"video">> >>})
    <3> HIDE DEF user
    <3> QED
      BY ChildrenSet
  <2> HIDE DEF user, one
  <2>3. DOMAIN Shown(name, gauge, session) \in SUBSET (DOMAIN one \cup {<<user, <<"audio">> >>})
    BY <2>1, ChildrenSet
  <2> DEFINE video == <<"video">>
  <2> DEFINE audio == <<"audio">>
  <2>4. /\ DOMAIN Shown(name, gauge, session) \ DOMAIN gauge
              \in SUBSET {<<user, video>>, <<user, audio>>}
        /\ IsClean(video) /\ IsClean(audio)
    BY <2>2, <2>3, FixedLabels
  <2> HIDE DEF video, audio
  <2> QED
    BY <1>1, <2>4
<1> QED
  BY <1>3, <1>4, <1>5, <1>6, <1>7, <1>8, <1>9 DEF Overlaid

\* Two sessions with clean names and the same labels have the same names.
LEMMA CleanNamesShow ==
  ASSUME NEW s, IsSession(s), HasCleanNames(s), NEW u, IsSession(u), HasCleanNames(u),
         SessionLabels(s) = SessionLabels(u)
  PROVE  Names(s) = Names(u)
<1>1. ASSUME NEW x, IsOptionalText(x), NEW y, IsOptionalText(y),
             \A text \in x \cup y :
                IsClean(text) /\ text[Len(text)] \notin White /\ text # Unknown,
             sanitize_label(x) = sanitize_label(y)
      PROVE  x = y
  <2>1. sanitize_label({}) = Unknown
    <3>1. OrElse({}, << >>) = << >>
      BY DEF OrElse
    <3>2. Trim(<< >>) = << >>
      BY DEF Trim
    <3> QED
      BY <3>1, <3>2 DEF sanitize_label
  <2>2. \A text \in x \cup y : sanitize_label({text}) = text /\ text # Unknown
    BY <1>1, CleanStays DEF IsOptionalText
  <2>3. \A text \in x : x = {text}
    BY <1>1 DEF IsOptionalText, IsOption
  <2>4. \A text \in y : y = {text}
    BY <1>1 DEF IsOptionalText, IsOption
  <2>5. CASE x = {}
    <3>1. ASSUME NEW text \in y PROVE FALSE
      BY <1>1, <2>1, <2>2, <2>4, <2>5, <3>1
    <3> QED
      BY <2>5, <3>1
  <2>6. CASE y = {}
    <3>1. ASSUME NEW text \in x PROVE FALSE
      BY <1>1, <2>1, <2>2, <2>3, <2>6, <3>1
    <3> QED
      BY <2>6, <3>1
  <2>7. ASSUME NEW a \in x, NEW b \in y PROVE x = y
    <3>1. x = {a} /\ y = {b} /\ sanitize_label({a}) = a /\ sanitize_label({b}) = b
      BY <2>2, <2>3, <2>4
    <3> QED
      BY <1>1, <3>1
  <2> QED
    BY <2>5, <2>6, <2>7
<1> DEFINE method(v) == Field(v.play_state, "play_method")
<1>2. \A v : IsSession(v) /\ HasCleanNames(v) =>
         /\ IsOptionalText(v.user_name) /\ IsOptionalText(v.client)
         /\ IsOptionalText(method(v)) /\ IsOptionalText(v.device_name)
         /\ \A text \in v.user_name \cup v.client \cup method(v) \cup v.device_name :
               IsClean(text) /\ text[Len(text)] \notin White /\ text # Unknown
  <2> SUFFICES ASSUME NEW v, IsSession(v), HasCleanNames(v)
               PROVE  /\ IsOptionalText(v.user_name) /\ IsOptionalText(v.client)
                      /\ IsOptionalText(method(v)) /\ IsOptionalText(v.device_name)
                      /\ \A text \in v.user_name \cup v.client \cup method(v) \cup v.device_name :
                            IsClean(text) /\ text[Len(text)] \notin White /\ text # Unknown
    OBVIOUS
  <2>1. {v.user_name, v.client, method(v), v.device_name} \in SUBSET Range(Names(v))
    <3>1. Names(v) = <<v.user_name, v.client, method(v), v.device_name>>
      BY DEF Names
    <3>2. /\ DOMAIN Names(v) = 1 .. 4
          /\ Names(v)[1] = v.user_name /\ Names(v)[2] = v.client
          /\ Names(v)[3] = method(v) /\ Names(v)[4] = v.device_name
      BY <3>1
    <3>3. 1 \in 1 .. 4 /\ 2 \in 1 .. 4 /\ 3 \in 1 .. 4 /\ 4 \in 1 .. 4
      OBVIOUS
    <3> QED
      BY <3>2, <3>3 DEF Range
  <2>2. \A name \in Range(Names(v)) : \A text \in name :
           IsClean(text) /\ text[Len(text)] \notin White /\ text # Unknown
    BY DEF HasCleanNames
  <2> QED
    BY <2>1, <2>2, SessionTexts
<1>3. /\ sanitize_label(s.user_name) = sanitize_label(u.user_name)
      /\ sanitize_label(s.client) = sanitize_label(u.client)
      /\ sanitize_label(method(s)) = sanitize_label(method(u))
      /\ sanitize_label(s.device_name) = sanitize_label(u.device_name)
  BY DEF SessionLabels, PlayMethod
<1>4. s.user_name = u.user_name
  BY <1>1, <1>2, <1>3
<1>5. s.client = u.client
  BY <1>1, <1>2, <1>3
<1>6. method(s) = method(u)
  <2> HIDE DEF method
  <2> QED
    BY <1>1, <1>2, <1>3
<1>7. s.device_name = u.device_name
  BY <1>1, <1>2, <1>3
<1> QED
  BY <1>4, <1>5, <1>6, <1>7 DEF Names
-----------------------------------------------------------------------------
(***************************************************************************)
(* The inductive invariant.  The loop has visited the first sessions of    *)
(* the response: for those, and for no other, the gauges are overlaid, and *)
(* the transcodes, methods and reasons are counted.                        *)
(***************************************************************************)
Visited == Len(response) - Len(rest)

LoopInv ==
    /\ phase \in {"idle", "looping", "published", "blank"}
    /\ response \in Seq(Range(response))
    /\ \A s \in Range(response) : IsSession(s)
    /\ rest \in Seq(Range(rest)) /\ Len(rest) <= Len(response)
    /\ \A i \in 1 .. Len(rest) : rest[i] = response[Visited + i]
    /\ phase # "looping" => rest = << >>
    /\ DOMAIN gauges = GaugeNames

\* The sessions of the response, by their positions, that have transcoding
\* information, that have a play method, and that give a reason.
WithInfo == {i \in DOMAIN response : Transcoding(response[i]) # {}}
OfMethod(method) == {i \in DOMAIN response : <<PlayMethod(response[i])>> = method}
Reasons(session) == OrElse(Field(Transcoding(session), "transcode_reasons"), << >>)
Giving(reason) ==
    {i \in DOMAIN response :
        \E r \in Range(Reasons(response[i])) : <<sanitize_label({r})>> = reason}

\* How many of the sessions visited are in X.
Seen(X) == Cardinality((1 .. Visited) \cap X)

\* The children of a gauge that each session of the response has alone.
Children(name) == [i \in DOMAIN response |-> Alone(response[i])[name]]

GaugeInv ==
    /\ \A name \in Overlaid : gauges[name] = Overlay(Children(name), Visited)
    /\ IsCounter(gauges["transcodes_active"])
    /\ SumFunction(gauges["transcodes_active"]) = Seen(WithInfo)

Counting == phase \in {"looping", "published"}

TallyInv ==
    Counting =>
        /\ gauges["sessions_active_count"] = Len(response)
        /\ tally.hw \in Nat /\ tally.hw <= Seen(WithInfo)
        /\ tally.methods \in [Methods -> Nat]
        /\ \A method \in Methods : tally.methods[method] = Seen(OfMethod(method))
        /\ SumFunction(tally.methods) <= Visited
        /\ IsCounter(tally.reasons)
        /\ \A reason : At(tally.reasons, reason) >= Seen(Giving(reason))

PublishedInv ==
    phase = "published" =>
        /\ gauges["transcode_reason_sessions"] = tally.reasons
        /\ gauges["transcode_hw_accelerated"] = tally.hw
        /\ gauges["play_method_sessions"] = tally.methods

LabelInv ==
    /\ LabelsAreClean
    /\ Counting =>
          \A reason \in DOMAIN tally.reasons : \A k \in DOMAIN reason : IsClean(reason[k])

IInv == LoopInv /\ GaugeInv /\ TallyInv /\ PublishedInv /\ LabelInv
-----------------------------------------------------------------------------
(***************************************************************************)
(* Before the loop has visited anything.                                   *)
(***************************************************************************)
NothingShown(g) ==
    /\ DOMAIN g = GaugeNames
    /\ \A name \in Overlaid : g[name] = NoChildren
    /\ g["transcodes_active"] = NoChildren
    /\ g["transcode_reason_sessions"] = NoChildren

LEMMA BlankShowsNothing ==
  /\ NothingShown(Blank)
  /\ \A n : /\ NothingShown([Blank EXCEPT !.sessions_active_count = n])
            /\ [Blank EXCEPT !.sessions_active_count = n]["sessions_active_count"] = n
<1> DEFINE Others == Overlaid \cup {"transcodes_active", "transcode_reason_sessions"}
<1>1. "sessions_active_count" \in GaugeNames \ Others /\ Others \in SUBSET GaugeNames
  BY DEF GaugeNames, Overlaid
<1>2. NothingShown(Blank)
  BY BlankGauges DEF NothingShown
<1>3. ASSUME NEW n
      PROVE  /\ NothingShown([Blank EXCEPT !.sessions_active_count = n])
             /\ [Blank EXCEPT !.sessions_active_count = n]["sessions_active_count"] = n
  <2> DEFINE b == [Blank EXCEPT !.sessions_active_count = n]
  <2>1. /\ DOMAIN b = GaugeNames /\ b["sessions_active_count"] = n
        /\ \A name \in Others : b[name] = Blank[name]
    BY <1>1, BlankGauges
  <2> HIDE DEF b
  <2>2. NothingShown(b)
    BY <1>2, <2>1 DEF NothingShown
  <2> QED
    BY <2>1, <2>2 DEF b
<1> QED
  BY <1>2, <1>3

LEMMA NothingSeen ==
  Visited = 0 /\ NothingShown(gauges) => GaugeInv /\ LabelsAreClean
<1> SUFFICES ASSUME Visited = 0, NothingShown(gauges)
             PROVE  GaugeInv /\ LabelsAreClean
  OBVIOUS
<1>1. \A name \in Overlaid : gauges[name] = Overlay(Children(name), Visited)
  BY OverlayOfNone DEF NothingShown
<1>2. Seen(WithInfo) = 0
  BY CountNext DEF Seen
<1>3. GaugeInv
  BY <1>1, <1>2, NothingCounted DEF GaugeInv, NothingShown
<1>4. \A name \in Overlaid \cup {"transcodes_active", "transcode_reason_sessions"} :
         DOMAIN gauges[name] = {}
  BY NothingCounted DEF NothingShown
<1>5. LabelsAreClean
  BY <1>4 DEF LabelsAreClean
<1> QED
  BY <1>3, <1>5

LEMMA InitInv == Init => IInv
<1> SUFFICES ASSUME Init PROVE IInv
  OBVIOUS
<1>1. /\ phase = "idle" /\ rest = << >> /\ response = << >> /\ gauges = Blank
  BY DEF Init
<1>2. Visited = 0 /\ NothingShown(gauges)
  BY <1>1, BlankShowsNothing DEF Visited
<1>3. LoopInv
  BY <1>1, <1>2 DEF LoopInv, NothingShown, Range
<1>4. GaugeInv /\ LabelsAreClean
  BY <1>2, NothingSeen
<1> QED
  BY <1>1, <1>3, <1>4 DEF IInv, TallyInv, PublishedInv, LabelInv, Counting

LEMMA NoSessionsKeeps == IInv /\ NoSessions => IInv'
<1> SUFFICES ASSUME IInv, NoSessions PROVE IInv'
  OBVIOUS
<1>1. /\ phase' = "blank" /\ rest' = << >> /\ response' = << >> /\ gauges' = Blank
  BY DEF IInv, LoopInv, NoSessions, ResetSessionGauges
<1>2. (Visited = 0)' /\ NothingShown(gauges')
  BY <1>1, BlankShowsNothing DEF Visited
<1>3. LoopInv'
  BY <1>1, <1>2 DEF LoopInv, NothingShown, Range
<1>4. (GaugeInv /\ LabelsAreClean)'
  <2>1. (Visited = 0 /\ NothingShown(gauges))'
    BY <1>2 DEF NothingShown
  <2> QED
    BY <2>1, NothingSeen, PTL
<1> QED
  BY <1>1, <1>3, <1>4 DEF IInv, TallyInv, PublishedInv, LabelInv, Counting

LEMMA BeginLoopKeeps ==
  ASSUME NEW sessions \in Responses
  PROVE  IInv /\ BeginLoop(sessions) => IInv'
<1> SUFFICES ASSUME IInv, BeginLoop(sessions) PROVE IInv'
  OBVIOUS
<1> DEFINE active == FoldLeft(PushActive, << >>, sessions)
<1>1. /\ phase' = "looping" /\ rest' = active /\ response' = active
      /\ gauges' = [Blank EXCEPT !.sessions_active_count = Len(active)]
      /\ tally' = NoTally
  BY DEF BeginLoop, ResetSessionGauges
<1>2. sessions \in Seq(Range(sessions)) /\ \A s \in Range(sessions) : IsSession(s)
  BY SessionAssumption
<1>3. active \in Seq({s \in Range(sessions) : IsActive(s)})
  BY <1>2, ActiveSessions
<1> HIDE DEF active
<1>4. /\ Len(active) \in Nat /\ DOMAIN active = 1 .. Len(active)
      /\ active \in Seq(Range(active))
      /\ \A s \in Range(active) : IsSession(s)
  BY <1>2, <1>3 DEF Range
<1>5. /\ Visited' = 0 /\ NothingShown(gauges')
      /\ gauges'["sessions_active_count"] = Len(active)
  <2>1. Visited' = 0
    BY <1>1, <1>4 DEF Visited
  <2> QED
    BY <1>1, <2>1, BlankShowsNothing
<1>6. LoopInv'
  <2>1. \A i \in 1 .. Len(active) : 0 + i = i
    BY <1>4
  <2> QED
    BY <1>1, <1>4, <1>5, <2>1 DEF LoopInv, NothingShown
<1>7. (GaugeInv /\ LabelsAreClean)'
  <2>1. (Visited = 0 /\ NothingShown(gauges))'
    BY <1>5 DEF NothingShown
  <2> QED
    BY <2>1, NothingSeen, PTL
<1>8. \A X : Cardinality((1 .. Visited') \cap X) = 0
  BY <1>5, CountNext
<1>9. /\ tally'.hw = 0 /\ tally'.reasons = NoChildren
      /\ tally'.methods = [m \in Methods |-> 0]
  BY <1>1 DEF NoTally
<1>10. TallyInv'
  <2>1. \A reason : At(tally'.reasons, reason) = 0
    BY <1>9, NothingCounted DEF At
  <2>2. SumFunction(tally'.methods) = 0
    BY <1>9, MethodsToCount
  <2>3. IsCounter(tally'.reasons)
    BY <1>9, NothingCounted
  <2>4. /\ Seen(WithInfo)' = 0
        /\ \A X : Seen(OfMethod(X))' = 0 /\ Seen(Giving(X))' = 0
    BY <1>8 DEF Seen
  <2>5. \A method \in Methods : tally'.methods[method] = 0
    BY <1>9
  <2>6. tally'.methods \in [Methods -> Nat]
    BY <1>9
  <2>7. /\ gauges'["sessions_active_count"] = Len(response')
        /\ tally'.hw \in Nat /\ tally'.hw <= 0 /\ SumFunction(tally'.methods) <= 0
    BY <1>1, <1>5, <1>9, <2>2
  <2> QED
    BY <1>5, <2>1, <2>3, <2>4, <2>5, <2>6, <2>7 DEF TallyInv
<1>11. \A reason \in DOMAIN tally'.reasons : \A k \in DOMAIN reason : IsClean(reason[k])
  BY <1>9, NothingCounted
<1> QED
  BY <1>1, <1>6, <1>7, <1>10, <1>11 DEF IInv, PublishedInv, LabelInv

LEMMA PublishKeeps == IInv /\ PublishTally => IInv'
<1> SUFFICES ASSUME IInv, PublishTally PROVE IInv'
  OBVIOUS
<1>1. /\ phase = "looping" /\ rest = << >> /\ phase' = "published"
      /\ rest' = rest /\ tally' = tally /\ response' = response
  BY DEF PublishTally
<1>2. /\ DOMAIN gauges' = GaugeNames
      /\ gauges'["transcode_reason_sessions"] = tally.reasons
      /\ gauges'["transcode_hw_accelerated"] = tally.hw
      /\ gauges'["play_method_sessions"] = tally.methods
      /\ gauges'["sessions_active_count"] = gauges["sessions_active_count"]
      /\ gauges'["transcodes_active"] = gauges["transcodes_active"]
      /\ \A name \in Overlaid : gauges'[name] = gauges[name]
  BY DEF PublishTally, IInv, LoopInv, GaugeNames, Overlaid
<1>3. /\ Visited' = Visited /\ WithInfo' = WithInfo
      /\ \A x : OfMethod(x)' = OfMethod(x) /\ Giving(x)' = Giving(x)
      /\ \A name : Children(name)' = Children(name)
  BY <1>1 DEF Visited, WithInfo, OfMethod, Giving, Children
<1>4. LoopInv'
  BY <1>1, <1>2, <1>3 DEF IInv, LoopInv
<1>5. GaugeInv'
  BY <1>2, <1>3 DEF IInv, GaugeInv, Seen
<1>6. TallyInv'
  BY <1>1, <1>2, <1>3 DEF IInv, TallyInv, Counting, Seen
<1>7. PublishedInv'
  BY <1>1, <1>2 DEF PublishedInv
<1>8. LabelInv'
  <2>1. \A reason \in DOMAIN tally.reasons : \A k \in DOMAIN reason : IsClean(reason[k])
    BY <1>1 DEF IInv, LabelInv, Counting
  <2>2. LabelsAreClean'
    BY <1>2, <2>1 DEF IInv, LabelInv, LabelsAreClean
  <2> QED
    BY <1>1, <2>1, <2>2 DEF LabelInv
<1> QED
  BY <1>4, <1>5, <1>6, <1>7, <1>8 DEF IInv
-----------------------------------------------------------------------------
(***************************************************************************)
(* One turn of the loop.                                                   *)
(***************************************************************************)
Turn == Visited + 1

LEMMA VisitMoves ==
  ASSUME LoopInv, Visit
  PROVE  /\ Visited \in Nat /\ Visited' = Turn /\ Turn \in DOMAIN response
         /\ IsSession(response[Turn])
         /\ phase = "looping" /\ phase' = "looping" /\ response' = response
         /\ gauges' = VisitGauges(gauges, response[Turn])
         /\ tally' = VisitTally(tally, response[Turn])
         /\ WithInfo' = WithInfo
         /\ \A x : OfMethod(x)' = OfMethod(x) /\ Giving(x)' = Giving(x)
         /\ \A name : Children(name)' = Children(name)
         /\ \A X : /\ Cardinality((1 .. Visited) \cap X) \in Nat
                   /\ Cardinality((1 .. Visited') \cap X) =
                         Cardinality((1 .. Visited) \cap X) + IF Turn \in X THEN 1 ELSE 0
         /\ LoopInv'
<1>1. /\ phase = "looping" /\ rest # << >> /\ phase' = "looping" /\ response' = response
      /\ rest' = Tail(rest)
      /\ gauges' = VisitGauges(gauges, Head(rest))
      /\ tally' = VisitTally(tally, Head(rest))
  BY DEF Visit
<1>2. /\ rest \in Seq(Range(rest)) /\ Len(rest) <= Len(response)
      /\ response \in Seq(Range(response))
      /\ \A i \in 1 .. Len(rest) : rest[i] = response[Visited + i]
  BY DEF LoopInv
<1>3. /\ Len(rest) \in Nat \ {0} /\ Len(response) \in Nat
      /\ DOMAIN response = 1 .. Len(response)
      /\ Head(rest) = rest[1] /\ Len(rest') = Len(rest) - 1
      /\ \A i \in 1 .. Len(rest) - 1 : rest'[i] = rest[i + 1]
  BY <1>1, <1>2
<1>4. /\ Visited \in Nat /\ Visited' = Turn /\ Turn \in DOMAIN response
  BY <1>1, <1>2, <1>3 DEF Visited, Turn
<1>5. Head(rest) = response[Turn]
  BY <1>2, <1>3 DEF Turn
<1>6. response[Turn] \in Range(response) /\ IsSession(response[Turn])
  BY <1>4 DEF Range, LoopInv
<1>7. /\ WithInfo' = WithInfo
      /\ \A x : OfMethod(x)' = OfMethod(x) /\ Giving(x)' = Giving(x)
      /\ \A name : Children(name)' = Children(name)
  BY <1>1 DEF WithInfo, OfMethod, Giving, Children
<1>8. \A X : /\ Cardinality((1 .. Visited) \cap X) \in Nat
             /\ Cardinality((1 .. Visited') \cap X) =
                   Cardinality((1 .. Visited) \cap X) + IF Turn \in X THEN 1 ELSE 0
  BY <1>4, CountNext DEF Turn
<1>9. DOMAIN gauges' = GaugeNames
  BY <1>1, VisitedGauges DEF LoopInv
<1>10. rest' \in Seq(Range(rest'))
  <2>1. rest' \in Seq(Range(rest))
    BY <1>1, <1>2
  <2>2. DOMAIN rest' = 1 .. Len(rest') /\ Len(rest') \in Nat
    BY <2>1
  <2>3. \A i \in 1 .. Len(rest') : rest'[i] \in Range(rest')
    BY <2>2 DEF Range
  <2> QED
    BY <2>1, <2>3, SeqDef
<1>11. \A i \in 1 .. Len(rest') : rest'[i] = response'[Visited' + i]
  <2> SUFFICES ASSUME NEW i \in 1 .. Len(rest') PROVE rest'[i] = response'[Visited' + i]
    OBVIOUS
  <2>1. i \in 1 .. Len(rest) - 1 /\ i + 1 \in 1 .. Len(rest)
    BY <1>3
  <2>2. Visited + (i + 1) = Visited' + i
    BY <1>4, <2>1 DEF Turn
  <2> QED
    BY <1>1, <1>2, <1>3, <2>1, <2>2
<1>12. LoopInv'
  BY <1>1, <1>2, <1>3, <1>9, <1>10, <1>11 DEF LoopInv
<1> QED
  BY <1>1, <1>4, <1>5, <1>6, <1>7, <1>8, <1>12

LEMMA VisitKeepsGauges == IInv /\ Visit => GaugeInv'
<1> SUFFICES ASSUME IInv, Visit PROVE GaugeInv'
  OBVIOUS
<1> DEFINE s == response[Turn]
<1> DEFINE g == gauges
<1>1. /\ Visited \in Nat /\ Visited' = Visited + 1 /\ Turn \in DOMAIN response
      /\ IsSession(s) /\ gauges' = VisitGauges(gauges, s)
      /\ WithInfo' = WithInfo
      /\ \A name : Children(name)' = Children(name)
      /\ \A X : /\ Cardinality((1 .. Visited) \cap X) \in Nat
                /\ Cardinality((1 .. Visited') \cap X) =
                      Cardinality((1 .. Visited) \cap X) + IF Turn \in X THEN 1 ELSE 0
  BY VisitMoves DEF IInv, Turn
<1>2. DOMAIN gauges = GaugeNames
  BY DEF IInv, LoopInv
<1>3. ASSUME NEW name \in Overlaid
      PROVE  gauges'[name] = Overlay(Children(name), Visited + 1)
  <2>1. gauges[name] = Overlay(Children(name), Visited)
    BY DEF IInv, GaugeInv
  <2>2. gauges[name] = [l \in DOMAIN gauges[name] |-> gauges[name][l]]
    BY <2>1 DEF Overlay
  <2>3. gauges'[name] = Over(Alone(s)[name], gauges[name])
    BY <1>1, <1>2, <2>2, VisitOverlays
  <2>4. Children(name)[Visited + 1] = Alone(s)[name]
    BY <1>1 DEF Children, Turn
  <2>5. Overlay(Children(name), Visited + 1) =
           Over(Children(name)[Visited + 1], Overlay(Children(name), Visited))
    BY <1>1, OverlayOfOneMore
  <2> QED
    BY <2>1, <2>3, <2>4, <2>5
<1>4. \A name \in Overlaid : gauges'[name] = Overlay(Children(name)', Visited')
  BY <1>1, <1>3
<1>5. gauges'["transcodes_active"] = CountCodecs(gauges["transcodes_active"], Transcoding(s))
  BY <1>1, <1>2, VisitedGauges
<1>6. /\ IsCounter(gauges["transcodes_active"])
      /\ SumFunction(gauges["transcodes_active"]) = Cardinality((1 .. Visited) \cap WithInfo)
  BY DEF IInv, GaugeInv, Seen
<1>7. /\ IsCounter(gauges'["transcodes_active"])
      /\ SumFunction(gauges'["transcodes_active"]) = Cardinality((1 .. Visited') \cap WithInfo)
  <2>1. CASE Transcoding(s) = {}
    <3>1. gauges'["transcodes_active"] = gauges["transcodes_active"]
      BY <1>5, <2>1 DEF CountCodecs
    <3>2. Turn \notin WithInfo
      BY <2>1 DEF WithInfo
    <3> QED
      BY <1>1, <1>6, <3>1, <3>2
  <2>2. CASE Transcoding(s) # {}
    <3>1. gauges'["transcodes_active"] = Inc(gauges["transcodes_active"], Codecs(Transcoding(s)))
      BY <1>5, <2>2 DEF CountCodecs
    <3>2. Turn \in WithInfo
      BY <1>1, <2>2 DEF WithInfo
    <3>3. /\ IsCounter(gauges'["transcodes_active"])
          /\ SumFunction(gauges'["transcodes_active"]) =
                SumFunction(gauges["transcodes_active"]) + 1
      BY <1>6, <3>1, IncCounts, IncSums
    <3> QED
      BY <1>1, <1>6, <3>2, <3>3
  <2> QED
    BY <2>1, <2>2
<1> QED
  BY <1>1, <1>4, <1>7 DEF GaugeInv, Seen

LEMMA VisitKeepsTally == IInv /\ Visit => TallyInv'
<1> SUFFICES ASSUME IInv, Visit PROVE TallyInv'
  OBVIOUS
<1> DEFINE s == response[Turn]
<1>1. /\ Visited \in Nat /\ Visited' = Visited + 1 /\ Turn \in DOMAIN response
      /\ IsSession(s) /\ phase = "looping" /\ response' = response
      /\ gauges' = VisitGauges(gauges, s) /\ tally' = VisitTally(tally, s)
      /\ WithInfo' = WithInfo
      /\ \A x : OfMethod(x)' = OfMethod(x) /\ Giving(x)' = Giving(x)
  BY VisitMoves DEF IInv, Turn
<1>2. \A X : /\ Cardinality((1 .. Visited) \cap X) \in Nat
             /\ Cardinality((1 .. Visited') \cap X) =
                   Cardinality((1 .. Visited) \cap X) + IF Turn \in X THEN 1 ELSE 0
  BY VisitMoves DEF IInv
<1>3. /\ gauges["sessions_active_count"] = Len(response)
      /\ tally.hw \in Nat /\ tally.hw <= Seen(WithInfo)
      /\ tally.methods \in [Methods -> Nat]
      /\ \A method \in Methods : tally.methods[method] = Seen(OfMethod(method))
      /\ SumFunction(tally.methods) <= Visited
      /\ IsCounter(tally.reasons)
      /\ \A reason : At(tally.reasons, reason) >= Seen(Giving(reason))
  BY <1>1 DEF IInv, TallyInv, Counting
<1>4. gauges'["sessions_active_count"] = Len(response')
  BY <1>1, <1>3, VisitedGauges DEF IInv, LoopInv
<1>5. /\ tally'.methods = [m \in Methods |->
                             tally.methods[m] + IF m = <<PlayMethod(s)>> THEN 1 ELSE 0]
      /\ tally'.hw = tally.hw
                     + Cardinality(Field(Transcoding(s), "hardware_acceleration_type"))
      /\ tally'.reasons = CountReasons(tally.reasons, Reasons(s))
  BY <1>1 DEF VisitTally, Accelerated, Reasons
<1>6. tally'.hw \in Nat /\ tally'.hw <= Cardinality((1 .. Visited') \cap WithInfo)
  <2> DEFINE n == Cardinality(Field(Transcoding(s), "hardware_acceleration_type"))
  <2> DEFINE before == Cardinality((1 .. Visited) \cap WithInfo)
  <2> DEFINE after == Cardinality((1 .. Visited') \cap WithInfo)
  <2>1. n \in {0, 1} /\ (Transcoding(s) = {} => n = 0)
    BY <1>1, TranscodingTexts
  <2>2. Turn \in WithInfo <=> Transcoding(s) # {}
    BY <1>1 DEF WithInfo
  <2>3. before \in Nat /\ after = before + IF Turn \in WithInfo THEN 1 ELSE 0
    BY <1>2
  <2>4. tally.hw \in Nat /\ tally.hw <= before /\ tally'.hw = tally.hw + n
    BY <1>3, <1>5 DEF Seen
  <2> HIDE DEF n, before, after
  <2>5. tally'.hw \in Nat /\ tally'.hw <= after
    BY <2>1, <2>2, <2>3, <2>4
  <2> QED
    BY <2>5 DEF after
<1>7. /\ tally'.methods \in [Methods -> Nat]
      /\ SumFunction(tally'.methods) <= Visited'
  <2>1. /\ tally'.methods \in [Methods -> Nat]
        /\ SumFunction(tally.methods) \in Nat
        /\ SumFunction(tally'.methods) \in Nat
        /\ SumFunction(tally'.methods) <= SumFunction(tally.methods) + 1
    BY <1>3, <1>5, MethodCounted
  <2> QED
    BY <1>1, <1>3, <2>1
<1>8. ASSUME NEW method \in Methods
      PROVE  tally'.methods[method] = Cardinality((1 .. Visited') \cap OfMethod(method))
  <2>1. Turn \in OfMethod(method) <=> method = <<PlayMethod(s)>>
    BY <1>1 DEF OfMethod
  <2>2. tally'.methods[method] =
           tally.methods[method] + IF method = <<PlayMethod(s)>> THEN 1 ELSE 0
    BY <1>5
  <2> QED
    BY <1>2, <1>3, <2>1, <2>2 DEF Seen
<1>9. IsText(Reasons(s))
  BY <1>1, TranscodingTexts DEF Reasons
<1>10. /\ IsCounter(tally'.reasons)
       /\ \A l : /\ At(tally.reasons, l) \in Nat /\ At(tally'.reasons, l) \in Nat
                 /\ At(tally'.reasons, l) >= At(tally.reasons, l)
                 /\ (\E r \in Range(Reasons(s)) : <<sanitize_label({r})>> = l) =>
                       At(tally'.reasons, l) >= At(tally.reasons, l) + 1
  BY <1>3, <1>5, <1>9, ReasonsCounted
<1>11. ASSUME NEW reason
       PROVE  At(tally'.reasons, reason) >= Cardinality((1 .. Visited') \cap Giving(reason))
  <2>1. Turn \in Giving(reason)
           <=> \E r \in Range(Reasons(s)) : <<sanitize_label({r})>> = reason
    BY <1>1 DEF Giving
  <2>2. At(tally.reasons, reason) >= Cardinality((1 .. Visited) \cap Giving(reason))
    BY <1>3 DEF Seen
  <2>3. At(tally.reasons, reason) \in Nat /\ At(tally'.reasons, reason) \in Nat
    BY <1>10
  <2>4. CASE Turn \in Giving(reason)
    <3>1. At(tally'.reasons, reason) >= At(tally.reasons, reason) + 1
      BY <1>10, <2>1, <2>4
    <3> DEFINE before == Cardinality((1 .. Visited) \cap Giving(reason))
    <3> DEFINE after == Cardinality((1 .. Visited') \cap Giving(reason))
    <3>2. before \in Nat /\ after = before + 1
      BY <1>2, <2>4
    <3>3. At(tally.reasons, reason) >= before
      BY <2>2
    <3> HIDE DEF before, after
    <3>4. At(tally'.reasons, reason) >= after
      BY <2>3, <3>1, <3>2, <3>3
    <3> QED
      BY <3>4 DEF after
  <2>5. CASE Turn \notin Giving(reason)
    <3>1. At(tally'.reasons, reason) >= At(tally.reasons, reason)
      BY <1>10
    <3>2. Cardinality((1 .. Visited') \cap Giving(reason)) =
             Cardinality((1 .. Visited) \cap Giving(reason))
      BY <1>2, <2>5
    <3> QED
      BY <1>2, <2>2, <2>3, <3>1, <3>2
  <2> QED
    BY <2>4, <2>5
<1>12. /\ Seen(WithInfo)' = Cardinality((1 .. Visited') \cap WithInfo)
       /\ \A x : /\ Seen(OfMethod(x))' = Cardinality((1 .. Visited') \cap OfMethod(x))
                 /\ Seen(Giving(x))' = Cardinality((1 .. Visited') \cap Giving(x))
  BY <1>1 DEF Seen
<1> QED
  BY <1>4, <1>6, <1>7, <1>8, <1>10, <1>11, <1>12 DEF TallyInv

LEMMA VisitKeepsLabels == IInv /\ Visit => LabelInv'
<1> SUFFICES ASSUME IInv, Visit PROVE LabelInv'
  OBVIOUS
<1> DEFINE s == response[Turn]
<1>1. /\ Turn \in DOMAIN response /\ IsSession(s) /\ phase = "looping"
      /\ gauges' = VisitGauges(gauges, s) /\ tally' = VisitTally(tally, s)
  BY VisitMoves DEF IInv
<1>2. DOMAIN gauges = GaugeNames
  BY DEF IInv, LoopInv
<1> HIDE DEF s
<1>3. /\ LabelsAreClean
      /\ \A reason \in DOMAIN tally.reasons : \A k \in DOMAIN reason : IsClean(reason[k])
      /\ IsCounter(tally.reasons)
  BY <1>1 DEF IInv, LabelInv, TallyInv, Counting
<1>4. ASSUME NEW name \in Overlaid, NEW l \in DOMAIN gauges'[name], NEW k \in DOMAIN l
      PROVE  IsClean(l[k]) \/ (name = "stream_bitrate" /\ k = 2)
  <2>1. gauges'[name] = Shown(name, gauges[name], s)
    BY <1>1, <1>2, VisitedGauges
  <2>2. CASE l \in DOMAIN gauges[name]
    BY <1>3, <1>4, <2>2 DEF LabelsAreClean
  <2>3. CASE l \notin DOMAIN gauges[name]
    BY <1>1, <1>4, <2>1, <2>3, ShownLabels
  <2> QED
    BY <2>2, <2>3
<1>5. ASSUME NEW l \in DOMAIN gauges'["transcodes_active"], NEW k \in DOMAIN l
      PROVE  IsClean(l[k])
  <2> DEFINE t == Transcoding(s)
  <2>1. gauges'["transcodes_active"] = CountCodecs(gauges["transcodes_active"], t)
    BY <1>1, <1>2, VisitedGauges
  <2>2. IsOptionalText(Field(t, "video_codec")) /\ IsOptionalText(Field(t, "audio_codec"))
    BY <1>1, TranscodingTexts
  <2> HIDE DEF t
  <2>3. CASE l \in DOMAIN gauges["transcodes_active"]
    <3>1. ~("transcodes_active" = "stream_bitrate")
      OBVIOUS
    <3> QED
      BY <1>3, <1>5, <2>3, <3>1 DEF LabelsAreClean
  <2>4. CASE l \notin DOMAIN gauges["transcodes_active"]
    <3>1. l = Codecs(t)
      BY <1>5, <2>1, <2>4, ChildSet DEF CountCodecs, Inc
    <3> DEFINE video == sanitize_codec_label(Field(t, "video_codec"))
    <3> DEFINE audio == sanitize_codec_label(Field(t, "audio_codec"))
    <3>2. IsClean(video) /\ IsClean(audio)
      BY <2>2, SanitizedCodecIsClean DEF IsOptionalText
    <3>3. l = <<video, audio>>
      BY <3>1 DEF Codecs
    <3> HIDE DEF video, audio
    <3> QED
      BY <1>5, <3>2, <3>3
  <2> QED
    BY <2>3, <2>4
<1>6. gauges'["transcode_reason_sessions"] = gauges["transcode_reason_sessions"]
  BY <1>1, <1>2, VisitedGauges
<1>7. LabelsAreClean'
  BY <1>3, <1>4, <1>5, <1>6 DEF LabelsAreClean
<1>8. ASSUME NEW reason \in DOMAIN tally'.reasons, NEW k \in DOMAIN reason
      PROVE  IsClean(reason[k])
  <2>1. tally'.reasons = CountReasons(tally.reasons, Reasons(s))
    BY <1>1 DEF VisitTally, Reasons
  <2>2. IsText(Reasons(s)) /\ \A r \in Range(Reasons(s)) : IsText(r)
    BY <1>1, TranscodingTexts DEF Reasons
  <2>3. CASE reason \in DOMAIN tally.reasons
    BY <1>3, <1>8, <2>3
  <2>4. ASSUME NEW r \in Range(Reasons(s)), <<sanitize_label({r})>> = reason
        PROVE  IsClean(reason[k])
    <3>1. IsClean(sanitize_label({r}))
      BY <2>2, SanitizedIsClean
    <3> QED
      BY <1>8, <2>4, <3>1
  <2>5. reason \in DOMAIN tally.reasons
           \/ \E r \in Range(Reasons(s)) : <<sanitize_label({r})>> = reason
    BY <1>3, <1>8, <2>1, <2>2, ReasonsCounted
  <2> QED
    BY <2>3, <2>4, <2>5
<1> QED
  BY <1>7, <1>8 DEF LabelInv

LEMMA VisitKeeps == IInv /\ Visit => IInv'
<1> SUFFICES ASSUME IInv, Visit PROVE IInv'
  OBVIOUS
<1>1. LoopInv' /\ phase' = "looping"
  BY VisitMoves DEF IInv
<1> QED
  BY <1>1, VisitKeepsGauges, VisitKeepsTally, VisitKeepsLabels DEF IInv, PublishedInv
-----------------------------------------------------------------------------
(***************************************************************************)
(* The theorems.                                                           *)
(***************************************************************************)

\* The invariant holds throughout: what the gauges and the counters of
\* collect_sessions hold is what the sessions visited so far put there.
THEOREM Inductive == Spec => []IInv
<1>1. Init => IInv
  BY InitInv
<1>2. IInv /\ [Next]_vars => IInv'
  <2> SUFFICES ASSUME IInv, [Next]_vars PROVE IInv'
    OBVIOUS
  <2>1. CASE NoSessions
    BY <2>1, NoSessionsKeeps
  <2>2. ASSUME NEW sessions \in Responses, BeginLoop(sessions) PROVE IInv'
    BY <2>2, BeginLoopKeeps
  <2>3. CASE Visit
    BY <2>3, VisitKeeps
  <2>4. CASE PublishTally
    BY <2>4, PublishKeeps
  <2>5. CASE UNCHANGED vars
    <3>1. /\ phase' = phase /\ rest' = rest /\ gauges' = gauges /\ tally' = tally
          /\ response' = response
      BY <2>5 DEF vars
    <3>2. /\ Visited' = Visited /\ WithInfo' = WithInfo
          /\ \A x : OfMethod(x)' = OfMethod(x) /\ Giving(x)' = Giving(x)
          /\ \A name : Children(name)' = Children(name)
      BY <3>1 DEF Visited, WithInfo, OfMethod, Giving, Children
    <3>3. LoopInv'
      BY <3>1, <3>2 DEF IInv, LoopInv
    <3>4. GaugeInv'
      BY <3>1, <3>2 DEF IInv, GaugeInv, Seen
    <3>5. TallyInv'
      BY <3>1, <3>2 DEF IInv, TallyInv, Counting, Seen
    <3>6. PublishedInv' /\ LabelInv'
      BY <3>1 DEF IInv, PublishedInv, LabelInv, LabelsAreClean, Counting
    <3> QED
      BY <3>3, <3>4, <3>5, <3>6 DEF IInv
  <2> QED
    BY <2>1, <2>2, <2>3, <2>4, <2>5 DEF Next
<1> QED
  BY <1>1, <1>2, PTL DEF Spec

\* After the loop every session of the response has been visited.
LEMMA AllVisited ==
  ASSUME LoopInv, phase = "published"
  PROVE  /\ Visited = Len(response) /\ Len(response) \in Nat
         /\ DOMAIN response = 1 .. Visited
         /\ IsFiniteSet(DOMAIN response) /\ Cardinality(DOMAIN response) = Len(response)
         /\ \A i \in DOMAIN response : IsSession(response[i])
         /\ Range(response) = {response[i] : i \in DOMAIN response}
         /\ \A X \in SUBSET DOMAIN response : (1 .. Visited) \cap X = X
<1>1. rest = << >> /\ Len(response) \in Nat /\ DOMAIN response = 1 .. Len(response)
  BY DEF LoopInv
<1>2. Visited = Len(response)
  BY <1>1 DEF Visited
<1>3. Range(response) = {response[i] : i \in DOMAIN response}
  BY DEF Range
<1>4. IsFiniteSet(DOMAIN response) /\ Cardinality(DOMAIN response) = Len(response)
  BY <1>1, FS_Interval
<1> QED
  BY <1>1, <1>2, <1>3, <1>4 DEF LoopInv

\* Each gauge of collect_sessions shows exactly the series of the sessions
\* in the last response, and for a series that several of them share, the
\* value of the one that the loop visits last.
THEOREM ShowsExactlyTheSessions == Spec => []ShowsTheSessions
<1>1. IInv => ShowsTheSessions
  <2> SUFFICES ASSUME IInv, phase = "published", NEW name \in Overlaid
               PROVE  gauges[name] =
                         [labels \in UNION {DOMAIN Alone(s)[name] : s \in Range(response)} |->
                             Alone(LastWith(name, labels))[name][labels]]
    BY DEF ShowsTheSessions
  <2> DEFINE A == Children(name)
  <2> DEFINE n == Visited
  <2> DEFINE With(labels) == {i \in DOMAIN response : labels \in DOMAIN Alone(response[i])[name]}
  <2>1. /\ n \in Nat /\ DOMAIN response = 1 .. n
        /\ Range(response) = {response[i] : i \in DOMAIN response}
    BY AllVisited DEF IInv
  <2>2. gauges[name] = Overlay(A, n)
    BY DEF IInv, GaugeInv
  <2>3. \A i \in 1 .. n : A[i] = Alone(response[i])[name]
    BY <2>1 DEF Children
  <2> HIDE DEF n, A
  <2>4. UNION {DOMAIN A[i] : i \in 1 .. n} =
           UNION {DOMAIN Alone(s)[name] : s \in Range(response)}
    BY <2>1, <2>3
  <2>5. \A labels : With(labels) = {i \in 1 .. n : labels \in DOMAIN A[i]}
    BY <2>1, <2>3
  <2>6. ASSUME NEW labels \in UNION {DOMAIN A[i] : i \in 1 .. n}
        PROVE  A[Max({i \in 1 .. n : labels \in DOMAIN A[i]})][labels] =
                  Alone(LastWith(name, labels))[name][labels]
    <3>1. LastWith(name, labels) = response[Max(With(labels))]
      BY DEF LastWith
    <3>2. With(labels) \in SUBSET (1 .. n) /\ With(labels) # {}
      BY <2>5, <2>6
    <3>3. With(labels) = {i \in 1 .. n : labels \in DOMAIN A[i]}
      BY <2>5
    <3> HIDE DEF With
    <3>4. Max(With(labels)) \in 1 .. n
      BY <2>1, <3>2, MaxOfPositions
    <3> QED
      BY <2>3, <3>1, <3>3, <3>4
  <2>7. Overlay(A, n) = [labels \in UNION {DOMAIN A[i] : i \in 1 .. n} |->
                            Alone(LastWith(name, labels))[name][labels]]
    BY <2>6 DEF Overlay
  <2> QED
    BY <2>2, <2>4, <2>7
<1> QED
  BY <1>1, Inductive, PTL

\* Every transcode with information is counted once in transcodes_active,
\* whatever its codecs, and every reason of a session in the reasons.
THEOREM CountsEveryTranscode == Spec => []EveryTranscodeCounts
<1>1. IInv => EveryTranscodeCounts
  <2> SUFFICES ASSUME IInv, phase = "published" PROVE EveryTranscodeCounts
    BY DEF EveryTranscodeCounts
  <2>1. \A X \in SUBSET DOMAIN response : Seen(X) = Cardinality(X)
    BY AllVisited DEF IInv, Seen
  <2>2. SumFunction(gauges["transcodes_active"]) = Cardinality(WithInfo)
    BY <2>1 DEF IInv, GaugeInv, WithInfo
  <2>3. \A reason : Giving(reason) = {i \in DOMAIN response : reason \in ReasonsOf(response[i])}
    BY DEF Giving, Reasons, ReasonsOf
  <2>4. ASSUME NEW j \in DOMAIN response, NEW reason \in ReasonsOf(response[j])
        PROVE  /\ reason \in DOMAIN gauges["transcode_reason_sessions"]
               /\ gauges["transcode_reason_sessions"][reason] >= Cardinality(Giving(reason))
    <3>1. At(tally.reasons, reason) >= Cardinality(Giving(reason))
      BY <2>1 DEF IInv, TallyInv, Counting, Giving
    <3>2. gauges["transcode_reason_sessions"] = tally.reasons
      BY DEF IInv, PublishedInv
    <3>3. Cardinality(Giving(reason)) \in Nat /\ Cardinality(Giving(reason)) >= 1
      <4>1. IsFiniteSet(DOMAIN response)
        BY AllVisited DEF IInv
      <4>2. IsFiniteSet(Giving(reason))
        BY <4>1, FS_Subset DEF Giving
      <4>3. Giving(reason) # {}
        BY <2>3, <2>4
      <4> QED
        BY <4>2, <4>3, FS_CardinalityType, FS_EmptySet
    <3> QED
      BY <3>1, <3>2, <3>3 DEF At
  <2> QED
    BY <2>2, <2>3, <2>4 DEF EveryTranscodeCounts, WithInfo
<1> QED
  BY <1>1, Inductive, PTL

\* The children of sessions_active are the labels of the sessions.
LEMMA SessionSeries ==
  ASSUME IInv, phase = "published"
  PROVE  DOMAIN gauges["sessions_active"] = {SessionLabels(response[i]) : i \in DOMAIN response}
<1>1. "sessions_active" \in Overlaid
  BY DEF Overlaid
<1>2. gauges["sessions_active"] = Overlay(Children("sessions_active"), Visited)
  BY <1>1 DEF IInv, GaugeInv
<1>3. DOMAIN response = 1 .. Visited
  BY AllVisited DEF IInv
<1>4. \A s : DOMAIN Alone(s)["sessions_active"] = {SessionLabels(s)}
  <2> SUFFICES ASSUME NEW s PROVE DOMAIN Alone(s)["sessions_active"] = {SessionLabels(s)}
    OBVIOUS
  <2>1. Alone(s)["sessions_active"] = Shown("sessions_active", NoChildren, s)
    BY <1>1, BlankGauges, VisitedGauges DEF Alone
  <2>2. Shown("sessions_active", NoChildren, s) = SetChild(NoChildren, SessionLabels(s), 1)
    BY DEF Shown
  <2> QED
    BY <2>1, <2>2 DEF SetChild, NoChildren
<1>5. \A i \in DOMAIN response :
         DOMAIN Children("sessions_active")[i] = {SessionLabels(response[i])}
  BY <1>4 DEF Children
<1>6. DOMAIN gauges["sessions_active"] =
         UNION {DOMAIN Children("sessions_active")[i] : i \in 1 .. Visited}
  BY <1>2 DEF Overlay
<1> QED
  BY <1>3, <1>5, <1>6

\* The published totals nest, so that no ratio of them exceeds one.
THEOREM PublishedTotalsNest == Spec => []TotalsNest
<1>1. IInv => TotalsNest
  <2> SUFFICES ASSUME IInv, phase = "published" PROVE TotalsNest
    BY DEF TotalsNest
  <2> DEFINE T == << <<"Transcode">> >>
  <2>1. /\ \A X \in SUBSET DOMAIN response : Seen(X) = Cardinality(X)
        /\ IsFiniteSet(DOMAIN response) /\ Visited = Len(response)
    BY AllVisited DEF IInv, Seen
  <2>2. SumFunction(gauges["transcodes_active"]) = Cardinality(WithInfo)
    BY <2>1 DEF IInv, GaugeInv, WithInfo
  <2>3. /\ gauges["transcode_hw_accelerated"] = tally.hw
        /\ gauges["play_method_sessions"] = tally.methods
        /\ gauges["sessions_active_count"] = Len(response)
        /\ tally.hw <= Cardinality(WithInfo)
        /\ SumFunction(tally.methods) <= Len(response)
    BY <2>1 DEF IInv, PublishedInv, TallyInv, Counting, WithInfo
  <2>4. \A method \in Methods : tally.methods[method] = Cardinality(OfMethod(method))
    BY <2>1 DEF IInv, TallyInv, Counting, OfMethod
  <2>5. T \in Methods
    BY DEF Methods
  <2>6. WithInfo \in SUBSET OfMethod(T) /\ IsFiniteSet(OfMethod(T))
    <3>1. WithInfo \in SUBSET OfMethod(T)
      BY DEF WithInfo, OfMethod, Transcoding
    <3>2. OfMethod(T) \in SUBSET DOMAIN response
      BY DEF OfMethod
    <3> QED
      BY <2>1, <3>1, <3>2, FS_Subset
  <2>7. Cardinality(WithInfo) <= tally.methods[T]
    <3> HIDE DEF T
    <3> QED
      BY <2>4, <2>5, <2>6, FS_Subset
  <2>8. ASSUME NEW method \in Methods
        PROVE  Cardinality({l \in DOMAIN gauges["sessions_active"] : <<l[3]>> = method})
                  <= tally.methods[method]
    <3> DEFINE f == [i \in OfMethod(method) |-> SessionLabels(response[i])]
    <3>1. {l \in DOMAIN gauges["sessions_active"] : <<l[3]>> = method} = Range(f)
      <4>1. DOMAIN gauges["sessions_active"] =
               {SessionLabels(response[i]) : i \in DOMAIN response}
        BY SessionSeries
      <4>2. \A s : SessionLabels(s)[3] = PlayMethod(s)
        BY DEF SessionLabels
      <4>3. Range(f) = {SessionLabels(response[i]) : i \in OfMethod(method)}
        BY DEF Range
      <4> QED
        BY <4>1, <4>2, <4>3 DEF OfMethod
    <3>2. IsFiniteSet(OfMethod(method)) /\ DOMAIN f = OfMethod(method)
      <4>1. OfMethod(method) \in SUBSET DOMAIN response
        BY DEF OfMethod
      <4> QED
        BY <2>1, <4>1, FS_Subset
    <3> HIDE DEF f
    <3> QED
      BY <2>4, <3>1, <3>2, ImageIsFinite
  <2> QED
    BY <2>2, <2>3, <2>7, <2>8 DEF TotalsNest
<1> QED
  BY <1>1, Inductive, PTL

\* Whatever texts the server sends, every label but the media type of the
\* bitrate is clean, in every state of the loop.
THEOREM EveryLabelIsClean == Spec => []LabelsAreClean
<1>1. IInv => LabelsAreClean
  BY DEF IInv, LabelInv
<1> QED
  BY <1>1, Inductive, PTL

\* Sessions with clean and different names have series of their own, and
\* there are no more series than sessions.
THEOREM HidesNoSession == Spec => []NoSessionHidden
<1>1. IInv => NoSessionHidden
  <2> SUFFICES ASSUME IInv, phase = "published" PROVE NoSessionHidden
    BY DEF NoSessionHidden
  <2> DEFINE D == DOMAIN gauges["sessions_active"]
  <2> DEFINE C == {t \in Range(response) : HasCleanNames(t)}
  <2>1. /\ Len(response) \in Nat /\ DOMAIN response = 1 .. Len(response)
        /\ \A i \in DOMAIN response : IsSession(response[i])
        /\ Range(response) = {response[i] : i \in DOMAIN response}
        /\ IsFiniteSet(1 .. Len(response)) /\ Cardinality(1 .. Len(response)) = Len(response)
    BY AllVisited DEF IInv
  <2>2. D = {SessionLabels(response[i]) : i \in DOMAIN response}
    BY SessionSeries
  <2>3. IsFiniteSet(D) /\ Cardinality(D) <= Len(response)
    <3> DEFINE f == [i \in 1 .. Len(response) |-> SessionLabels(response[i])]
    <3>1. D = Range(f) /\ DOMAIN f = 1 .. Len(response)
      BY <2>1, <2>2 DEF Range
    <3> HIDE DEF f
    <3> QED
      BY <2>1, <3>1, ImageIsFinite
  <2> HIDE DEF D
  <2> DEFINE L == {SessionLabels(s) : s \in C}
  <2>4. L \in SUBSET D /\ \A s \in C : IsSession(s) /\ HasCleanNames(s)
    BY <2>1, <2>2
  <2>5. IsFiniteSet(L) /\ Cardinality(L) <= Cardinality(D)
    BY <2>3, <2>4, FS_Subset
  <2> DEFINE f == [l \in L |-> Names(CHOOSE s \in C : SessionLabels(s) = l)]
  <2>6. \A s \in C : f[SessionLabels(s)] = Names(s)
    <3> SUFFICES ASSUME NEW s \in C PROVE f[SessionLabels(s)] = Names(s)
      OBVIOUS
    <3> DEFINE u == CHOOSE u \in C : SessionLabels(u) = SessionLabels(s)
    <3>1. u \in C /\ SessionLabels(u) = SessionLabels(s)
      OBVIOUS
    <3>2. f[SessionLabels(s)] = Names(u)
      OBVIOUS
    <3> HIDE DEF u, f, C
    <3> QED
      BY <2>4, <3>1, <3>2, CleanNamesShow
  <2>7. DOMAIN f = L /\ Range(f) = {Names(s) : s \in C}
    <3>1. DOMAIN f = L
      OBVIOUS
    <3> HIDE DEF f, C
    <3> QED
      BY <2>6, <3>1 DEF Range
  <2> HIDE DEF f, L
  <2>8. Cardinality({Names(s) : s \in C}) <= Cardinality(L)
    BY <2>5, <2>7, ImageIsFinite
  <2> DEFINE names == Cardinality({Names(s) : s \in C})
  <2>9. names \in Nat /\ Cardinality(L) \in Nat /\ Cardinality(D) \in Nat
    BY <2>3, <2>5, <2>7, ImageIsFinite, FS_CardinalityType
  <2>10. names <= Cardinality(D)
    <3>1. names <= Cardinality(L)
      BY <2>8
    <3> HIDE DEF names
    <3> QED
      BY <2>5, <2>9, <3>1
  <2>11. gauges["sessions_active_count"] = Len(response)
    BY DEF IInv, TallyInv, Counting
  <2> QED
    BY <2>3, <2>10, <2>11 DEF NoSessionHidden, D
<1> QED
  BY <1>1, Inductive, PTL
=============================================================================
