-------------------------- MODULE RecursionLemmas --------------------------
(***************************************************************************)
(* Facts about natural numbers that the proofs about the retry loop rest   *)
(* on: the least element of a set, and that a function defined by          *)
(* recursion on its argument exists.  The step of the recursion is given   *)
(* as a function, so that the lemma can be used without an operator as a   *)
(* parameter.                                                              *)
(***************************************************************************)
EXTENDS Integers, FiniteSetTheorems, TLAPS

\* Sets of naturals ordered by inclusion are well-founded; a smallest one
\* among the initial segments of T belongs to the least element.
LEMMA LeastElement ==
  ASSUME NEW T \in SUBSET Nat, T # {}
  PROVE  \E n \in T : \A m \in T : n <= m
<1> DEFINE Below(m) == {i \in T : i <= m}
<1> DEFINE Segments == {Below(m) : m \in T}
<1> DEFINE R == StrictSubsetOrdering(Nat)
<1>1. \A i \in T : i \in Nat
  OBVIOUS
<1>2. IsWellFoundedOn(R, FiniteSubsetsOf(Nat))
  BY FS_StrictSubsetOrderingWellFounded
<1>3. ASSUME NEW m \in T PROVE Below(m) \in FiniteSubsetsOf(Nat)
  <2>1. IsFiniteSet(0 .. m)
    BY <1>3, FS_Interval
  <2>2. \A i \in Below(m) : i \in 0 .. m
    BY <1>1
  <2>3. IsFiniteSet(Below(m))
    BY <2>1, <2>2, Below(m) \subseteq 0 .. m, FS_Subset
  <2> QED
    BY <2>3 DEF FiniteSubsetsOf
<1>4. Segments \subseteq FiniteSubsetsOf(Nat) /\ Segments # {}
  BY <1>3
<1> HIDE DEF R
<1>5. PICK X \in Segments : \A Y \in Segments : ~ (<<Y, X>> \in R)
  BY <1>2, <1>4, WFMin
<1>6. PICK n \in T : X = Below(n)
  BY <1>5
<1>7. ASSUME NEW m \in T, m < n PROVE FALSE
  <2>1. \A i \in Below(m) : i \in T /\ i \in Nat /\ i <= m
    BY <1>1
  <2>2. n \in Nat /\ m \in Nat /\ n \in T /\ ~(n <= m) /\ n <= n
    BY <1>1, <1>7
  <2>3. \A i \in Below(m) : i <= n
    BY <1>7, <2>1, <2>2
  <2>4. Below(m) \subseteq Below(n) /\ n \in Below(n) /\ n \notin Below(m)
    BY <2>1, <2>2, <2>3
  <2>5. <<Below(m), Below(n)>> \in R
    BY <1>6, <2>4 DEF R, StrictSubsetOrdering
  <2> QED
    BY <1>5, <1>6, <2>5
<1> QED
  BY <1>1, <1>6, <1>7

\* Induction, with the set of the numbers that have the property in place of
\* the property.
LEMMA Induction ==
  ASSUME NEW S, 0 \in S, \A n \in Nat : n \in S => n + 1 \in S
  PROVE  Nat \subseteq S
<1> DEFINE Missing == Nat \ S
<1> SUFFICES ASSUME Missing # {} PROVE FALSE
  OBVIOUS
<1>1. PICK k \in Missing : \A m \in Missing : k <= m
  BY LeastElement, Missing \in SUBSET Nat
<1>2. k - 1 \in Nat /\ (k - 1) + 1 = k
  BY <1>1
<1> QED
  BY <1>1, <1>2

\* The functions on 0 .. n that follow the recursion.
FirstTerms(start, step, n) ==
    {g \in [0 .. n -> Nat] :
        g[0] = start /\ \A i \in 1 .. n : g[i] = step[<<i, g[i - 1]>>]}

LEMMA FirstTermsExist ==
  ASSUME NEW start \in Nat, NEW step \in [Nat \X Nat -> Nat], NEW n \in Nat
  PROVE  FirstTerms(start, step, n) # {}
<1> DEFINE Pre(k) == FirstTerms(start, step, k)
<1> DEFINE Missing == {k \in Nat : Pre(k) = {}}
<1> SUFFICES ASSUME Missing # {} PROVE FALSE
  OBVIOUS
<1>1. PICK k \in Missing : \A m \in Missing : k <= m
  BY LeastElement, Missing \in SUBSET Nat
<1>2. CASE k = 0
  <2>1. [i \in 0 .. 0 |-> start] \in Pre(0)
    BY DEF FirstTerms
  <2> QED
    BY <1>1, <1>2, <2>1
<1>3. CASE k # 0
  <2>1. k \in Nat /\ k - 1 \in Nat
    BY <1>1, <1>3
  <2>2. PICK g \in Pre(k - 1) : TRUE
    BY <1>1, <2>1
  <2>3. /\ g \in [0 .. k - 1 -> Nat] /\ g[0] = start
        /\ \A i \in 1 .. k - 1 : g[i] = step[<<i, g[i - 1]>>]
    BY <2>2 DEF FirstTerms
  <2>4. g[k - 1] \in Nat
    BY <2>1, <2>3
  <2> DEFINE h == [i \in 0 .. k |-> IF i = k THEN step[<<k, g[k - 1]>>] ELSE g[i]]
  <2>5. h \in [0 .. k -> Nat]
    <3>1. <<k, g[k - 1]>> \in Nat \X Nat
      BY <2>1, <2>4
    <3>2. step[<<k, g[k - 1]>>] \in Nat
      BY <3>1
    <3> QED
      BY <2>1, <2>3, <3>2
  <2>6. h[0] = start
    BY <1>3, <2>1, <2>3
  <2>7. \A i \in 1 .. k : h[i] = step[<<i, h[i - 1]>>]
    <3> SUFFICES ASSUME NEW i \in 1 .. k PROVE h[i] = step[<<i, h[i - 1]>>]
      OBVIOUS
    <3>1. i \in 0 .. k /\ i - 1 \in 0 .. k /\ i - 1 # k /\ h[i - 1] = g[i - 1]
      BY <2>1
    <3>2. CASE i = k
      BY <3>1, <3>2
    <3>3. CASE i # k
      <4>1. i \in 1 .. k - 1 /\ h[i] = g[i]
        BY <2>1, <3>1, <3>3
      <4> QED
        BY <2>3, <3>1, <4>1
    <3> QED
      BY <3>2, <3>3
  <2>8. h \in Pre(k)
    BY <2>5, <2>6, <2>7 DEF FirstTerms
  <2> QED
    BY <1>1, <2>8
<1> QED
  BY <1>2, <1>3

LEMMA FirstTermsAgree ==
  ASSUME NEW start, NEW step, NEW m \in Nat, NEW n \in Nat,
         NEW g \in FirstTerms(start, step, m), NEW h \in FirstTerms(start, step, n),
         NEW i \in Nat, i <= m, i <= n
  PROVE  g[i] = h[i]
<1> DEFINE Differ == {k \in Nat : k <= m /\ k <= n /\ g[k] # h[k]}
<1> SUFFICES ASSUME Differ # {} PROVE FALSE
  OBVIOUS
<1>1. PICK k \in Differ : \A l \in Differ : k <= l
  BY LeastElement, Differ \in SUBSET Nat
<1>2. g[0] = h[0] /\ k # 0
  BY <1>1 DEF FirstTerms
<1>3. k - 1 \in Nat /\ k - 1 <= m /\ k - 1 <= n /\ k \in 1 .. m /\ k \in 1 .. n
  BY <1>1, <1>2
<1>4. g[k - 1] = h[k - 1]
  BY <1>1, <1>3
<1>5. g[k] = h[k]
  BY <1>3, <1>4 DEF FirstTerms
<1> QED
  BY <1>1, <1>5

\* A function that follows the recursion on all naturals.
LEMMA Recursion ==
  ASSUME NEW start \in Nat, NEW step \in [Nat \X Nat -> Nat]
  PROVE  \E f \in [Nat -> Nat] :
            f[0] = start /\ \A n \in Nat \ {0} : f[n] = step[<<n, f[n - 1]>>]
<1> DEFINE Pre(n) == CHOOSE g : g \in FirstTerms(start, step, n)
<1> DEFINE f == [n \in Nat |-> Pre(n)[n]]
<1>1. \A n \in Nat : Pre(n) \in FirstTerms(start, step, n)
  BY FirstTermsExist
<1> HIDE DEF Pre
<1>2. f \in [Nat -> Nat]
  <2> SUFFICES ASSUME NEW n \in Nat PROVE Pre(n)[n] \in Nat
    OBVIOUS
  <2>1. Pre(n) \in [0 .. n -> Nat]
    BY <1>1 DEF FirstTerms
  <2> QED
    BY <2>1
<1>3. f[0] = start
  BY <1>1 DEF FirstTerms
<1>4. ASSUME NEW n \in Nat \ {0} PROVE f[n] = step[<<n, f[n - 1]>>]
  <2>1. n - 1 \in Nat /\ n \in 1 .. n
    BY <1>4
  <2>2. Pre(n)[n] = step[<<n, Pre(n)[n - 1]>>]
    BY <1>1, <2>1 DEF FirstTerms
  <2>3. Pre(n)[n - 1] = Pre(n - 1)[n - 1]
    BY <1>1, <2>1, FirstTermsAgree
  <2> QED
    BY <2>1, <2>2, <2>3
<1> QED
  BY <1>2, <1>3, <1>4

-----------------------------------------------------------------------------
\* A fold over a finite set S takes its elements in the order of `pick` and
\* combines them with values in V: what the community modules define.
CanFold(S, V, base, pick, step) ==
    /\ IsFiniteSet(S)
    /\ base \in V
    /\ \A s \in SUBSET S : s # {} => pick[s] \in s
    /\ \A x \in S : \A v \in V : step[<<x, v>>] \in V

\* f has the values of the fold over all subsets of S.
IsFold(f, S, V, base, pick, step) ==
    /\ f \in [SUBSET S -> V]
    /\ \A s \in SUBSET S :
          f[s] = IF s = {} THEN base ELSE step[<<pick[s], f[s \ {pick[s]}]>>]

LEMMA FoldExists ==
  ASSUME NEW S, NEW V, NEW base, NEW pick, NEW step, CanFold(S, V, base, pick, step)
  PROVE  \E f : IsFold(f, S, V, base, pick, step)
<1> USE DEF CanFold
<1> DEFINE Value(f, s) ==
               IF s = {} THEN base ELSE step[<<pick[s], f[s \ {pick[s]}]>>]
<1> DEFINE Follows(f, n) == \A s \in SUBSET S : Cardinality(s) <= n => f[s] = Value(f, s)
<1> DEFINE Good == {n \in Nat : \E f \in [SUBSET S -> V] : Follows(f, n)}
<1>1. \A s \in SUBSET S : IsFiniteSet(s) /\ Cardinality(s) \in Nat
  BY FS_Subset, FS_CardinalityType
<1>2. \A s \in SUBSET S : s # {} => /\ s \ {pick[s]} \in SUBSET S
                                    /\ Cardinality(s \ {pick[s]}) = Cardinality(s) - 1
  BY <1>1, FS_RemoveElement
<1>3. \A s \in SUBSET S : s = {} <=> Cardinality(s) = 0
  BY <1>1, FS_EmptySet
<1>4. 0 \in Good
  <2> DEFINE f == [s \in SUBSET S |-> base]
  <2>1. f \in [SUBSET S -> V] /\ Follows(f, 0)
    BY <1>1, <1>3
  <2> QED
    BY <2>1
<1>5. ASSUME NEW n \in Nat, n \in Good PROVE n + 1 \in Good
  <2>1. PICK f \in [SUBSET S -> V] : Follows(f, n)
    BY <1>5
  <2> DEFINE g == [s \in SUBSET S |-> IF Cardinality(s) = n + 1 THEN Value(f, s) ELSE f[s]]
  <2>2. g \in [SUBSET S -> V]
    <3>1. ASSUME NEW s \in SUBSET S PROVE Value(f, s) \in V
      <4>1. CASE s = {}
        BY <4>1
      <4>2. CASE s # {}
        <5>1. pick[s] \in S /\ f[s \ {pick[s]}] \in V
          BY <1>2, <4>2
        <5> QED
          BY <4>2, <5>1
      <4> QED
        BY <4>1, <4>2
    <3> HIDE DEF Value
    <3> QED
      BY <3>1
  <2>3. ASSUME NEW s \in SUBSET S, Cardinality(s) <= n + 1 PROVE g[s] = Value(g, s)
    <3>1. Value(g, s) = Value(f, s)
      <4>1. CASE s = {}
        BY <4>1
      <4>2. CASE s # {}
        <5>1. Cardinality(s \ {pick[s]}) # n + 1 /\ s \ {pick[s]} \in SUBSET S
          BY <1>1, <1>2, <2>3, <4>2
        <5>2. g[s \ {pick[s]}] = f[s \ {pick[s]}]
          BY <5>1
        <5> QED
          BY <4>2, <5>2
      <4> QED
        BY <4>1, <4>2
    <3>2. CASE Cardinality(s) = n + 1
      BY <3>1, <3>2
    <3>3. CASE Cardinality(s) # n + 1
      <4>1. Cardinality(s) <= n /\ g[s] = f[s]
        BY <1>1, <2>3, <3>3
      <4>2. f[s] = Value(f, s)
        BY <2>1, <4>1
      <4> QED
        BY <3>1, <4>1, <4>2
    <3> QED
      BY <3>2, <3>3
  <2> HIDE DEF g
  <2>4. Follows(g, n + 1)
    BY <2>3
  <2> HIDE DEF Follows
  <2> QED
    BY <2>2, <2>4
<1>6. Cardinality(S) \in Good
  <2> HIDE DEF Good
  <2>1. Nat \subseteq Good
    BY <1>4, <1>5, Induction
  <2> QED
    BY <2>1, FS_CardinalityType
<1>7. PICK f \in [SUBSET S -> V] : Follows(f, Cardinality(S))
  BY <1>6
<1>8. \A s \in SUBSET S : f[s] = Value(f, s)
  BY <1>7, FS_Subset
<1> QED
  BY <1>7, <1>8 DEF IsFold
=============================================================================
