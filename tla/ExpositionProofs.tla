-------------------------- MODULE ExpositionProofs --------------------------
(***************************************************************************)
(* Proofs about Exposition, for any endpoints, any finite set of labels    *)
(* and any number of cycles.                                               *)
(***************************************************************************)
EXTENDS Exposition, FiniteSetTheorems, SequenceTheorems, TLAPS

Scalars == Totals \cup {"timestamp"}

LEMMA FamilyNames ==
  /\ Families = Labelled \cup Scalars
  /\ Labelled \cap Scalars = {}
  /\ Labelled \subseteq {"sessions_active", "library_items", "items_by_type",
                         "server_info"}
  /\ Totals \subseteq {"sessions_active_count", "items_count"}
<1>1. /\ Breakdown["sessions"] = "sessions_active"
      /\ Breakdown["libraries"] = "library_items"
      /\ Breakdown["counts"] = "items_by_type" /\ Breakdown["system"] = "server_info"
  BY DEF Breakdown
<1>2. /\ DOMAIN Total = {"sessions", "counts"}
      /\ Total["sessions"] = "sessions_active_count" /\ Total["counts"] = "items_count"
  BY DEF Total
<1>3. Labelled \subseteq {"sessions_active", "library_items", "items_by_type",
                          "server_info"}
  BY <1>1, ExpositionAssumption DEF Labelled
<1>4. Totals \subseteq {"sessions_active_count", "items_count"}
  BY <1>2 DEF Totals
<1> QED
  BY <1>3, <1>4 DEF Families, Scalars

-----------------------------------------------------------------------------
(***************************************************************************)
(* The writes of a cycle.                                                  *)
(***************************************************************************)

\* The writes that cycle v may make.
WritesOf(v) ==
    [op : {"reset"}, family : Labelled]
    \cup [op : {"set"}, family : Totals, value : {0, v}]
    \cup [op : {"set"}, family : {"timestamp"}, value : {v}]
    \cup [op : {"child"}, family : Labelled, label : Labels, value : {0, v}]

\* What an earlier cycle has left in the family is gone after the write.
Clears(w, f) == w.family = f /\ w.op \in {"reset", "set"}

\* The write finds the families fresh only if they were cleared before it.
Wants(w) == IF w.op = "child" THEN {w.family}
            ELSE IF w.family = "timestamp" THEN Labelled \cup Totals
            ELSE {}

\* A row of writes that needs nothing to be fresh, and clears some families.
Sound(s, v) ==
    /\ s \in Seq(WritesOf(v))
    /\ \A k \in 1 .. Len(s) : \A f \in Wants(s[k]) :
          \E j \in 1 .. k - 1 : Clears(s[j], f)

Covers(s, f) == \E j \in 1 .. Len(s) : Clears(s[j], f)

\* The second row may rely on what the first one clears.
LEMMA Concatenation ==
  ASSUME NEW v, NEW s, NEW t, Sound(s, v), t \in Seq(WritesOf(v)),
         \A k \in 1 .. Len(t) : \A f \in Wants(t[k]) :
            Covers(s, f) \/ \E j \in 1 .. k - 1 : Clears(t[j], f)
  PROVE  /\ Sound(s \o t, v)
         /\ \A f : Covers(s, f) \/ Covers(t, f) => Covers(s \o t, f)
<1>1. s \in Seq(WritesOf(v)) /\ t \in Seq(WritesOf(v)) /\ s \o t \in Seq(WritesOf(v))
  BY DEF Sound
<1>2. /\ Len(s) \in Nat /\ Len(t) \in Nat /\ Len(s \o t) = Len(s) + Len(t)
      /\ \A i \in 1 .. Len(s) : (s \o t)[i] = s[i]
      /\ \A i \in 1 .. Len(t) : (s \o t)[Len(s) + i] = t[i]
  BY <1>1
<1>3. ASSUME NEW k \in 1 .. Len(s \o t), NEW f \in Wants((s \o t)[k])
      PROVE  \E j \in 1 .. k - 1 : Clears((s \o t)[j], f)
  <2>1. CASE k <= Len(s)
    <3>1. k \in 1 .. Len(s) /\ (s \o t)[k] = s[k]
      BY <1>2, <2>1
    <3>2. PICK j \in 1 .. k - 1 : Clears(s[j], f)
      BY <1>3, <3>1 DEF Sound
    <3>3. j \in 1 .. Len(s) /\ (s \o t)[j] = s[j]
      BY <1>2, <3>1
    <3> QED
      BY <3>2, <3>3
  <2>2. CASE k > Len(s)
    <3>1. k - Len(s) \in 1 .. Len(t) /\ Len(s) + (k - Len(s)) = k
      BY <1>2, <2>2
    <3>2. (s \o t)[k] = t[k - Len(s)]
      BY <1>2, <3>1
    <3>3. CASE Covers(s, f)
      <4>1. PICK j \in 1 .. Len(s) : Clears(s[j], f)
        BY <3>3 DEF Covers
      <4>2. j \in 1 .. k - 1 /\ (s \o t)[j] = s[j]
        BY <1>2, <2>2
      <4> QED
        BY <4>1, <4>2
    <3>4. CASE \E j \in 1 .. (k - Len(s)) - 1 : Clears(t[j], f)
      <4>1. PICK j \in 1 .. (k - Len(s)) - 1 : Clears(t[j], f)
        BY <3>4
      <4>2. j \in 1 .. Len(t) /\ Len(s) + j \in 1 .. k - 1
        BY <1>2, <3>1, <4>1
      <4>3. (s \o t)[Len(s) + j] = t[j]
        BY <1>2, <4>2
      <4> QED
        BY <4>1, <4>2, <4>3
    <3> QED
      BY <1>3, <3>1, <3>2, <3>3, <3>4
  <2> QED
    BY <1>2, <2>1, <2>2
<1>4. ASSUME NEW f, Covers(s, f) PROVE Covers(s \o t, f)
  BY <1>2, <1>4 DEF Covers
<1>5. ASSUME NEW f, Covers(t, f) PROVE Covers(s \o t, f)
  <2>1. PICK j \in 1 .. Len(t) : Clears(t[j], f)
    BY <1>5 DEF Covers
  <2>2. Len(s) + j \in 1 .. Len(s \o t) /\ (s \o t)[Len(s) + j] = t[j]
    BY <1>2, <2>1
  <2> QED
    BY <2>1, <2>2 DEF Covers
<1> QED
  BY <1>1, <1>3, <1>4, <1>5 DEF Sound

LEMMA Listed ==
  ASSUME NEW S, IsFiniteSet(S)
  PROVE  /\ Cardinality(S) \in Nat
         /\ \A i \in 1 .. Cardinality(S) : SetToSeq(S)[i] \in S
<1>1. Cardinality(S) \in Nat
  BY FS_CardinalityType
<1>2. PICK f \in [1 .. Cardinality(S) -> S] : IsInjective(f)
  BY FS_CardinalityType DEF ExistsBijection, Bijection, Injection
<1>3. SetToSeq(S) \in [1 .. Cardinality(S) -> S]
  BY <1>2 DEF SetToSeq
<1> QED
  BY <1>1, <1>3

LEMMA Filling ==
  ASSUME NEW f \in Labelled, NEW labels \in SUBSET Labels, NEW v
  PROVE  /\ Fill(f, labels, v) \in Seq(WritesOf(v))
         /\ Len(Fill(f, labels, v)) = 2 * Cardinality(labels)
         /\ \A k \in 1 .. Len(Fill(f, labels, v)) :
               Wants(Fill(f, labels, v)[k]) = {f}
<1> DEFINE n == 2 * Cardinality(labels)
<1>1. IsFiniteSet(labels)
  BY ExpositionAssumption, FS_Subset
<1>2. Cardinality(labels) \in Nat /\ n \in Nat
  BY <1>1, Listed
<1>3. ASSUME NEW k \in 1 .. n
      PROVE  /\ Fill(f, labels, v)[k] \in [op : {"child"}, family : {f},
                                          label : labels, value : {0, v}]
  <2>1. Fill(f, labels, v)[k] =
           IF k % 2 = 1 THEN Touch(f, SetToSeq(labels)[(k + 1) \div 2])
                        ELSE SetChild(f, SetToSeq(labels)[k \div 2], v)
    BY DEF Fill
  <2>2. CASE k % 2 = 1
    <3>1. (k + 1) \div 2 \in 1 .. Cardinality(labels)
      BY <1>2, <2>2
    <3> QED
      BY <1>1, <2>1, <2>2, <3>1, Listed DEF Touch
  <2>3. CASE k % 2 # 1
    <3>1. k \div 2 \in 1 .. Cardinality(labels)
      BY <1>2, <2>3
    <3> QED
      BY <1>1, <2>1, <2>3, <3>1, Listed DEF SetChild
  <2> QED
    BY <2>2, <2>3
<1>4. ASSUME NEW k \in 1 .. n
      PROVE  Fill(f, labels, v)[k] \in WritesOf(v) /\ Wants(Fill(f, labels, v)[k]) = {f}
  BY <1>3 DEF WritesOf, Wants
<1>5. Fill(f, labels, v) \in [1 .. n -> WritesOf(v)]
  BY <1>4 DEF Fill
<1>6. Fill(f, labels, v) \in Seq(WritesOf(v)) /\ Len(Fill(f, labels, v)) = n
  BY <1>2, <1>5
<1> QED
  BY <1>4, <1>6

LEMMA Pair ==
  ASSUME NEW a, NEW b
  PROVE  <<a>> \o <<b>> = <<a, b>>
<1> DEFINE s == <<a>> \o <<b>>
<1> DEFINE t == <<a, b>>
<1>1. <<a>> \in Seq({a, b}) /\ <<b>> \in Seq({a, b})
  OBVIOUS
<1>2. s \in Seq({a, b}) /\ Len(s) = 2 /\ s[1] = a /\ s[2] = b
  BY <1>1
<1>3. t \in Seq({a, b}) /\ Len(t) = 2 /\ t[1] = a /\ t[2] = b
  OBVIOUS
<1> HIDE DEF s, t
<1>4. \A i \in 1 .. Len(s) : s[i] = t[i]
  BY <1>2, <1>3
<1>5. s = t
  BY <1>2, <1>3, <1>4, SeqEqual
<1> QED
  BY <1>5 DEF s, t

LEMMA OneWrite ==
  ASSUME NEW v, NEW w \in WritesOf(v)
  PROVE  /\ <<w>> \in Seq(WritesOf(v)) /\ Len(<<w>>) = 1 /\ <<w>>[1] = w
         /\ Wants(w) = {} => Sound(<<w>>, v)
         /\ \A f : Clears(w, f) => Covers(<<w>>, f)
  BY DEF Sound, Covers

LEMMA Resetting ==
  ASSUME NEW v, NEW f \in Labelled
  PROVE  Sound(<<Reset(f)>>, v) /\ Covers(<<Reset(f)>>, f)
<1>1. Reset(f) \in WritesOf(v)
  BY DEF Reset, WritesOf
<1>2. Wants(Reset(f)) = {} /\ Clears(Reset(f), f)
  BY FamilyNames DEF Reset, Wants, Clears, Scalars
<1> QED
  BY <1>1, <1>2, OneWrite

LEMMA Setting ==
  ASSUME NEW v, NEW f \in Totals, NEW x \in {0, v}
  PROVE  Sound(<<Set(f, x)>>, v) /\ Covers(<<Set(f, x)>>, f)
<1>1. Set(f, x) \in WritesOf(v)
  BY DEF Set, WritesOf, Scalars
<1>2. Wants(Set(f, x)) = {} /\ Clears(Set(f, x), f)
  BY FamilyNames DEF Set, Wants, Clears
<1> QED
  BY <1>1, <1>2, OneWrite

LEMMA Nothing ==
  ASSUME NEW v
  PROVE  Sound(<< >>, v)
  BY DEF Sound

\* Two sound rows, and a row with a filling after a row that clears.
LEMMA Joining ==
  ASSUME NEW v, NEW s, NEW t, Sound(s, v), Sound(t, v)
  PROVE  /\ Sound(s \o t, v)
         /\ \A f : Covers(s, f) \/ Covers(t, f) => Covers(s \o t, f)
  BY Concatenation DEF Sound

LEMMA FillingAfter ==
  ASSUME NEW v, NEW s, Sound(s, v), NEW f \in Labelled, Covers(s, f),
         NEW labels \in SUBSET Labels
  PROVE  /\ Sound(s \o Fill(f, labels, v), v)
         /\ \A g : Covers(s, g) => Covers(s \o Fill(f, labels, v), g)
<1> DEFINE t == Fill(f, labels, v)
<1>1. t \in Seq(WritesOf(v)) /\ \A k \in 1 .. Len(t) : Wants(t[k]) = {f}
  BY Filling
<1> HIDE DEF t
<1>2. \A k \in 1 .. Len(t) : \A g \in Wants(t[k]) :
         Covers(s, g) \/ \E j \in 1 .. k - 1 : Clears(t[j], g)
  BY <1>1
<1>3. Sound(s \o t, v) /\ \A g : Covers(s, g) => Covers(s \o t, g)
  BY <1>1, <1>2, Concatenation
<1> QED
  BY <1>3 DEF t

LEMMA LabelledSound ==
  ASSUME NEW v, NEW f \in Labelled, NEW ok, NEW labels \in SUBSET Labels
  PROVE  /\ Sound(LabelledWrites(f, ok, labels, v), v)
         /\ Covers(LabelledWrites(f, ok, labels, v), f)
<1>1. Sound(<<Reset(f)>>, v) /\ Covers(<<Reset(f)>>, f)
  BY Resetting
<1>2. /\ Sound(<<Reset(f)>> \o Fill(f, labels, v), v)
      /\ Covers(<<Reset(f)>> \o Fill(f, labels, v), f)
  BY <1>1, FillingAfter
<1>3. /\ Sound(<<Reset(f)>> \o << >>, v) /\ Covers(<<Reset(f)>> \o << >>, f)
  BY <1>1, Nothing, Joining
<1> QED
  BY <1>2, <1>3 DEF LabelledWrites

LEMMA SessionsSound ==
  ASSUME "sessions" \in Endpoints, NEW v, NEW ok, NEW labels \in SUBSET Labels
  PROVE  /\ Sound(SessionWrites(ok, labels, v), v)
         /\ Covers(SessionWrites(ok, labels, v), "sessions_active")
         /\ Covers(SessionWrites(ok, labels, v), "sessions_active_count")
<1> DEFINE R == <<Reset("sessions_active")>>
<1> DEFINE Z == <<Set("sessions_active_count", 0)>>
<1> DEFINE N == <<Set("sessions_active_count", v)>>
<1> DEFINE F == Fill("sessions_active", labels, v)
<1>1. "sessions_active" \in Labelled /\ "sessions_active_count" \in Totals
  BY DEF Labelled, Totals, Breakdown, Total
<1>2. /\ Sound(R, v) /\ Covers(R, "sessions_active")
      /\ Sound(Z, v) /\ Covers(Z, "sessions_active_count") /\ Sound(N, v)
  BY <1>1, Resetting, Setting
<1>3. R \o Z = <<Reset("sessions_active"), Set("sessions_active_count", 0)>>
  BY Pair
<1>4. (R \o Z) \o (N \o F) = ((R \o Z) \o N) \o F
  BY <1>1, <1>2, Filling DEF Sound
<1> HIDE DEF R, Z, N, F
<1>5. /\ Sound(R \o Z, v) /\ Covers(R \o Z, "sessions_active")
      /\ Covers(R \o Z, "sessions_active_count")
  BY <1>2, Joining
<1>6. /\ Sound((R \o Z) \o N, v) /\ Covers((R \o Z) \o N, "sessions_active")
      /\ Covers((R \o Z) \o N, "sessions_active_count")
  BY <1>2, <1>5, Joining
<1>7. /\ Sound((R \o Z) \o (N \o F), v)
      /\ Covers((R \o Z) \o (N \o F), "sessions_active")
      /\ Covers((R \o Z) \o (N \o F), "sessions_active_count")
  BY <1>1, <1>4, <1>6, FillingAfter DEF F
<1>8. /\ Sound((R \o Z) \o << >>, v) /\ Covers((R \o Z) \o << >>, "sessions_active")
      /\ Covers((R \o Z) \o << >>, "sessions_active_count")
  BY <1>5, Nothing, Joining
<1>9. SessionWrites(ok, labels, v) = (R \o Z) \o IF ok THEN N \o F ELSE << >>
  BY <1>3 DEF SessionWrites, N, F
<1> QED
  BY <1>7, <1>8, <1>9

LEMMA CountsSound ==
  ASSUME "counts" \in Endpoints, NEW v, NEW ok
  PROVE  /\ Sound(CountWrites(ok, v), v)
         /\ Covers(CountWrites(ok, v), "items_by_type")
         /\ Covers(CountWrites(ok, v), "items_count")
<1> DEFINE R == <<Reset("items_by_type")>>
<1> DEFINE Z == <<Set("items_count", 0)>>
<1> DEFINE N == <<Set("items_count", v)>>
<1> DEFINE F == Fill("items_by_type", Labels, v)
<1>1. "items_by_type" \in Labelled /\ "items_count" \in Totals
  BY DEF Labelled, Totals, Breakdown, Total
<1>2. /\ Sound(R, v) /\ Covers(R, "items_by_type")
      /\ Sound(Z, v) /\ Covers(Z, "items_count") /\ Sound(N, v)
  BY <1>1, Resetting, Setting
<1>3. R \o Z = <<Reset("items_by_type"), Set("items_count", 0)>>
  BY Pair
<1>4. (R \o Z) \o (F \o N) = ((R \o Z) \o F) \o N
  BY <1>1, <1>2, Filling DEF Sound
<1> HIDE DEF R, Z, N, F
<1>5. /\ Sound(R \o Z, v) /\ Covers(R \o Z, "items_by_type")
      /\ Covers(R \o Z, "items_count")
  BY <1>2, Joining
<1>6. /\ Sound((R \o Z) \o F, v) /\ Covers((R \o Z) \o F, "items_by_type")
      /\ Covers((R \o Z) \o F, "items_count")
  BY <1>1, <1>5, FillingAfter DEF F
<1>7. /\ Sound((R \o Z) \o (F \o N), v)
      /\ Covers((R \o Z) \o (F \o N), "items_by_type")
      /\ Covers((R \o Z) \o (F \o N), "items_count")
  BY <1>2, <1>4, <1>6, Joining
<1>8. /\ Sound((R \o Z) \o << >>, v) /\ Covers((R \o Z) \o << >>, "items_by_type")
      /\ Covers((R \o Z) \o << >>, "items_count")
  BY <1>5, Nothing, Joining
<1>9. CountWrites(ok, v) = (R \o Z) \o IF ok THEN F \o N ELSE << >>
  BY <1>3 DEF CountWrites, N, F
<1> QED
  BY <1>7, <1>8, <1>9

LEMMA EndpointSound ==
  ASSUME NEW v, NEW good, NEW labels \in SUBSET Labels, NEW server \in Labels,
         NEW e \in {"sessions", "libraries", "counts", "system"}
  PROVE  /\ Sound(EndpointWrites(e, good, labels, server, v), v)
         /\ e \in Endpoints =>
               Covers(EndpointWrites(e, good, labels, server, v), Breakdown[e])
         /\ e \in Endpoints \cap DOMAIN Total =>
               Covers(EndpointWrites(e, good, labels, server, v), Total[e])
<1>1. CASE e \notin Endpoints
  BY <1>1, Nothing DEF EndpointWrites
<1>2. ASSUME e \in Endpoints PROVE Breakdown[e] \in Labelled
  BY <1>2 DEF Labelled
<1>3. CASE e \in Endpoints /\ e = "sessions"
  BY <1>3, SessionsSound DEF EndpointWrites, Breakdown, Total
<1>4. CASE e \in Endpoints /\ e = "libraries"
  BY <1>2, <1>4, LabelledSound DEF EndpointWrites, Breakdown, Total
<1>5. CASE e \in Endpoints /\ e = "counts"
  BY <1>5, CountsSound DEF EndpointWrites, Breakdown, Total
<1>6. CASE e \in Endpoints /\ e = "system"
  BY <1>2, <1>6, LabelledSound DEF EndpointWrites, Breakdown, Total
<1> QED
  BY <1>1, <1>3, <1>4, <1>5, <1>6

LEMMA GaugesSound ==
  ASSUME NEW v, NEW good, NEW labels \in SUBSET Labels, NEW server \in Labels
  PROVE  /\ Sound(GaugeWrites(good, labels, server, v), v)
         /\ \A f \in Labelled \cup Totals :
               Covers(GaugeWrites(good, labels, server, v), f)
<1> DEFINE W(e) == EndpointWrites(e, good, labels, server, v)
<1> DEFINE All == W("sessions") \o W("libraries") \o W("counts") \o W("system")
<1> DEFINE E == {"sessions", "libraries", "counts", "system"}
<1>1. \A e \in E :
         /\ Sound(W(e), v)
         /\ e \in Endpoints => Covers(W(e), Breakdown[e])
         /\ e \in Endpoints \cap DOMAIN Total => Covers(W(e), Total[e])
  BY EndpointSound
<1> HIDE DEF W
<1>2. /\ Sound(W("sessions") \o W("libraries"), v)
      /\ \A f : Covers(W("sessions"), f) \/ Covers(W("libraries"), f)
                => Covers(W("sessions") \o W("libraries"), f)
  BY <1>1, Joining
<1>3. /\ Sound(W("sessions") \o W("libraries") \o W("counts"), v)
      /\ \A f : \/ Covers(W("sessions") \o W("libraries"), f)
                \/ Covers(W("counts"), f)
                => Covers(W("sessions") \o W("libraries") \o W("counts"), f)
  BY <1>1, <1>2, Joining
<1>4. /\ Sound(All, v)
      /\ \A f : \/ Covers(W("sessions") \o W("libraries") \o W("counts"), f)
                \/ Covers(W("system"), f)
                => Covers(All, f)
  BY <1>1, <1>3, Joining
<1>5. \A e \in E : \A f : Covers(W(e), f) => Covers(All, f)
  BY <1>2, <1>3, <1>4
<1> HIDE DEF All
<1>6. ASSUME NEW f \in Labelled \cup Totals PROVE Covers(All, f)
  <2>1. CASE f \in Labelled
    <3>1. PICK e \in Endpoints : f = Breakdown[e]
      BY <2>1 DEF Labelled
    <3> QED
      BY <1>1, <1>5, <3>1, ExpositionAssumption
  <2>2. CASE f \in Totals
    <3>1. PICK e \in Endpoints \cap DOMAIN Total : f = Total[e]
      BY <2>2 DEF Totals
    <3> QED
      BY <1>1, <1>5, <3>1, ExpositionAssumption
  <2> QED
    BY <2>1, <2>2
<1> QED
  BY <1>4, <1>6 DEF All, W, GaugeWrites

\* What a cycle writes needs nothing that it has not cleared itself: a child
\* comes after the reset of its family, and the timestamp after everything.
LEMMA PublicationSound ==
  ASSUME NEW v, NEW good, NEW labels \in SUBSET Labels, NEW server \in Labels
  PROVE  Sound(PublishWrites(good, labels, server, v), v)
<1> DEFINE G == GaugeWrites(good, labels, server, v)
<1> DEFINE T == <<Set("timestamp", v)>>
<1>1. Sound(G, v) /\ \A f \in Labelled \cup Totals : Covers(G, f)
  BY GaugesSound
<1>2. Set("timestamp", v) \in WritesOf(v)
  BY DEF Set, WritesOf
<1>3. T \in Seq(WritesOf(v)) /\ Len(T) = 1 /\ T[1] = Set("timestamp", v)
  BY <1>2, OneWrite
<1>4. Wants(Set("timestamp", v)) \subseteq Labelled \cup Totals
  BY DEF Set, Wants
<1> HIDE DEF G, T
<1>5. \A k \in 1 .. Len(T) : \A f \in Wants(T[k]) :
         Covers(G, f) \/ \E j \in 1 .. k - 1 : Clears(T[j], f)
  BY <1>1, <1>3, <1>4
<1>6. Sound(G \o T, v)
  BY <1>1, <1>3, <1>5, Concatenation
<1>7. Sound(G \o << >>, v)
  BY <1>1, Nothing, Joining
<1> QED
  BY <1>6, <1>7 DEF PublishWrites, Timestamp, G, T

-----------------------------------------------------------------------------
(***************************************************************************)
(* The registry.                                                           *)
(***************************************************************************)

\* The family shows nothing of an earlier cycle.
Fresh(f) == Written(registry, f) \subseteq {cycle}

ScriptInv ==
    /\ cycle \in Nat
    /\ script \in Seq(WritesOf(cycle))
    /\ \A k \in 1 .. Len(script) : \A f \in Wants(script[k]) :
          Fresh(f) \/ \E j \in 1 .. k - 1 : Clears(script[j], f)

RegistryInv ==
    /\ registry = [f \in Families |-> registry[f]]
    /\ \A f \in Labelled : \A m, n \in Written(registry, f) : m = n
    /\ registry["timestamp"] \in Nat /\ registry["timestamp"] <= cycle
    /\ \A f \in Labelled \cup Totals : \A n \in Written(registry, f) :
          n \in Nat /\ registry["timestamp"] <= n

\* After a write its family is fresh, and the others are as they were.
LEMMA WriteEffect ==
  ASSUME ScriptInv, RegistryInv, Write
  PROVE  /\ Len(script) \in Nat \ {0} /\ script[1] \in WritesOf(cycle)
         /\ script' = Tail(script) /\ cycle' = cycle
         /\ registry' = [f \in Families |-> registry'[f]]
         /\ \A f \in Families \ {script[1].family} : registry'[f] = registry[f]
         /\ Written(registry', script[1].family) \subseteq {cycle}
         /\ script[1].family = "timestamp" => registry'["timestamp"] = cycle
         /\ script[1].op = "reset" => registry'[script[1].family] = NoChildren
         /\ script[1].op = "set" => registry'[script[1].family] = script[1].value
         /\ script[1].op = "child" =>
               registry'[script[1].family] =
                  [l \in DOMAIN registry[script[1].family] \cup {script[1].label} |->
                      IF l = script[1].label THEN script[1].value
                      ELSE registry[script[1].family][l]]
<1>1. /\ script # << >> /\ script' = Tail(script) /\ cycle' = cycle
      /\ cycle \in Nat /\ script \in Seq(WritesOf(cycle))
  BY DEF Write, ScriptInv
<1>2. Len(script) \in Nat \ {0} /\ script[1] \in WritesOf(cycle) /\ Head(script) = script[1]
  BY <1>1
<1> DEFINE w == script[1]
<1>3. w.family \in Families
  BY <1>2, FamilyNames DEF WritesOf, Scalars
<1>4. \A f \in Wants(w) : Fresh(f)
  BY <1>2 DEF ScriptInv
<1> DEFINE old == registry[w.family]
<1> DEFINE new == CASE w.op = "reset" -> NoChildren
                    [] w.op = "set" -> w.value
                    [] w.op = "child" ->
                           [l \in DOMAIN old \cup {w.label} |->
                               IF l = w.label THEN w.value ELSE old[l]]
<1>5. registry' = [registry EXCEPT ![w.family] = new]
  BY <1>2 DEF Write
<1>6. registry = [f \in Families |-> registry[f]]
  BY DEF RegistryInv
<1> HIDE DEF new
<1>7. /\ registry' = [f \in Families |-> registry'[f]]
      /\ \A f \in Families \ {w.family} : registry'[f] = registry[f]
      /\ registry'[w.family] = new
  <2>1. DOMAIN registry = Families
    BY <1>6
  <2>2. registry' = [f \in Families |-> IF f = w.family THEN new ELSE registry[f]]
    BY <1>5, <2>1
  <2> HIDE DEF w
  <2> QED
    BY <1>3, <2>2
<1>8. CASE w.op = "reset"
  <2>1. w.family \in Labelled
    BY <1>2, <1>8 DEF WritesOf
  <2>2. registry'[w.family] = NoChildren
    BY <1>7, <1>8 DEF new
  <2>3. w.family # "timestamp"
    BY <2>1, FamilyNames DEF Scalars
  <2>4. Written(registry', w.family) \subseteq {cycle}
    BY <1>1, <2>1, <2>2 DEF Written, NoChildren
  <2> QED
    BY <1>1, <1>2, <1>7, <1>8, <2>2, <2>3, <2>4
<1>9. CASE w.op = "set"
  <2>1. /\ w.family \in Scalars /\ w.value \in {0, cycle}
        /\ w.family = "timestamp" => w.value = cycle
    BY <1>2, <1>9, FamilyNames DEF WritesOf, Scalars
  <2>2. registry'[w.family] = w.value
    BY <1>7, <1>9 DEF new
  <2>3. Written(registry', w.family) \subseteq {cycle}
    BY <1>1, <2>1, <2>2, FamilyNames DEF Written
  <2> QED
    BY <1>1, <1>2, <1>7, <1>9, <2>1, <2>2, <2>3
<1>10. CASE w.op = "child"
  <2>1. w.family \in Labelled /\ w.value \in {0, cycle}
    BY <1>2, <1>10 DEF WritesOf
  <2>2. registry'[w.family] =
           [l \in DOMAIN registry[w.family] \cup {w.label} |->
               IF l = w.label THEN w.value ELSE registry[w.family][l]]
    BY <1>7, <1>10 DEF new
  <2>3. w.family # "timestamp"
    BY <2>1, FamilyNames DEF Scalars
  <2>4. Fresh(w.family)
    BY <1>4, <1>10 DEF Wants
  <2>5. \A l \in DOMAIN registry[w.family] : registry[w.family][l] \in {0, cycle}
    BY <2>1, <2>4 DEF Fresh, Written
  <2>6. \A l \in DOMAIN registry'[w.family] : registry'[w.family][l] \in {0, cycle}
    BY <2>1, <2>2, <2>5
  <2>7. Written(registry', w.family) \subseteq {cycle}
    BY <1>1, <2>1, <2>6 DEF Written
  <2> QED
    BY <1>1, <1>2, <1>7, <1>10, <2>2, <2>3, <2>7
<1> QED
  BY <1>2, <1>8, <1>9, <1>10 DEF WritesOf

\* A fresh family stays fresh, and the one that is written becomes so.
LEMMA WriteRefreshes ==
  ASSUME ScriptInv, RegistryInv, Write,
         NEW f \in Families, Fresh(f) \/ Clears(script[1], f)
  PROVE  Fresh(f)'
<1>1. /\ \A g \in Families \ {script[1].family} : registry'[g] = registry[g]
      /\ Written(registry', script[1].family) \subseteq {cycle}
      /\ cycle' = cycle
  BY WriteEffect
<1>2. CASE f = script[1].family
  BY <1>1, <1>2 DEF Fresh
<1>3. CASE f # script[1].family
  <2>1. registry'[f] = registry[f] /\ Fresh(f)
    BY <1>1, <1>3 DEF Clears
  <2> QED
    BY <1>1, <2>1 DEF Fresh, Written
<1> QED
  BY <1>2, <1>3

LEMMA WriteKeepsScript ==
  ASSUME ScriptInv, RegistryInv, Write
  PROVE  ScriptInv'
<1>1. /\ Len(script) \in Nat \ {0} /\ script' = Tail(script) /\ cycle' = cycle
      /\ script \in Seq(WritesOf(cycle)) /\ cycle \in Nat
  BY WriteEffect DEF ScriptInv
<1>2. /\ script' \in Seq(WritesOf(cycle)) /\ Len(script') = Len(script) - 1
      /\ \A k \in 1 .. Len(script') : script'[k] = script[k + 1]
  BY <1>1
<1>3. ASSUME NEW k \in 1 .. Len(script'), NEW f \in Wants(script'[k])
      PROVE  Fresh(f)' \/ \E j \in 1 .. k - 1 : Clears(script'[j], f)
  <2>1. /\ k + 1 \in 1 .. Len(script) /\ f \in Wants(script[k + 1])
        /\ script[k + 1] \in WritesOf(cycle)
    BY <1>1, <1>2
  <2>2. f \in Families
    BY <2>1, FamilyNames DEF Wants, WritesOf, Scalars
  <2>3. Fresh(f) \/ \E j \in 1 .. (k + 1) - 1 : Clears(script[j], f)
    BY <2>1 DEF ScriptInv
  <2>4. CASE Fresh(f) \/ Clears(script[1], f)
    BY <2>2, <2>4, WriteRefreshes
  <2>5. ASSUME NEW j \in 1 .. (k + 1) - 1, Clears(script[j], f), j # 1
        PROVE  \E i \in 1 .. k - 1 : Clears(script'[i], f)
    <3>1. j - 1 \in 1 .. k - 1 /\ j - 1 \in 1 .. Len(script') /\ (j - 1) + 1 = j
      BY <1>1, <1>2, <2>5
    <3>2. script'[j - 1] = script[j]
      BY <1>2, <3>1
    <3> QED
      BY <2>5, <3>1, <3>2
  <2> QED
    BY <2>3, <2>4, <2>5
<1> QED
  BY <1>1, <1>2, <1>3 DEF ScriptInv

LEMMA WriteKeepsRegistry ==
  ASSUME ScriptInv, RegistryInv, Write
  PROVE  RegistryInv' /\ registry["timestamp"] <= registry'["timestamp"]
<1> DEFINE F == script[1].family
<1>1. /\ script[1] \in WritesOf(cycle) /\ cycle' = cycle /\ cycle \in Nat
      /\ registry' = [f \in Families |-> registry'[f]]
      /\ \A f \in Families \ {F} : registry'[f] = registry[f]
      /\ Written(registry', F) \subseteq {cycle}
      /\ F = "timestamp" => registry'["timestamp"] = cycle
      /\ Len(script) \in Nat \ {0}
  BY WriteEffect DEF ScriptInv
<1>2. Labelled \cup Totals \subseteq Families /\ "timestamp" \in Families
  BY FamilyNames DEF Scalars
<1> HIDE DEF F
<1>3. \A f \in Families : f # F => Written(registry', f) = Written(registry, f)
  BY <1>1 DEF Written
<1>4. ASSUME NEW f \in Labelled PROVE \A m, n \in Written(registry', f) : m = n
  BY <1>1, <1>2, <1>3 DEF RegistryInv
<1>5. /\ registry'["timestamp"] \in Nat /\ registry'["timestamp"] <= cycle
      /\ registry["timestamp"] <= registry'["timestamp"]
  BY <1>1, <1>2 DEF RegistryInv
<1>6. ASSUME NEW f \in Labelled \cup Totals, NEW n \in Written(registry', f)
      PROVE  n \in Nat /\ registry'["timestamp"] <= n
  <2>1. CASE F = "timestamp"
    <3>1. Wants(script[1]) = Labelled \cup Totals
      BY <1>1, <2>1, FamilyNames DEF Wants, WritesOf, F, Scalars
    <3>2. Fresh(f)
      BY <1>1, <3>1 DEF ScriptInv
    <3>3. f # F
      BY <2>1, FamilyNames DEF Scalars
    <3>4. n = cycle
      BY <1>2, <1>3, <1>6, <3>2, <3>3 DEF Fresh
    <3> QED
      BY <1>1, <1>5, <3>4
  <2>2. CASE F # "timestamp"
    <3>1. registry'["timestamp"] = registry["timestamp"]
      BY <1>1, <1>2, <2>2
    <3>2. CASE f = F
      <4>1. n = cycle
        BY <1>1, <1>6, <3>2
      <4> QED
        BY <1>1, <1>5, <4>1
    <3>3. CASE f # F
      <4>1. n \in Written(registry, f)
        BY <1>2, <1>3, <1>6, <3>3
      <4> QED
        BY <3>1, <4>1 DEF RegistryInv
    <3> QED
      BY <3>2, <3>3
  <2> QED
    BY <2>1, <2>2
<1> QED
  BY <1>1, <1>4, <1>5, <1>6 DEF RegistryInv

LEMMA CollectKeeps ==
  ASSUME ScriptInv, RegistryInv, Collect
  PROVE  ScriptInv' /\ RegistryInv' /\ registry' = registry
<1>1. cycle' = cycle + 1 /\ cycle' \in Nat /\ registry' = registry /\ cycle \in Nat
  BY DEF Collect, ScriptInv
<1>2. ASSUME script' = << >> PROVE ScriptInv'
  <2>1. Len(script') = 0 /\ script' \in Seq(WritesOf(cycle'))
    BY <1>2
  <2> QED
    BY <1>1, <2>1 DEF ScriptInv
<1>3. ASSUME NEW good \in SUBSET Endpoints, NEW labels \in SUBSET Labels,
             NEW server \in Labels,
             script' = PublishWrites(good, labels, server, cycle + 1)
      PROVE  ScriptInv'
  <2>1. Sound(script', cycle')
    BY <1>1, <1>3, PublicationSound
  <2> QED
    BY <1>1, <2>1 DEF Sound, ScriptInv
<1>4. ScriptInv'
  BY <1>2, <1>3 DEF Collect
<1>5. \A f : Written(registry', f) = Written(registry, f)
  BY <1>1
<1>6. registry'["timestamp"] \in Nat /\ registry'["timestamp"] <= cycle'
  BY <1>1 DEF RegistryInv
<1>7. RegistryInv'
  BY <1>1, <1>5, <1>6 DEF RegistryInv
<1> QED
  BY <1>1, <1>4, <1>7

-----------------------------------------------------------------------------
(***************************************************************************)
(* The scrapes.                                                            *)
(***************************************************************************)

\* What a scrape holds.  Until it has the timestamp, a family that it has not
\* gathered holds nothing; the timestamp that it has is not ahead of the
\* registry's, to which everything still to be gathered is compared.
SnapInv ==
    /\ snapshot = [f \in Families |-> snapshot[f]]
    /\ unread \subseteq Families
    /\ OneCyclePerFamily
    /\ NothingOlderThanTimestamp
    /\ "timestamp" \in unread =>
          \A f \in (Labelled \cup Totals) \ (unread \cup early) :
             Written(snapshot, f) = {}
    /\ "timestamp" \notin unread =>
          /\ snapshot["timestamp"] \in Nat
          /\ snapshot["timestamp"] <= registry["timestamp"]

IInv == ScriptInv /\ RegistryInv /\ SnapInv

LEMMA BlankIsEmpty ==
  /\ Blank = [f \in Families |-> Blank[f]]
  /\ Blank["timestamp"] = 0
  /\ \A f \in Labelled \cup Totals : Written(Blank, f) = {}
<1>1. \A f \in Families : Blank[f] = IF f \in Labelled THEN NoChildren ELSE 0
  BY DEF Blank
<1>2. Blank["timestamp"] = 0
  BY <1>1, FamilyNames DEF Scalars
<1>3. ASSUME NEW f \in Labelled PROVE Written(Blank, f) = {}
  <2>1. Blank[f] = NoChildren
    BY <1>1, FamilyNames
  <2> QED
    BY <2>1 DEF Written, NoChildren
<1>4. ASSUME NEW f \in Totals PROVE Written(Blank, f) = {}
  BY <1>1, FamilyNames DEF Written, Scalars
<1> QED
  BY <1>2, <1>3, <1>4 DEF Blank

LEMMA Initially == Init => IInv
<1> SUFFICES ASSUME Init PROVE IInv
  OBVIOUS
<1>1. registry = Blank /\ snapshot = Blank /\ cycle = 0 /\ unread = {} /\ script = << >>
  BY DEF Init
<1>2. ScriptInv
  <2>1. Len(script) = 0 /\ script \in Seq(WritesOf(cycle))
    BY <1>1
  <2> QED
    BY <1>1, <2>1 DEF ScriptInv
<1>3. RegistryInv
  BY <1>1, BlankIsEmpty DEF RegistryInv
<1>4. SnapInv
  BY <1>1, BlankIsEmpty DEF SnapInv, OneCyclePerFamily, NothingOlderThanTimestamp
<1> QED
  BY <1>2, <1>3, <1>4 DEF IInv

\* A step that leaves the scrape alone and does not turn the timestamp back.
LEMMA SnapKept ==
  ASSUME SnapInv, UNCHANGED <<unread, snapshot, early>>,
         registry["timestamp"] \in Nat, registry'["timestamp"] \in Nat,
         registry["timestamp"] <= registry'["timestamp"]
  PROVE  SnapInv'
<1>1. \A f : Written(snapshot', f) = Written(snapshot, f)
  OBVIOUS
<1>2. OneCyclePerFamily' /\ NothingOlderThanTimestamp'
  BY <1>1 DEF SnapInv, OneCyclePerFamily, NothingOlderThanTimestamp
<1>3. "timestamp" \notin unread' =>
         /\ snapshot'["timestamp"] \in Nat
         /\ snapshot'["timestamp"] <= registry'["timestamp"]
  BY DEF SnapInv
<1> QED
  BY <1>1, <1>2, <1>3 DEF SnapInv

LEMMA ScrapeStarts ==
  ASSUME SnapInv, StartScrape
  PROVE  SnapInv'
<1>1. /\ snapshot' = Blank /\ "timestamp" \in unread' /\ unread' \subseteq Families
  BY DEF StartScrape, Families
<1>2. \A f \in Labelled \cup Totals : Written(snapshot', f) = {}
  BY <1>1, BlankIsEmpty
<1>3. OneCyclePerFamily' /\ NothingOlderThanTimestamp'
  BY <1>1, <1>2 DEF OneCyclePerFamily, NothingOlderThanTimestamp
<1> QED
  BY <1>1, <1>2, <1>3, BlankIsEmpty DEF SnapInv

LEMMA GatherKeeps ==
  ASSUME RegistryInv, SnapInv, NEW g \in Families, Gather(g)
  PROVE  SnapInv'
<1>1. /\ g \in unread /\ unread' = unread \ {g} /\ registry' = registry
      /\ early' = IF "timestamp" \in unread THEN early \cup {g} ELSE early
  BY DEF Gather
<1>2. /\ snapshot' = [f \in Families |-> snapshot'[f]]
      /\ snapshot'[g] = registry[g]
      /\ \A f \in Families \ {g} : snapshot'[f] = snapshot[f]
  <2>1. DOMAIN snapshot = Families
    BY DEF SnapInv
  <2>2. snapshot' = [f \in Families |-> IF f = g THEN registry[g] ELSE snapshot[f]]
    BY <2>1 DEF Gather
  <2> QED
    BY <2>2
<1>3. /\ Written(snapshot', g) = Written(registry, g)
      /\ \A f \in Families : f # g => Written(snapshot', f) = Written(snapshot, f)
  BY <1>2 DEF Written
<1>4. /\ Labelled \cup Totals \subseteq Families /\ "timestamp" \in Families
      /\ "timestamp" \notin Labelled \cup Totals
  BY FamilyNames DEF Scalars, Families
<1>5. OneCyclePerFamily'
  BY <1>3, <1>4 DEF SnapInv, OneCyclePerFamily, RegistryInv
<1>6. CASE g = "timestamp"
  <2>1. /\ "timestamp" \notin unread' /\ "timestamp" \in unread
        /\ snapshot'["timestamp"] = registry["timestamp"]
    BY <1>1, <1>2, <1>6
  <2>2. \A f \in (Labelled \cup Totals) \ (unread' \cup early') :
           Written(snapshot', f) = {}
    BY <1>1, <1>3, <1>4, <1>6, <2>1 DEF SnapInv
  <2>3. NothingOlderThanTimestamp'
    BY <2>2 DEF NothingOlderThanTimestamp
  <2>4. snapshot'["timestamp"] \in Nat /\ snapshot'["timestamp"] <= registry'["timestamp"]
    BY <1>1, <2>1 DEF RegistryInv
  <2>5. unread' \subseteq Families
    BY <1>1 DEF SnapInv
  <2> QED
    BY <1>2, <1>5, <2>1, <2>3, <2>4, <2>5 DEF SnapInv
<1>7. CASE g # "timestamp" /\ "timestamp" \in unread
  <2>1. "timestamp" \in unread' /\ early' = early \cup {g}
    BY <1>1, <1>7
  <2>2. \A f \in (Labelled \cup Totals) \ (unread' \cup early') :
           Written(snapshot', f) = {}
    BY <1>1, <1>3, <1>4, <1>7, <2>1 DEF SnapInv
  <2>3. NothingOlderThanTimestamp'
    BY <2>2 DEF NothingOlderThanTimestamp
  <2>4. unread' \subseteq Families
    BY <1>1 DEF SnapInv
  <2> QED
    BY <1>2, <1>5, <2>1, <2>2, <2>3, <2>4 DEF SnapInv
<1>8. CASE g # "timestamp" /\ "timestamp" \notin unread
  <2>1. /\ "timestamp" \notin unread' /\ early' = early
        /\ snapshot'["timestamp"] = snapshot["timestamp"]
        /\ snapshot["timestamp"] \in Nat
        /\ snapshot["timestamp"] <= registry["timestamp"]
        /\ registry["timestamp"] \in Nat
    BY <1>1, <1>2, <1>4, <1>8 DEF SnapInv, RegistryInv
  <2>2. ASSUME NEW f \in (Labelled \cup Totals) \ (unread' \cup early'),
               NEW n \in Written(snapshot', f)
        PROVE  n >= snapshot'["timestamp"]
    <3>1. CASE f = g
      <4>1. n \in Nat /\ registry["timestamp"] <= n
        BY <1>3, <2>2, <3>1 DEF RegistryInv
      <4> QED
        BY <2>1, <4>1
    <3>2. CASE f # g
      <4>1. f \notin unread \cup early /\ n \in Written(snapshot, f)
        BY <1>1, <1>3, <1>4, <2>1, <2>2, <3>2
      <4> QED
        BY <1>8, <2>1, <2>2, <4>1 DEF SnapInv, NothingOlderThanTimestamp
    <3> QED
      BY <3>1, <3>2
  <2>3. NothingOlderThanTimestamp'
    BY <2>2 DEF NothingOlderThanTimestamp
  <2>4. unread' \subseteq Families
    BY <1>1 DEF SnapInv
  <2> QED
    BY <1>1, <1>2, <1>5, <2>1, <2>3, <2>4 DEF SnapInv
<1> QED
  BY <1>6, <1>7, <1>8

LEMMA Steps == IInv /\ [Next]_vars => IInv'
<1> SUFFICES ASSUME IInv, [Next]_vars PROVE IInv'
  OBVIOUS
<1>1. ScriptInv /\ RegistryInv /\ SnapInv /\ registry["timestamp"] \in Nat
  BY DEF IInv, RegistryInv
<1>2. CASE Collect
  <2>1. ScriptInv' /\ RegistryInv' /\ registry' = registry
    BY <1>1, <1>2, CollectKeeps
  <2>2. SnapInv'
    <3>1. UNCHANGED <<unread, snapshot, early>>
      BY <1>2 DEF Collect
    <3> QED
      BY <1>1, <2>1, <3>1, SnapKept
  <2> QED
    BY <2>1, <2>2 DEF IInv
<1>3. CASE Write
  <2>1. ScriptInv' /\ RegistryInv' /\ registry["timestamp"] <= registry'["timestamp"]
    BY <1>1, <1>3, WriteKeepsScript, WriteKeepsRegistry
  <2>2. SnapInv'
    <3>1. UNCHANGED <<unread, snapshot, early>> /\ registry'["timestamp"] \in Nat
      BY <1>3, <2>1 DEF Write, RegistryInv
    <3> QED
      BY <1>1, <2>1, <3>1, SnapKept
  <2> QED
    BY <2>1, <2>2 DEF IInv
<1>4. ASSUME UNCHANGED <<registry, cycle, script>> PROVE ScriptInv' /\ RegistryInv'
  <2>1. \A f : Written(registry', f) = Written(registry, f)
    BY <1>4
  <2>2. RegistryInv'
    BY <1>1, <1>4, <2>1 DEF RegistryInv
  <2>3. ScriptInv'
    BY <1>1, <1>4, <2>1 DEF ScriptInv, Fresh
  <2> QED
    BY <2>2, <2>3
<1>5. CASE StartScrape
  BY <1>1, <1>4, <1>5, ScrapeStarts DEF StartScrape, IInv
<1>6. ASSUME NEW f \in Families, Gather(f) PROVE IInv'
  BY <1>1, <1>4, <1>6, GatherKeeps DEF Gather, IInv
<1>7. CASE UNCHANGED vars
  BY <1>1, <1>4, <1>7, SnapKept DEF vars, IInv
<1> QED
  BY <1>2, <1>3, <1>5, <1>6, <1>7 DEF Next

LEMMA Invariance == Spec => []IInv
<1> QED
  BY Initially, Steps, PTL DEF Spec

\* A scrape never sees children of two cycles side by side in one labelled
\* gauge, whatever endpoints fail: the reset comes before the first child.
THEOREM OneCycle == Spec => []OneCyclePerFamily
<1>1. IInv => OneCyclePerFamily
  BY DEF IInv, SnapInv
<1> QED
  BY <1>1, Invariance, PTL

\* A scrape that has read the timestamp of a cycle reads nothing older from
\* then on: collect sets the timestamp after all its gauges.
THEOREM StampKept == Spec => []NothingOlderThanTimestamp
<1>1. IInv => NothingOlderThanTimestamp
  BY DEF IInv, SnapInv
<1> QED
  BY <1>1, Invariance, PTL
-----------------------------------------------------------------------------
(***************************************************************************)
(* Totals and breakdowns.  A publication is heading for one value x of     *)
(* both, the cycle or 0: a value that is not x, in the registry or among   *)
(* the writes to come, is one that a later write of the script replaces.   *)
(***************************************************************************)
Touches(w, f, l) == Clears(w, f) \/ (w.op = "child" /\ w.family = f /\ w.label = l)

SetsTo(s, f, x) ==
    \A k \in 1 .. Len(s) : s[k].family = f /\ s[k].op = "set" =>
        s[k].value = x \/ \E j \in k + 1 .. Len(s) : Clears(s[j], f)

FillsWith(s, f, x) ==
    \A k \in 1 .. Len(s) : s[k].family = f /\ s[k].op = "child" =>
        s[k].value = x \/ \E j \in k + 1 .. Len(s) : Touches(s[j], f, s[k].label)

\* The writes leave the family with a child, or reset it not.
LeavesChild(s, f) ==
    \E k \in 1 .. Len(s) :
        /\ s[k].family = f /\ s[k].op = "child"
        /\ \A j \in k + 1 .. Len(s) : ~(s[j].family = f /\ s[j].op = "reset")
NoReset(s, f) == \A j \in 1 .. Len(s) : ~(s[j].family = f /\ s[j].op = "reset")

Row(s, v) == s \in Seq(WritesOf(v))
Only(s, F) == \A k \in 1 .. Len(s) : s[k].family \in F

Joined(r, s, t) ==
    /\ Len(s) \in Nat /\ Len(t) \in Nat /\ Len(r) = Len(s) + Len(t)
    /\ \A i \in 1 .. Len(s) : i \in 1 .. Len(r) /\ r[i] = s[i]
    /\ \A i \in 1 .. Len(t) : Len(s) + i \in 1 .. Len(r) /\ r[Len(s) + i] = t[i]
    /\ \A k \in 1 .. Len(r) : k \in 1 .. Len(s) \/ \E i \in 1 .. Len(t) : k = Len(s) + i

LEMMA TwoRows ==
  ASSUME NEW v, NEW s, NEW t, Row(s, v), Row(t, v)
  PROVE  Row(s \o t, v) /\ Joined(s \o t, s, t)
<1> DEFINE r == s \o t
<1>1. s \in Seq(WritesOf(v)) /\ t \in Seq(WritesOf(v)) /\ r \in Seq(WritesOf(v))
  BY DEF Row
<1>2. /\ Len(s) \in Nat /\ Len(t) \in Nat /\ Len(r) = Len(s) + Len(t)
      /\ \A i \in 1 .. Len(s) : r[i] = s[i]
      /\ \A i \in 1 .. Len(t) : r[Len(s) + i] = t[i]
  BY <1>1
<1> HIDE DEF r
<1>3. ASSUME NEW k \in 1 .. Len(r), k \notin 1 .. Len(s)
      PROVE  k - Len(s) \in 1 .. Len(t) /\ k = Len(s) + (k - Len(s))
  BY <1>2, <1>3
<1>4. /\ \A i \in 1 .. Len(s) : i \in 1 .. Len(r)
      /\ \A i \in 1 .. Len(t) : Len(s) + i \in 1 .. Len(r)
  BY <1>2
<1>5. \A k \in 1 .. Len(r) : k \in 1 .. Len(s) \/ \E i \in 1 .. Len(t) : k = Len(s) + i
  BY <1>3
<1>6. Joined(r, s, t)
  BY <1>2, <1>4, <1>5 DEF Joined
<1> QED
  BY <1>1, <1>6 DEF Row, r

LEMMA JoinFills ==
  ASSUME NEW v, NEW s, NEW t, Row(s, v), Row(t, v), NEW f, NEW x,
         FillsWith(s, f, x), FillsWith(t, f, x)
  PROVE  FillsWith(s \o t, f, x)
<1> DEFINE r == s \o t
<1> DEFINE m == Len(s)
<1>1. /\ m \in Nat /\ Len(t) \in Nat /\ Len(r) = m + Len(t)
      /\ \A i \in 1 .. m : r[i] = s[i]
      /\ \A i \in 1 .. Len(t) : r[m + i] = t[i]
      /\ \A k \in 1 .. Len(r) : k \in 1 .. m \/ \E i \in 1 .. Len(t) : k = m + i
  <2>1. Joined(r, s, t)
    BY TwoRows
  <2> HIDE DEF r
  <2> QED
    BY <2>1 DEF Joined
<1> HIDE DEF r
<1> SUFFICES ASSUME NEW k \in 1 .. Len(r), r[k].family = f, r[k].op = "child",
                    r[k].value # x
             PROVE  \E j \in k + 1 .. Len(r) : Touches(r[j], f, r[k].label)
  BY DEF FillsWith, r
<1>2. CASE k \in 1 .. m
  <2>1. PICK j \in k + 1 .. m : Touches(s[j], f, s[k].label)
    BY <1>1, <1>2 DEF FillsWith
  <2>2. j \in 1 .. m /\ j \in k + 1 .. Len(r)
    BY <1>1, <1>2
  <2> QED
    BY <1>1, <1>2, <2>1, <2>2
<1>3. ASSUME NEW i \in 1 .. Len(t), k = m + i
      PROVE  \E j \in k + 1 .. Len(r) : Touches(r[j], f, r[k].label)
  <2>1. PICK j \in i + 1 .. Len(t) : Touches(t[j], f, t[i].label)
    BY <1>1, <1>3 DEF FillsWith
  <2>2. j \in 1 .. Len(t) /\ m + j \in k + 1 .. Len(r)
    BY <1>1, <1>3
  <2>3. r[m + j] = t[j] /\ r[k] = t[i]
    BY <1>1, <1>3, <2>2
  <2> QED
    BY <2>1, <2>2, <2>3
<1> QED
  BY <1>1, <1>2, <1>3

LEMMA JoinSets ==
  ASSUME NEW v, NEW s, NEW t, Row(s, v), Row(t, v), NEW f, NEW x,
         SetsTo(s, f, x) \/ Covers(t, f), SetsTo(t, f, x)
  PROVE  SetsTo(s \o t, f, x)
<1> DEFINE r == s \o t
<1> DEFINE m == Len(s)
<1>1. /\ m \in Nat /\ Len(t) \in Nat /\ Len(r) = m + Len(t)
      /\ \A i \in 1 .. m : r[i] = s[i]
      /\ \A i \in 1 .. Len(t) : r[m + i] = t[i]
      /\ \A k \in 1 .. Len(r) : k \in 1 .. m \/ \E i \in 1 .. Len(t) : k = m + i
  <2>1. Joined(r, s, t)
    BY TwoRows
  <2> HIDE DEF r
  <2> QED
    BY <2>1 DEF Joined
<1> HIDE DEF r
<1> SUFFICES ASSUME NEW k \in 1 .. Len(r), r[k].family = f, r[k].op = "set",
                    r[k].value # x
             PROVE  \E j \in k + 1 .. Len(r) : Clears(r[j], f)
  BY DEF SetsTo, r
<1>2. CASE k \in 1 .. m /\ Covers(t, f)
  <2>1. PICK j \in 1 .. Len(t) : Clears(t[j], f)
    BY <1>2 DEF Covers
  <2>2. m + j \in k + 1 .. Len(r) /\ r[m + j] = t[j]
    BY <1>1, <1>2
  <2> QED
    BY <2>1, <2>2
<1>3. CASE k \in 1 .. m /\ SetsTo(s, f, x)
  <2>1. PICK j \in k + 1 .. m : Clears(s[j], f)
    BY <1>1, <1>3 DEF SetsTo
  <2>2. j \in 1 .. m /\ j \in k + 1 .. Len(r)
    BY <1>1, <1>3
  <2> QED
    BY <1>1, <2>1, <2>2
<1>4. ASSUME NEW i \in 1 .. Len(t), k = m + i
      PROVE  \E j \in k + 1 .. Len(r) : Clears(r[j], f)
  <2>1. PICK j \in i + 1 .. Len(t) : Clears(t[j], f)
    BY <1>1, <1>4 DEF SetsTo
  <2>2. j \in 1 .. Len(t) /\ m + j \in k + 1 .. Len(r)
    BY <1>1, <1>4
  <2> QED
    BY <1>1, <2>1, <2>2
<1> QED
  BY <1>1, <1>2, <1>3, <1>4

LEMMA JoinRest ==
  ASSUME NEW v, NEW s, NEW t, Row(s, v), Row(t, v), NEW f
  PROVE  /\ Covers(s, f) \/ Covers(t, f) => Covers(s \o t, f)
         /\ NoReset(s, f) /\ NoReset(t, f) => NoReset(s \o t, f)
         /\ LeavesChild(t, f) => LeavesChild(s \o t, f)
         /\ LeavesChild(s, f) /\ NoReset(t, f) => LeavesChild(s \o t, f)
         /\ \A F : Only(s, F) /\ Only(t, F) => Only(s \o t, F)
<1> DEFINE r == s \o t
<1> DEFINE m == Len(s)
<1>1. /\ m \in Nat /\ Len(t) \in Nat /\ Len(r) = m + Len(t)
      /\ \A i \in 1 .. m : i \in 1 .. Len(r) /\ r[i] = s[i]
      /\ \A i \in 1 .. Len(t) : m + i \in 1 .. Len(r) /\ r[m + i] = t[i]
      /\ \A k \in 1 .. Len(r) : k \in 1 .. m \/ \E i \in 1 .. Len(t) : k = m + i
  <2>1. Joined(r, s, t)
    BY TwoRows
  <2> HIDE DEF r
  <2> QED
    BY <2>1 DEF Joined
<1> HIDE DEF r
<1>2. Covers(s, f) \/ Covers(t, f) => Covers(r, f)
  BY <1>1 DEF Covers
<1>3. ASSUME NoReset(s, f), NoReset(t, f) PROVE NoReset(r, f)
  <2> SUFFICES ASSUME NEW j \in 1 .. Len(r) PROVE ~(r[j].family = f /\ r[j].op = "reset")
    BY DEF NoReset
  <2>1. CASE j \in 1 .. m
    BY <1>1, <1>3, <2>1 DEF NoReset
  <2>2. ASSUME NEW i \in 1 .. Len(t), j = m + i
        PROVE  ~(r[j].family = f /\ r[j].op = "reset")
    BY <1>1, <1>3, <2>2 DEF NoReset
  <2> QED
    BY <1>1, <2>1, <2>2
<1>4. ASSUME LeavesChild(t, f) PROVE LeavesChild(r, f)
  <2>1. PICK k \in 1 .. Len(t) :
           /\ t[k].family = f /\ t[k].op = "child"
           /\ \A j \in k + 1 .. Len(t) : ~(t[j].family = f /\ t[j].op = "reset")
    BY <1>4 DEF LeavesChild
  <2>2. ASSUME NEW j \in m + k + 1 .. Len(r) PROVE ~(r[j].family = f /\ r[j].op = "reset")
    <3>1. j - m \in k + 1 .. Len(t) /\ j - m \in 1 .. Len(t) /\ m + (j - m) = j
      BY <1>1, <2>2
    <3>2. r[j] = t[j - m]
      BY <1>1, <3>1
    <3> QED
      BY <2>1, <3>1, <3>2
  <2> QED
    BY <1>1, <2>1, <2>2 DEF LeavesChild
<1>5. ASSUME LeavesChild(s, f), NoReset(t, f) PROVE LeavesChild(r, f)
  <2>1. PICK k \in 1 .. m :
           /\ s[k].family = f /\ s[k].op = "child"
           /\ \A j \in k + 1 .. m : ~(s[j].family = f /\ s[j].op = "reset")
    BY <1>5 DEF LeavesChild
  <2>2. ASSUME NEW j \in k + 1 .. Len(r) PROVE ~(r[j].family = f /\ r[j].op = "reset")
    <3>1. j \in 1 .. Len(r) /\ (j \in 1 .. m => j \in k + 1 .. m)
      BY <1>1, <2>2
    <3>2. CASE j \in 1 .. m
      BY <1>1, <2>1, <3>1, <3>2
    <3>3. ASSUME NEW i \in 1 .. Len(t), j = m + i PROVE ~(r[j].family = f /\ r[j].op = "reset")
      BY <1>1, <1>5, <3>3 DEF NoReset
    <3> QED
      BY <1>1, <3>1, <3>2, <3>3
  <2> QED
    BY <1>1, <2>1, <2>2 DEF LeavesChild
<1>6. \A F : Only(s, F) /\ Only(t, F) => Only(r, F)
  BY <1>1 DEF Only
<1> QED
  BY <1>2, <1>3, <1>4, <1>5, <1>6 DEF r

\* The simplest rows.
LEMMA Single ==
  ASSUME NEW v, NEW w \in WritesOf(v), NEW f, NEW x
  PROVE  /\ Row(<<w>>, v) /\ Only(<<w>>, {w.family})
         /\ (w.op = "set" => w.value = x) => SetsTo(<<w>>, f, x)
         /\ w.op # "child" => FillsWith(<<w>>, f, x)
         /\ w.op # "reset" => NoReset(<<w>>, f)
         /\ Clears(w, f) => Covers(<<w>>, f)
<1>1. <<w>> \in Seq(WritesOf(v)) /\ Len(<<w>>) = 1 /\ <<w>>[1] = w
  BY OneWrite
<1> DEFINE s == <<w>>
<1> HIDE DEF s
<1>2. Len(s) = 1 /\ s[1] = w /\ \A k \in 1 .. Len(s) : s[k] = w
  BY <1>1 DEF s
<1>3. /\ Only(s, {w.family})
      /\ (w.op = "set" => w.value = x) => SetsTo(s, f, x)
      /\ w.op # "child" => FillsWith(s, f, x)
      /\ w.op # "reset" => NoReset(s, f)
      /\ Clears(w, f) => Covers(s, f)
  BY <1>2 DEF Only, SetsTo, FillsWith, NoReset, Covers
<1> QED
  BY <1>1, <1>3 DEF s, Row

LEMMA Empty ==
  ASSUME NEW v, NEW f, NEW x, NEW F
  PROVE  /\ Row(<< >>, v) /\ Only(<< >>, F)
         /\ SetsTo(<< >>, f, x) /\ FillsWith(<< >>, f, x) /\ NoReset(<< >>, f)
  BY DEF Row, Only, SetsTo, FillsWith, NoReset

\* Writes of other families leave these alone.
LEMMA Elsewhere ==
  ASSUME NEW s, NEW F, Only(s, F), NEW f, f \notin F, NEW x
  PROVE  SetsTo(s, f, x) /\ FillsWith(s, f, x) /\ NoReset(s, f)
  BY DEF Only, SetsTo, FillsWith, NoReset

\* A child that is created with 0 is set right after it.
LEMMA FillSettles ==
  ASSUME NEW f \in Labelled, NEW labels \in SUBSET Labels, NEW v
  PROVE  /\ Row(Fill(f, labels, v), v) /\ Only(Fill(f, labels, v), {f})
         /\ FillsWith(Fill(f, labels, v), f, v)
         /\ \A g, x : SetsTo(Fill(f, labels, v), g, x)
         /\ labels # {} => LeavesChild(Fill(f, labels, v), f)
<1> DEFINE c == Cardinality(labels)
<1> DEFINE n == 2 * c
<1> DEFINE s == Fill(f, labels, v)
<1>1. IsFiniteSet(labels)
  BY ExpositionAssumption, FS_Subset
<1>2. c \in Nat /\ n \in Nat
  BY <1>1, Listed
<1>3. s \in Seq(WritesOf(v)) /\ Len(s) = n
  BY Filling
<1>4. \A k \in 1 .. n :
         s[k] = IF k % 2 = 1 THEN Touch(f, SetToSeq(labels)[(k + 1) \div 2])
                             ELSE SetChild(f, SetToSeq(labels)[k \div 2], v)
  BY DEF Fill
<1>5. labels # {} => c # 0
  BY <1>1, FS_EmptySet
<1> HIDE DEF s, c
<1>6. ASSUME NEW k \in 1 .. n
      PROVE  /\ s[k].op = "child" /\ s[k].family = f
             /\ \/ s[k].value = v
                \/ k + 1 \in 1 .. n /\ Touches(s[k + 1], f, s[k].label)
  <2>1. CASE k % 2 = 1
    <3>1. k + 1 \in 1 .. n /\ (k + 1) % 2 # 1
      BY <1>2, <2>1
    <3>2. s[k] = Touch(f, SetToSeq(labels)[(k + 1) \div 2])
      BY <1>4, <2>1
    <3>3. s[k + 1] = SetChild(f, SetToSeq(labels)[(k + 1) \div 2], v)
      BY <1>4, <3>1
    <3> QED
      BY <3>1, <3>2, <3>3 DEF Touch, SetChild, Touches
  <2>2. CASE k % 2 # 1
    <3>1. s[k] = SetChild(f, SetToSeq(labels)[k \div 2], v)
      BY <1>4, <2>2
    <3> QED
      BY <3>1 DEF SetChild
  <2> QED
    BY <2>1, <2>2
<1>7. FillsWith(s, f, v)
  <2> SUFFICES ASSUME NEW k \in 1 .. n, s[k].value # v
               PROVE  \E j \in k + 1 .. n : Touches(s[j], f, s[k].label)
    BY <1>3, <1>6 DEF FillsWith
  <2>1. k + 1 \in 1 .. n /\ Touches(s[k + 1], f, s[k].label)
    BY <1>6
  <2>2. k + 1 \in k + 1 .. n
    BY <1>2, <2>1
  <2> QED
    BY <2>1, <2>2
<1>8. Only(s, {f}) /\ \A g, x : SetsTo(s, g, x)
  BY <1>3, <1>6 DEF Only, SetsTo
<1>9. ASSUME labels # {} PROVE LeavesChild(s, f)
  <2>1. 1 \in 1 .. n
    BY <1>2, <1>5, <1>9
  <2>2. \A j \in 1 + 1 .. n : j \in 1 .. n
    BY <1>2
  <2> QED
    BY <1>3, <1>6, <2>1, <2>2 DEF LeavesChild
<1> QED
  BY <1>3, <1>8, <1>7, <1>9 DEF s, Row

\* What a row does to the total and the breakdown of an endpoint.
Settles(s, e, x) ==
    /\ SetsTo(s, Total[e], x) /\ FillsWith(s, Breakdown[e], x)
    /\ e = "counts" /\ x # 0 => LeavesChild(s, Breakdown[e])

Own(e) == IF e \in DOMAIN Total THEN {Breakdown[e], Total[e]} ELSE {Breakdown[e]}

LEMMA SessionsSettle ==
  ASSUME "sessions" \in Endpoints, NEW v, NEW ok, NEW labels \in SUBSET Labels
  PROVE  /\ Only(SessionWrites(ok, labels, v), Own("sessions"))
         /\ \E x : Settles(SessionWrites(ok, labels, v), "sessions", x)
<1> DEFINE B == "sessions_active"
<1> DEFINE T == "sessions_active_count"
<1> DEFINE R == <<Reset(B)>>
<1> DEFINE Z == <<Set(T, 0)>>
<1> DEFINE N == <<Set(T, v)>>
<1> DEFINE F == Fill(B, labels, v)
<1>1. /\ B \in Labelled /\ T \in Totals /\ "sessions" \in DOMAIN Total
      /\ Breakdown["sessions"] = B /\ Total["sessions"] = T
  BY DEF Labelled, Totals, Breakdown, Total
<1>2. Own("sessions") = {B, T}
  BY <1>1 DEF Own
<1>3. R \o Z = <<Reset(B), Set(T, 0)>>
  BY Pair
<1> DEFINE ow == Own("sessions")
<1>4. Reset(B) \in WritesOf(v) /\ Set(T, 0) \in WritesOf(v) /\ Set(T, v) \in WritesOf(v)
  BY <1>1 DEF Reset, Set, WritesOf
<1>5. /\ Row(R, v) /\ Only(R, {B}) /\ FillsWith(R, B, 0) /\ SetsTo(R, T, 0)
      /\ FillsWith(R, B, v)
  BY <1>4, Single DEF Reset
<1>6. /\ Row(Z, v) /\ Only(Z, {T}) /\ FillsWith(Z, B, 0) /\ SetsTo(Z, T, 0)
      /\ FillsWith(Z, B, v)
  BY <1>4, Single DEF Set
<1>7. /\ Row(N, v) /\ Only(N, {T}) /\ FillsWith(N, B, v) /\ SetsTo(N, T, v)
      /\ Covers(N, T)
  BY <1>4, Single DEF Set, Clears
<1>8. Row(F, v) /\ Only(F, {B}) /\ FillsWith(F, B, v) /\ SetsTo(F, T, v)
  BY <1>1, FillSettles
<1>9. SessionWrites(ok, labels, v) = (R \o Z) \o IF ok THEN N \o F ELSE << >>
  BY <1>3 DEF SessionWrites
<1> HIDE DEF R, Z, N, F, B, T
<1>10. /\ Row(R \o Z, v) /\ FillsWith(R \o Z, B, 0) /\ FillsWith(R \o Z, B, v)
       /\ SetsTo(R \o Z, T, 0)
  BY <1>5, <1>6, TwoRows, JoinFills, JoinSets
<1>11. /\ Row(N \o F, v) /\ FillsWith(N \o F, B, v) /\ SetsTo(N \o F, T, v)
       /\ Covers(N \o F, T)
  BY <1>7, <1>8, TwoRows, JoinFills, JoinSets, JoinRest
<1>12. /\ FillsWith((R \o Z) \o (N \o F), B, v)
       /\ SetsTo((R \o Z) \o (N \o F), T, v)
  BY <1>10, <1>11, JoinFills, JoinSets
<1>13. /\ FillsWith((R \o Z) \o << >>, B, 0) /\ SetsTo((R \o Z) \o << >>, T, 0)
  BY <1>10, Empty, JoinFills, JoinSets
<1>14. Only(R, {B, T}) /\ Only(Z, {B, T}) /\ Only(N, {B, T}) /\ Only(F, {B, T})
  BY <1>5, <1>6, <1>7, <1>8 DEF Only
<1>15. Only(R \o Z, {B, T}) /\ Only(N \o F, {B, T})
  BY <1>5, <1>6, <1>7, <1>8, <1>14, JoinRest
<1>16. Only((R \o Z) \o (N \o F), {B, T}) /\ Only((R \o Z) \o << >>, {B, T})
  BY <1>10, <1>11, <1>15, Empty, JoinRest
<1> QED
  BY <1>1, <1>2, <1>9, <1>12, <1>13, <1>16 DEF Settles

LEMMA CountsSettle ==
  ASSUME "counts" \in Endpoints, NEW v, NEW ok, Labels # {}
  PROVE  /\ Only(CountWrites(ok, v), Own("counts"))
         /\ \E x : Settles(CountWrites(ok, v), "counts", x)
<1> DEFINE B == "items_by_type"
<1> DEFINE T == "items_count"
<1> DEFINE R == <<Reset(B)>>
<1> DEFINE Z == <<Set(T, 0)>>
<1> DEFINE N == <<Set(T, v)>>
<1> DEFINE F == Fill(B, Labels, v)
<1>1. /\ B \in Labelled /\ T \in Totals /\ "counts" \in DOMAIN Total
      /\ Breakdown["counts"] = B /\ Total["counts"] = T
  BY DEF Labelled, Totals, Breakdown, Total
<1>2. Own("counts") = {B, T}
  BY <1>1 DEF Own
<1>3. R \o Z = <<Reset(B), Set(T, 0)>>
  BY Pair
<1>4. Reset(B) \in WritesOf(v) /\ Set(T, 0) \in WritesOf(v) /\ Set(T, v) \in WritesOf(v)
  BY <1>1 DEF Reset, Set, WritesOf
<1>5. /\ Row(R, v) /\ Only(R, {B}) /\ FillsWith(R, B, 0) /\ SetsTo(R, T, 0)
      /\ FillsWith(R, B, v)
  BY <1>4, Single DEF Reset
<1>6. /\ Row(Z, v) /\ Only(Z, {T}) /\ FillsWith(Z, B, 0) /\ SetsTo(Z, T, 0)
      /\ FillsWith(Z, B, v)
  BY <1>4, Single DEF Set
<1>7. /\ Row(N, v) /\ Only(N, {T}) /\ FillsWith(N, B, v) /\ SetsTo(N, T, v)
      /\ Covers(N, T) /\ NoReset(N, B)
  BY <1>4, Single DEF Set, Clears
<1>8. /\ Row(F, v) /\ Only(F, {B}) /\ FillsWith(F, B, v) /\ SetsTo(F, T, v)
      /\ LeavesChild(F, B)
  BY <1>1, FillSettles
<1>9. CountWrites(ok, v) = (R \o Z) \o IF ok THEN F \o N ELSE << >>
  BY <1>3 DEF CountWrites
<1> HIDE DEF R, Z, N, F, B, T
<1>10. /\ Row(R \o Z, v) /\ FillsWith(R \o Z, B, 0) /\ FillsWith(R \o Z, B, v)
       /\ SetsTo(R \o Z, T, 0)
  BY <1>5, <1>6, TwoRows, JoinFills, JoinSets
<1>11. /\ Row(F \o N, v) /\ FillsWith(F \o N, B, v) /\ SetsTo(F \o N, T, v)
       /\ Covers(F \o N, T) /\ LeavesChild(F \o N, B)
  BY <1>7, <1>8, TwoRows, JoinFills, JoinSets, JoinRest
<1>12. /\ FillsWith((R \o Z) \o (F \o N), B, v)
       /\ SetsTo((R \o Z) \o (F \o N), T, v)
       /\ LeavesChild((R \o Z) \o (F \o N), B)
  BY <1>10, <1>11, JoinFills, JoinSets, JoinRest
<1>13. /\ FillsWith((R \o Z) \o << >>, B, 0) /\ SetsTo((R \o Z) \o << >>, T, 0)
  BY <1>10, Empty, JoinFills, JoinSets
<1>14. Only(R, {B, T}) /\ Only(Z, {B, T}) /\ Only(N, {B, T}) /\ Only(F, {B, T})
  BY <1>5, <1>6, <1>7, <1>8 DEF Only
<1>15. Only(R \o Z, {B, T}) /\ Only(F \o N, {B, T})
  BY <1>5, <1>6, <1>7, <1>8, <1>14, JoinRest
<1>16. Only((R \o Z) \o (F \o N), {B, T}) /\ Only((R \o Z) \o << >>, {B, T})
  BY <1>10, <1>11, <1>15, Empty, JoinRest
<1> QED
  BY <1>1, <1>2, <1>9, <1>12, <1>13, <1>16 DEF Settles

LEMMA LabelledOnly ==
  ASSUME NEW v, NEW f \in Labelled, NEW ok, NEW labels \in SUBSET Labels
  PROVE  Only(LabelledWrites(f, ok, labels, v), {f})
<1> DEFINE R == <<Reset(f)>>
<1> DEFINE F == Fill(f, labels, v)
<1>1. Reset(f) \in WritesOf(v)
  BY DEF Reset, WritesOf
<1>2. Row(R, v) /\ Only(R, {f})
  BY <1>1, Single DEF Reset
<1>3. Row(F, v) /\ Only(F, {f})
  BY FillSettles
<1>4. LabelledWrites(f, ok, labels, v) = R \o IF ok THEN F ELSE << >>
  BY DEF LabelledWrites
<1> HIDE DEF R, F
<1>5. Only(R \o F, {f}) /\ Only(R \o << >>, {f})
  BY <1>2, <1>3, Empty, JoinRest
<1> QED
  BY <1>4, <1>5

\* The families that have nothing to do with the endpoint.
Others(e) == Families \ {Breakdown[e], Total[e]}

\* An endpoint's writes settle its total and breakdown, and no others.
LEMMA EndpointSettles ==
  ASSUME NEW v, NEW good, NEW labels \in SUBSET Labels, NEW server \in Labels,
         NEW e \in {"sessions", "counts"},
         NEW d \in {"sessions", "libraries", "counts", "system"}
  PROVE  /\ Row(EndpointWrites(d, good, labels, server, v), v)
         /\ d # e => Only(EndpointWrites(d, good, labels, server, v), Others(e))
         /\ d = e /\ e \in Endpoints =>
               \E x : Settles(EndpointWrites(d, good, labels, server, v), e, x)
<1> DEFINE W == EndpointWrites(d, good, labels, server, v)
<1>1. Row(W, v)
  BY EndpointSound DEF Row, Sound
<1>2. CASE d \notin Endpoints
  BY <1>1, <1>2, Empty DEF EndpointWrites
<1>3. ASSUME d \in Endpoints PROVE Only(W, Own(d))
  <2>1. Breakdown[d] \in Labelled
    BY <1>3 DEF Labelled
  <2>2. CASE d = "sessions"
    BY <1>3, <2>2, SessionsSettle DEF EndpointWrites
  <2>3. CASE d = "counts"
    BY <1>3, <2>3, CountsSettle DEF EndpointWrites
  <2>4. CASE d = "libraries"
    BY <1>3, <2>1, <2>4, LabelledOnly DEF EndpointWrites, Own, Breakdown, Total
  <2>5. CASE d = "system"
    BY <1>3, <2>1, <2>5, LabelledOnly DEF EndpointWrites, Own, Breakdown, Total
  <2> QED
    BY <2>2, <2>3, <2>4, <2>5
<1>4. ASSUME d \in Endpoints, d = e PROVE \E x : Settles(W, e, x)
  <2>1. CASE d = "sessions"
    BY <1>4, <2>1, SessionsSettle DEF EndpointWrites
  <2>2. CASE d = "counts"
    BY <1>4, <2>2, CountsSettle DEF EndpointWrites
  <2> QED
    BY <1>4, <2>1, <2>2
<1>5. ASSUME d \in Endpoints, d # e PROVE Only(W, Others(e))
  <2>1. Own(d) \subseteq Families
    BY <1>5 DEF Own, Families, Labelled, Totals
  <2>2. Breakdown[e] \notin Own(d) /\ Total[e] \notin Own(d)
    BY <1>5 DEF Own, Breakdown, Total
  <2>3. Own(d) \subseteq Others(e)
    BY <2>1, <2>2 DEF Others
  <2> QED
    BY <1>3, <1>5, <2>3 DEF Only
<1> QED
  BY <1>1, <1>2, <1>4, <1>5

LEMMA JoinSettles ==
  ASSUME NEW v, NEW s, NEW t, Row(s, v), Row(t, v), NEW e, NEW x,
         \/ Settles(s, e, x) /\ Only(t, Others(e))
         \/ Only(s, Others(e)) /\ Settles(t, e, x)
  PROVE  Settles(s \o t, e, x)
<1>1. Breakdown[e] \notin Others(e) /\ Total[e] \notin Others(e)
  BY DEF Others
<1>2. CASE Settles(s, e, x) /\ Only(t, Others(e))
  <2>1. /\ SetsTo(t, Total[e], x) /\ FillsWith(t, Breakdown[e], x)
        /\ NoReset(t, Breakdown[e])
    BY <1>1, <1>2, Elsewhere
  <2> QED
    BY <1>2, <2>1, JoinSets, JoinFills, JoinRest DEF Settles
<1>3. CASE Only(s, Others(e)) /\ Settles(t, e, x)
  <2>1. SetsTo(s, Total[e], x) /\ FillsWith(s, Breakdown[e], x)
    BY <1>1, <1>3, Elsewhere
  <2> QED
    BY <1>3, <2>1, JoinSets, JoinFills, JoinRest DEF Settles
<1> QED
  BY <1>2, <1>3

\* A publication settles every total with its breakdown, on some value.
LEMMA PublicationSettles ==
  ASSUME NEW v, NEW good, NEW labels \in SUBSET Labels, NEW server \in Labels,
         NEW e \in Endpoints \cap DOMAIN Total
  PROVE  /\ Covers(PublishWrites(good, labels, server, v), Total[e])
         /\ Covers(PublishWrites(good, labels, server, v), Breakdown[e])
         /\ \E x : Settles(PublishWrites(good, labels, server, v), e, x)
<1> DEFINE W(d) == EndpointWrites(d, good, labels, server, v)
<1> DEFINE G == GaugeWrites(good, labels, server, v)
<1> DEFINE T == Timestamp(good, v)
<1> DEFINE O == Others(e)
<1>1. e \in {"sessions", "counts"}
  BY DEF Total
<1>2. \A d \in {"sessions", "libraries", "counts", "system"} :
         /\ Row(W(d), v)
         /\ d # e => Only(W(d), O)
         /\ d = e => \E x : Settles(W(d), e, x)
  BY <1>1, EndpointSettles
<1>3. G = W("sessions") \o W("libraries") \o W("counts") \o W("system")
  BY DEF GaugeWrites
<1>4. Covers(G, Total[e]) /\ Covers(G, Breakdown[e]) /\ Row(G, v)
  <2>1. Total[e] \in Totals /\ Breakdown[e] \in Labelled
    BY DEF Totals, Labelled
  <2> QED
    BY <2>1, GaugesSound DEF Sound, Row
<1>5. Row(T, v) /\ Only(T, O)
  <2>1. Set("timestamp", v) \in WritesOf(v)
    BY DEF Set, WritesOf
  <2>2. "timestamp" \in O
    BY <1>1 DEF Others, Families, Breakdown, Total
  <2>3. Row(<<Set("timestamp", v)>>, v) /\ Only(<<Set("timestamp", v)>>, {"timestamp"})
    BY <2>1, Single DEF Set
  <2>4. Only(<<Set("timestamp", v)>>, O)
    BY <2>2, <2>3 DEF Only
  <2>5. Row(<< >>, v) /\ Only(<< >>, O)
    BY Empty
  <2> HIDE DEF O
  <2> QED
    BY <2>3, <2>4, <2>5 DEF Timestamp
<1> HIDE DEF W, G, T
<1>6. PICK x : Settles(W(e), e, x)
  BY <1>1, <1>2
<1> DEFINE SL == W("sessions") \o W("libraries")
<1> DEFINE SLC == SL \o W("counts")
<1>7. Row(SL, v) /\ Row(SLC, v) /\ G = SLC \o W("system")
  BY <1>2, <1>3, TwoRows
<1>8. Settles(G, e, x)
  <2>1. CASE e = "sessions"
    <3>1. Settles(SL, e, x)
      BY <1>2, <1>6, <2>1, JoinSettles
    <3>2. Settles(SLC, e, x)
      BY <1>2, <1>7, <2>1, <3>1, JoinSettles
    <3> QED
      BY <1>2, <1>7, <2>1, <3>2, JoinSettles
  <2>2. CASE e = "counts"
    <3>1. Only(SL, O)
      BY <1>2, <2>2, JoinRest
    <3>2. Settles(SLC, e, x)
      BY <1>2, <1>6, <1>7, <2>2, <3>1, JoinSettles
    <3> QED
      BY <1>2, <1>7, <2>2, <3>2, JoinSettles
  <2> QED
    BY <1>1, <2>1, <2>2
<1>9. Settles(G \o T, e, x)
  BY <1>4, <1>5, <1>8, JoinSettles
<1>10. Covers(G \o T, Total[e]) /\ Covers(G \o T, Breakdown[e])
  BY <1>4, <1>5, JoinRest
<1> QED
  BY <1>9, <1>10 DEF PublishWrites, G, T

\* Some write to come touches the child.
Pending(s, f, l) == \E j \in 1 .. Len(s) : Touches(s[j], f, l)

\* After the first write of a row.
LEMMA AfterOne ==
  ASSUME NEW v, NEW s, Row(s, v), s # << >>, NEW f, NEW x
  PROVE  /\ Covers(s, f) => Clears(s[1], f) \/ Covers(Tail(s), f)
         /\ \A l : Pending(s, f, l) => Touches(s[1], f, l) \/ Pending(Tail(s), f, l)
         /\ SetsTo(s, f, x) =>
               /\ SetsTo(Tail(s), f, x)
               /\ s[1].family = f /\ s[1].op = "set" =>
                     s[1].value = x \/ Covers(Tail(s), f)
         /\ FillsWith(s, f, x) =>
               /\ FillsWith(Tail(s), f, x)
               /\ s[1].family = f /\ s[1].op = "child" =>
                     s[1].value = x \/ Pending(Tail(s), f, s[1].label)
         /\ NoReset(s, f) =>
               NoReset(Tail(s), f) /\ ~(s[1].family = f /\ s[1].op = "reset")
         /\ LeavesChild(s, f) =>
               \/ LeavesChild(Tail(s), f)
               \/ s[1].family = f /\ s[1].op = "child" /\ NoReset(Tail(s), f)
<1> DEFINE t == Tail(s)
<1> DEFINE n == Len(s)
<1>1. /\ n \in Nat /\ 1 \in 1 .. n /\ Len(t) = n - 1
      /\ \A k \in 1 .. Len(t) : t[k] = s[k + 1]
  BY DEF Row
<1> HIDE DEF t, n
<1>2. \A k \in 1 .. Len(t) : k + 1 \in 1 .. n
  BY <1>1
<1>3. \A j \in 1 .. n : j = 1 \/ (j - 1 \in 1 .. Len(t) /\ t[j - 1] = s[j])
  BY <1>1
<1>4. \A i \in 1 .. n : \A j \in i + 1 .. n :
         j \in 1 .. n /\ j # 1 /\ (i # 1 => j - 1 \in (i - 1) + 1 .. Len(t))
  BY <1>1
<1>5. ASSUME Covers(s, f) PROVE Clears(s[1], f) \/ Covers(t, f)
  <2>1. PICK j \in 1 .. n : Clears(s[j], f)
    BY <1>5 DEF Covers, n
  <2> QED
    BY <1>3, <2>1 DEF Covers
<1>6. ASSUME NEW l, Pending(s, f, l) PROVE Touches(s[1], f, l) \/ Pending(t, f, l)
  <2>1. PICK j \in 1 .. n : Touches(s[j], f, l)
    BY <1>6 DEF Pending, n
  <2> QED
    BY <1>3, <2>1 DEF Pending
<1>7. ASSUME NEW k \in 1 .. Len(t)
      PROVE  /\ k + 1 \in 1 .. n /\ t[k] = s[k + 1]
             /\ \A j \in (k + 1) + 1 .. n :
                   j - 1 \in k + 1 .. Len(t) /\ t[j - 1] = s[j]
             /\ \A j \in k + 1 .. Len(t) :
                   j + 1 \in (k + 1) + 1 .. n /\ t[j] = s[j + 1]
  <2>1. \A j \in (k + 1) + 1 .. n : j - 1 \in k + 1 .. Len(t) /\ j \in 1 .. n /\ j # 1
    BY <1>1
  <2>2. \A j \in k + 1 .. Len(t) : j + 1 \in (k + 1) + 1 .. n /\ j \in 1 .. Len(t)
    BY <1>1
  <2> QED
    BY <1>1, <1>2, <1>3, <2>1, <2>2
<1>8. \A j \in 2 .. n : j - 1 \in 1 .. Len(t) /\ t[j - 1] = s[j]
  BY <1>1
<1>9. ASSUME SetsTo(s, f, x)
      PROVE  /\ SetsTo(t, f, x)
             /\ s[1].family = f /\ s[1].op = "set" => s[1].value = x \/ Covers(t, f)
  <2>1. \A k \in 1 .. n : s[k].family = f /\ s[k].op = "set" =>
           s[k].value = x \/ \E j \in k + 1 .. n : Clears(s[j], f)
    BY <1>9 DEF SetsTo, n
  <2>2. SetsTo(t, f, x)
    <3> SUFFICES ASSUME NEW k \in 1 .. Len(t), t[k].family = f, t[k].op = "set",
                        t[k].value # x
                 PROVE  \E j \in k + 1 .. Len(t) : Clears(t[j], f)
      BY DEF SetsTo
    <3>1. PICK j \in (k + 1) + 1 .. n : Clears(s[j], f)
      BY <1>7, <2>1
    <3> QED
      BY <1>7, <3>1
  <2>3. ASSUME s[1].family = f, s[1].op = "set", s[1].value # x PROVE Covers(t, f)
    <3>1. PICK j \in 1 + 1 .. n : Clears(s[j], f)
      BY <1>1, <2>1, <2>3
    <3>2. j \in 2 .. n
      OBVIOUS
    <3> QED
      BY <1>8, <3>1, <3>2 DEF Covers
  <2> QED
    BY <2>2, <2>3
<1>10. ASSUME FillsWith(s, f, x)
       PROVE  /\ FillsWith(t, f, x)
              /\ s[1].family = f /\ s[1].op = "child" =>
                    s[1].value = x \/ Pending(t, f, s[1].label)
  <2>1. \A k \in 1 .. n : s[k].family = f /\ s[k].op = "child" =>
           s[k].value = x \/ \E j \in k + 1 .. n : Touches(s[j], f, s[k].label)
    BY <1>10 DEF FillsWith, n
  <2>2. FillsWith(t, f, x)
    <3> SUFFICES ASSUME NEW k \in 1 .. Len(t), t[k].family = f, t[k].op = "child",
                        t[k].value # x
                 PROVE  \E j \in k + 1 .. Len(t) : Touches(t[j], f, t[k].label)
      BY DEF FillsWith
    <3>1. PICK j \in (k + 1) + 1 .. n : Touches(s[j], f, s[k + 1].label)
      BY <1>7, <2>1
    <3> QED
      BY <1>7, <3>1
  <2>3. ASSUME s[1].family = f, s[1].op = "child", s[1].value # x
        PROVE  Pending(t, f, s[1].label)
    <3>1. PICK j \in 1 + 1 .. n : Touches(s[j], f, s[1].label)
      BY <1>1, <2>1, <2>3
    <3>2. j \in 2 .. n
      OBVIOUS
    <3> QED
      BY <1>8, <3>1, <3>2 DEF Pending
  <2> QED
    BY <2>2, <2>3
<1>11. ASSUME NoReset(s, f)
       PROVE  NoReset(t, f) /\ ~(s[1].family = f /\ s[1].op = "reset")
  BY <1>1, <1>2, <1>11 DEF NoReset, n
<1>12. ASSUME LeavesChild(s, f)
       PROVE  \/ LeavesChild(t, f)
              \/ s[1].family = f /\ s[1].op = "child" /\ NoReset(t, f)
  <2>1. PICK k \in 1 .. n :
           /\ s[k].family = f /\ s[k].op = "child"
           /\ \A j \in k + 1 .. n : ~(s[j].family = f /\ s[j].op = "reset")
    BY <1>12 DEF LeavesChild, n
  <2>2. CASE k = 1
    <3>1. \A j \in 1 .. Len(t) : j + 1 \in k + 1 .. n
      BY <1>1, <2>2
    <3> QED
      BY <1>1, <2>1, <2>2, <3>1 DEF NoReset
  <2>3. CASE k # 1
    <3>1. k - 1 \in 1 .. Len(t) /\ t[k - 1] = s[k] /\ (k - 1) + 1 = k
      BY <1>3, <2>3
    <3>2. \A j \in (k - 1) + 1 .. Len(t) : j + 1 \in k + 1 .. n /\ t[j] = s[j + 1]
      BY <1>7, <3>1
    <3> QED
      BY <2>1, <3>1, <3>2 DEF LeavesChild
  <2> QED
    BY <2>2, <2>3
<1> QED
  BY <1>5, <1>6, <1>9, <1>10, <1>11, <1>12 DEF t

\* The total and the breakdown of the endpoint are on their way to x.
HeadsFor(e, x) ==
    /\ SetsTo(script, Total[e], x) /\ FillsWith(script, Breakdown[e], x)
    /\ registry[Total[e]] = x \/ Covers(script, Total[e])
    /\ \A l \in DOMAIN registry[Breakdown[e]] :
          registry[Breakdown[e]][l] = x \/ Pending(script, Breakdown[e], l)
    /\ e = "counts" /\ x # 0 =>
          \/ LeavesChild(script, Breakdown[e])
          \/ registry[Breakdown[e]] # NoChildren /\ NoReset(script, Breakdown[e])

TotalsInv == \A e \in Endpoints \cap DOMAIN Total : \E x : HeadsFor(e, x)

LEMMA OwnFamilies ==
  ASSUME NEW e \in Endpoints \cap DOMAIN Total
  PROVE  /\ Total[e] \in Totals /\ Breakdown[e] \in Labelled
         /\ Total[e] \in Families /\ Breakdown[e] \in Families
         /\ Total[e] # Breakdown[e]
<1>1. Total[e] \in Totals /\ Breakdown[e] \in Labelled
  BY DEF Totals, Labelled
<1> QED
  BY <1>1, FamilyNames DEF Scalars

LEMMA TotalsBegin == Init => TotalsInv
<1> SUFFICES ASSUME Init, NEW e \in Endpoints \cap DOMAIN Total PROVE HeadsFor(e, 0)
  BY DEF TotalsInv
<1>1. registry = Blank /\ script = << >>
  BY DEF Init
<1>2. registry[Total[e]] = 0 /\ registry[Breakdown[e]] = NoChildren
  BY <1>1, OwnFamilies, FamilyNames DEF Blank, Scalars
<1>3. DOMAIN registry[Breakdown[e]] = {}
  BY <1>2 DEF NoChildren
<1> QED
  BY <1>1, <1>2, <1>3, Empty DEF HeadsFor

LEMMA CollectKeepsTotals == TotalsInv /\ ScriptInv /\ Collect => TotalsInv'
<1> SUFFICES ASSUME TotalsInv, ScriptInv, Collect, NEW e \in Endpoints \cap DOMAIN Total
             PROVE  \E x : HeadsFor(e, x)'
  BY DEF TotalsInv
<1>1. registry' = registry /\ script = << >>
  BY DEF Collect
<1>2. CASE script' = << >>
  <2>1. PICK x : HeadsFor(e, x)
    BY DEF TotalsInv
  <2>2. HeadsFor(e, x)'
    BY <1>1, <1>2, <2>1 DEF HeadsFor
  <2> QED
    BY <2>2
<1>3. ASSUME NEW good \in SUBSET Endpoints, NEW labels \in SUBSET Labels,
             NEW server \in Labels,
             script' = PublishWrites(good, labels, server, cycle + 1)
      PROVE  \E x : HeadsFor(e, x)'
  <2> DEFINE P == PublishWrites(good, labels, server, cycle + 1)
  <2>1. Covers(P, Total[e]) /\ Covers(P, Breakdown[e]) /\ \E x : Settles(P, e, x)
    BY PublicationSettles
  <2> HIDE DEF P
  <2>2. PICK x : Settles(P, e, x)
    BY <2>1
  <2>3. \A l : Pending(P, Breakdown[e], l)
    BY <2>1 DEF Covers, Pending, Touches
  <2>4. script' = P
    BY <1>3 DEF P
  <2>5. HeadsFor(e, x)'
    BY <2>1, <2>2, <2>3, <2>4 DEF HeadsFor, Settles
  <2> QED
    BY <2>5
<1> QED
  BY <1>2, <1>3 DEF Collect

\* What a write says of a family that it does not touch, it says no more.
LEMMA WriteKeepsTotals ==
  TotalsInv /\ ScriptInv /\ RegistryInv /\ Write => TotalsInv'
<1> SUFFICES ASSUME TotalsInv, ScriptInv, RegistryInv, Write,
                    NEW e \in Endpoints \cap DOMAIN Total
             PROVE  \E x : HeadsFor(e, x)'
  BY DEF TotalsInv
<1> DEFINE T == Total[e]
<1> DEFINE B == Breakdown[e]
<1> DEFINE w == script[1]
<1> DEFINE s == script
<1> DEFINE t == script'
<1>1. /\ T \in Totals /\ B \in Labelled /\ T \in Families /\ B \in Families /\ T # B
      /\ B \notin Scalars /\ T \notin Labelled
  BY OwnFamilies, FamilyNames DEF Scalars
<1>2. PICK x : HeadsFor(e, x)
  BY DEF TotalsInv
<1>3. /\ Row(s, cycle) /\ s # << >> /\ t = Tail(s)
      /\ w \in WritesOf(cycle)
      /\ \A f \in Families \ {w.family} : registry'[f] = registry[f]
      /\ w.op = "reset" => registry'[w.family] = NoChildren
      /\ w.op = "set" => registry'[w.family] = w.value
      /\ w.op = "child" =>
            registry'[w.family] =
               [l \in DOMAIN registry[w.family] \cup {w.label} |->
                   IF l = w.label THEN w.value ELSE registry[w.family][l]]
  BY WriteEffect DEF ScriptInv, Row, Write
<1>4. /\ w.family = T => w.op = "set"
      /\ w.family = B => w.op \in {"reset", "child"}
  <2> HIDE DEF w, T, B
  <2> QED
    BY <1>1, <1>3, FamilyNames DEF WritesOf, Scalars
<1>5. /\ Covers(s, T) => Clears(w, T) \/ Covers(t, T)
      /\ SetsTo(t, T, x)
      /\ w.family = T /\ w.op = "set" => w.value = x \/ Covers(t, T)
  BY <1>2, <1>3, AfterOne DEF HeadsFor
<1>6. /\ \A l : Pending(s, B, l) => Touches(w, B, l) \/ Pending(t, B, l)
      /\ FillsWith(t, B, x)
      /\ w.family = B /\ w.op = "child" => w.value = x \/ Pending(t, B, w.label)
      /\ NoReset(s, B) => NoReset(t, B) /\ ~(w.family = B /\ w.op = "reset")
      /\ LeavesChild(s, B) =>
            LeavesChild(t, B) \/ (w.family = B /\ w.op = "child" /\ NoReset(t, B))
  BY <1>2, <1>3, AfterOne DEF HeadsFor
<1>7. /\ registry[T] = x \/ Covers(s, T)
      /\ \A l \in DOMAIN registry[B] : registry[B][l] = x \/ Pending(s, B, l)
      /\ e = "counts" /\ x # 0 =>
            LeavesChild(s, B) \/ (registry[B] # NoChildren /\ NoReset(s, B))
  BY <1>2 DEF HeadsFor
<1> HIDE DEF T, B, w, s, t
<1>8. registry'[T] = x \/ Covers(t, T)
  <2>1. CASE w.family = T
    BY <1>3, <1>4, <1>5, <2>1
  <2>2. CASE w.family # T
    BY <1>1, <1>3, <1>5, <1>7, <2>2 DEF Clears
  <2> QED
    BY <2>1, <2>2
<1>9. CASE w.family # B
  <2>1. registry'[B] = registry[B]
    BY <1>1, <1>3, <1>9
  <2>2. \A l : ~Touches(w, B, l)
    BY <1>9 DEF Touches, Clears
  <2> QED
    BY <1>5, <1>6, <1>7, <1>8, <1>9, <2>1, <2>2 DEF HeadsFor, T, B, t
<1>10. CASE w.family = B /\ w.op = "reset"
  <2>1. registry'[B] = NoChildren /\ DOMAIN registry'[B] = {}
    BY <1>3, <1>10 DEF NoChildren
  <2>2. e = "counts" /\ x # 0 => LeavesChild(t, B)
    BY <1>6, <1>7, <1>10
  <2> QED
    BY <1>5, <1>6, <1>8, <2>1, <2>2 DEF HeadsFor, T, B, t
<1>11. CASE w.family = B /\ w.op = "child"
  <2>1. /\ DOMAIN registry'[B] = DOMAIN registry[B] \cup {w.label}
        /\ registry'[B][w.label] = w.value
        /\ \A l \in DOMAIN registry[B] : l # w.label => registry'[B][l] = registry[B][l]
    BY <1>3, <1>11
  <2>2. registry'[B] # NoChildren
    BY <2>1 DEF NoChildren
  <2>3. \A l : l # w.label => ~Touches(w, B, l)
    BY <1>11 DEF Touches, Clears
  <2>4. ASSUME NEW l \in DOMAIN registry'[B]
        PROVE  registry'[B][l] = x \/ Pending(t, B, l)
    BY <1>6, <1>7, <1>11, <2>1, <2>3
  <2>5. e = "counts" /\ x # 0 => LeavesChild(t, B) \/ NoReset(t, B)
    BY <1>6, <1>7
  <2> QED
    BY <1>5, <1>6, <1>8, <2>2, <2>4, <2>5 DEF HeadsFor, T, B, t
<1> QED
  BY <1>4, <1>9, <1>10, <1>11

LEMMA TotalsSteps == TotalsInv /\ IInv /\ [Next]_vars => TotalsInv'
<1> SUFFICES ASSUME TotalsInv, IInv, [Next]_vars PROVE TotalsInv'
  OBVIOUS
<1>1. ASSUME UNCHANGED <<registry, script>> PROVE TotalsInv'
  BY <1>1 DEF TotalsInv, HeadsFor
<1> QED
  BY <1>1, CollectKeepsTotals, WriteKeepsTotals
     DEF Next, vars, IInv, StartScrape, Gather

\* At rest nothing is left to replace, so both have arrived.
LEMMA AtRest == TotalsInv => TotalsAgreeAtRest
<1> SUFFICES ASSUME TotalsInv, script = << >> PROVE TotalsAgreeAtRest
  BY DEF TotalsAgreeAtRest
<1>1. \A f : ~Covers(script, f) /\ ~LeavesChild(script, f) /\ \A l : ~Pending(script, f, l)
  <2>1. Len(script) = 0 /\ 1 .. Len(script) = {}
    OBVIOUS
  <2> QED
    BY <2>1 DEF Covers, LeavesChild, Pending
<1>2. ASSUME NEW e \in Endpoints \cap DOMAIN Total
      PROVE  /\ Range(registry[Breakdown[e]]) \subseteq {registry[Total[e]]}
             /\ e = "counts" /\ registry[Total[e]] # 0 =>
                   registry[Breakdown[e]] # NoChildren
  <2>1. PICK x : HeadsFor(e, x)
    BY DEF TotalsInv
  <2>2. /\ registry[Total[e]] = x
        /\ \A l \in DOMAIN registry[Breakdown[e]] : registry[Breakdown[e]][l] = x
        /\ e = "counts" /\ x # 0 => registry[Breakdown[e]] # NoChildren
    BY <1>1, <2>1 DEF HeadsFor
  <2> QED
    BY <2>2 DEF Range
<1>3. /\ "counts" \in DOMAIN Total
      /\ Total["counts"] = "items_count" /\ Breakdown["counts"] = "items_by_type"
  BY DEF Total, Breakdown
<1> QED
  BY <1>2, <1>3 DEF TotalsAgreeAtRest

\* Once a publication is over, a total and the children of its breakdown come
\* from one cycle, even if fetches of that cycle failed: every collect_*
\* function clears both before it can fail, and fills both or neither.
THEOREM TotalsAgree == Spec => []TotalsAgreeAtRest
<1>1. Spec => []TotalsInv
  BY TotalsBegin, TotalsSteps, Invariance, PTL DEF Spec
<1> QED
  BY <1>1, AtRest, PTL
-----------------------------------------------------------------------------
(***************************************************************************)
(* One snapshot.  Everything is from one cycle, except for the families    *)
(* that the rest of the publication clears, and that cycle is the current  *)
(* one while there is a rest.                                              *)
(***************************************************************************)
Gauges == Labelled \cup Totals

ShowsOnly(c) ==
    /\ script # << >> => c = cycle
    /\ \A f \in Gauges : Written(registry, f) \subseteq {c} \/ Covers(script, f)

SnapshotInv == \E c : ShowsOnly(c)

LEMMA PublicationCovers ==
  ASSUME NEW v, NEW good, NEW labels \in SUBSET Labels, NEW server \in Labels,
         NEW f \in Gauges
  PROVE  Covers(PublishWrites(good, labels, server, v), f)
<1> DEFINE G == GaugeWrites(good, labels, server, v)
<1> DEFINE T == Timestamp(good, v)
<1>1. Covers(G, f) /\ Row(G, v)
  BY GaugesSound DEF Gauges, Sound, Row
<1>2. Row(T, v)
  <2>1. Set("timestamp", v) \in WritesOf(v)
    BY DEF Set, WritesOf
  <2>2. Row(<<Set("timestamp", v)>>, v) /\ Row(<< >>, v)
    BY <2>1, Single, Empty
  <2> QED
    BY <2>2 DEF Timestamp
<1> HIDE DEF G, T
<1>3. Covers(G \o T, f)
  BY <1>1, <1>2, JoinRest
<1> QED
  BY <1>3 DEF PublishWrites, G, T

LEMMA SnapshotBegins == Init => SnapshotInv
<1> SUFFICES ASSUME Init PROVE ShowsOnly(0)
  BY DEF SnapshotInv
<1>1. \A f \in Gauges : Written(registry, f) = {}
  BY BlankIsEmpty DEF Init, Gauges
<1> QED
  BY <1>1 DEF ShowsOnly, Init

LEMMA CollectKeepsSnapshot == SnapshotInv /\ Collect => SnapshotInv'
<1> SUFFICES ASSUME SnapshotInv, Collect PROVE \E c : ShowsOnly(c)'
  BY DEF SnapshotInv
<1>1. /\ registry' = registry /\ script = << >> /\ cycle' = cycle + 1
      /\ \A f : Written(registry', f) = Written(registry, f)
  BY DEF Collect
<1>2. CASE script' = << >>
  <2>1. PICK c : ShowsOnly(c)
    BY DEF SnapshotInv
  <2>2. ShowsOnly(c)'
    BY <1>1, <1>2, <2>1 DEF ShowsOnly
  <2> QED
    BY <2>2
<1>3. ASSUME NEW good \in SUBSET Endpoints, NEW labels \in SUBSET Labels,
             NEW server \in Labels,
             script' = PublishWrites(good, labels, server, cycle + 1)
      PROVE  \E c : ShowsOnly(c)'
  <2>1. \A f \in Gauges : Covers(script', f)
    BY <1>3, PublicationCovers
  <2>2. ASSUME NEW c, c = cycle' PROVE ShowsOnly(c)'
    BY <2>1, <2>2 DEF ShowsOnly, Gauges
  <2> QED
    BY <2>2
<1> QED
  BY <1>2, <1>3 DEF Collect

\* The family that is written shows the current cycle afterwards, if anything.
LEMMA WriteKeepsSnapshot ==
  SnapshotInv /\ ScriptInv /\ RegistryInv /\ Write => SnapshotInv'
<1> SUFFICES ASSUME SnapshotInv, ScriptInv, RegistryInv, Write
             PROVE  ShowsOnly(cycle)'
  BY DEF SnapshotInv
<1>1. /\ script # << >> /\ script' = Tail(script) /\ Row(script, cycle)
      /\ cycle' = cycle
      /\ \A f \in Families \ {script[1].family} : registry'[f] = registry[f]
      /\ Written(registry', script[1].family) \subseteq {cycle}
  BY WriteEffect DEF Write, ScriptInv, Row
<1>2. ShowsOnly(cycle)
  BY <1>1 DEF SnapshotInv, ShowsOnly
<1>3. ASSUME NEW f \in Gauges
      PROVE  Written(registry', f) \subseteq {cycle} \/ Covers(script', f)
  <2>1. CASE f = script[1].family
    BY <1>1, <2>1
  <2>2. CASE f # script[1].family
    <3>1. Written(registry', f) = Written(registry, f)
      BY <1>1, <2>2, FamilyNames DEF Gauges, Scalars, Written
    <3>2. Covers(script, f) => Covers(script', f)
      BY <1>1, <2>2, AfterOne DEF Clears
    <3> QED
      BY <1>2, <3>1, <3>2 DEF ShowsOnly
  <2> QED
    BY <2>1, <2>2
<1> QED
  BY <1>1, <1>3 DEF ShowsOnly, Gauges

LEMMA SnapshotSteps == SnapshotInv /\ IInv /\ [Next]_vars => SnapshotInv'
<1> SUFFICES ASSUME SnapshotInv, IInv, [Next]_vars PROVE SnapshotInv'
  OBVIOUS
<1>1. ASSUME UNCHANGED <<registry, cycle, script>> PROVE SnapshotInv'
  <2>1. PICK c : ShowsOnly(c)
    BY DEF SnapshotInv
  <2>2. \A f : Written(registry', f) = Written(registry, f)
    BY <1>1
  <2>3. ShowsOnly(c)'
    BY <1>1, <2>1, <2>2 DEF ShowsOnly
  <2> QED
    BY <2>3 DEF SnapshotInv
<1> QED
  BY <1>1, CollectKeepsSnapshot, WriteKeepsSnapshot
     DEF Next, vars, IInv, StartScrape, Gather

\* Once a publication is over, everything on show comes from one cycle, even
\* if some fetches of that cycle failed: every gauge is cleared in every cycle
\* that publishes anything.
THEOREM OneSnapshot == Spec => []OneSnapshotAtRest
<1>1. Spec => []SnapshotInv
  BY SnapshotBegins, SnapshotSteps, Invariance, PTL DEF Spec
<1>2. SnapshotInv => OneSnapshotAtRest
  <2> SUFFICES ASSUME SnapshotInv, script = << >>,
                      NEW f \in Labelled \cup Totals, NEW g \in Labelled \cup Totals,
                      NEW m \in Written(registry, f), NEW n \in Written(registry, g)
               PROVE  m = n
    BY DEF OneSnapshotAtRest
  <2>1. PICK c : ShowsOnly(c)
    BY DEF SnapshotInv
  <2>2. \A h : ~Covers(script, h)
    <3>1. Len(script) = 0 /\ 1 .. Len(script) = {}
      OBVIOUS
    <3> QED
      BY <3>1 DEF Covers
  <2>3. Written(registry, f) \subseteq {c} /\ Written(registry, g) \subseteq {c}
    BY <2>1, <2>2 DEF ShowsOnly, Gauges
  <2> QED
    BY <2>3
<1> QED
  BY <1>1, <1>2, PTL
=============================================================================
