----------------------------- MODULE Exposition -----------------------------
(***************************************************************************)
(* What a /metrics request can see while the collector publishes.          *)
(*                                                                         *)
(* The registry of metrics.rs is not one object to its readers: every      *)
(* gauge is set on its own, a labelled gauge is reset and then refilled    *)
(* child by child, and `encode` gathers one family after the other.  The   *)
(* collector's task and the handler run on different threads.  This module *)
(* takes the collector's writes one by one, in the order in which collect  *)
(* and the collect_* functions make them, and lets a scrape read families  *)
(* in between.  Inside one family a scrape is atomic: the family's lock is *)
(* held while its children are collected, and taken to reset it or to add  *)
(* a child, so no more than one child can be set meanwhile.  Single loads  *)
(* and stores are taken in program order.                                  *)
(*                                                                         *)
(* A value is represented by the number of the cycle that wrote it, 0      *)
(* being the value that a gauge has after its creation or is cleared to.   *)
(* The two flags and the error counters are left out, and so are the       *)
(* session gauges other than the two named here, which are written between *)
(* the same reset and the same end of collect_sessions.                    *)
(***************************************************************************)
EXTENDS Naturals, Sequences, SequencesExt

CONSTANTS
    Endpoints,      \* the endpoints whose gauges are looked at
    Labels,         \* label values a labelled gauge may have
    MaxCycle        \* bound on the number of cycles

ASSUME ExpositionAssumption ==
    /\ Endpoints \subseteq {"sessions", "libraries", "counts", "system"}
    /\ IsFiniteSet(Labels)

VARIABLES
    registry,       \* the value of every family
    cycle,          \* number of the current cycle
    script,         \* the writes that the current cycle has yet to make
    unread,         \* watched families the current scrape has yet to gather
    snapshot,       \* what the scrape has gathered so far
    early           \* history: families gathered before the timestamp

vars == <<registry, cycle, script, unread, snapshot, early>>

\* The labelled gauge of each endpoint, and the gauge of its total.
Breakdown == [sessions |-> "sessions_active", libraries |-> "library_items",
              counts |-> "items_by_type", system |-> "server_info"]
Total == [sessions |-> "sessions_active_count", counts |-> "items_count"]

Labelled == {Breakdown[e] : e \in Endpoints}
Totals == {Total[e] : e \in Endpoints \cap DOMAIN Total}
Families == {"timestamp"} \cup Labelled \cup Totals

NoChildren == [label \in {} |-> 0]

Blank == [f \in Families |-> IF f \in Labelled THEN NoChildren ELSE 0]

Init ==
    /\ registry = Blank
    /\ cycle = 0
    /\ script = << >>
    /\ unread = {}
    /\ snapshot = Blank
    /\ early = {}

-----------------------------------------------------------------------------
(***************************************************************************)
(* The writes.                                                             *)
(***************************************************************************)
Reset(f) == [op |-> "reset", family |-> f]
Set(f, v) == [op |-> "set", family |-> f, value |-> v]
Touch(f, l) == [op |-> "child", family |-> f, label |-> l, value |-> 0]
SetChild(f, l, v) == [op |-> "child", family |-> f, label |-> l, value |-> v]

\* with_label_values(l).set(v) creates the child and then sets it.
Fill(f, labels, v) ==
    [i \in 1 .. 2 * Cardinality(labels) |->
        IF i % 2 = 1 THEN Touch(f, SetToSeq(labels)[(i + 1) \div 2])
                     ELSE SetChild(f, SetToSeq(labels)[i \div 2], v)]

\* A slip the runs must notice: without sessions the function returns early.
SessionWritesIfFetched(ok, labels, v) ==
    IF ok THEN <<Reset("sessions_active"), Set("sessions_active_count", v)>>
               \o Fill("sessions_active", labels, v)
    ELSE << >>

\* collect_sessions announces the number of sessions before the sessions.
SessionWrites(ok, labels, v) ==
    <<Reset("sessions_active"), Set("sessions_active_count", 0)>>
    \o IF ok THEN <<Set("sessions_active_count", v)>>
                  \o Fill("sessions_active", labels, v)
       ELSE << >>

\* A slip the runs must notice: a failed fetch leaves the total as it was.
CountWritesKeepingTotal(ok, v) ==
    <<Reset("items_by_type")>>
    \o IF ok THEN Fill("items_by_type", Labels, v) \o <<Set("items_count", v)>>
       ELSE << >>

\* collect_item_counts announces the total after the breakdown, which always
\* has a child for every type.
CountWrites(ok, v) ==
    <<Reset("items_by_type"), Set("items_count", 0)>>
    \o IF ok THEN Fill("items_by_type", Labels, v) \o <<Set("items_count", v)>>
       ELSE << >>

\* A slip the runs must notice: the gauge is filled without a reset.
RefillWrites(f, ok, labels, v) == IF ok THEN Fill(f, labels, v) ELSE << >>

\* collect_libraries and collect_system_info.
LabelledWrites(f, ok, labels, v) ==
    <<Reset(f)>> \o IF ok THEN Fill(f, labels, v) ELSE << >>

Timestamp(good, v) ==
    IF good = Endpoints THEN <<Set("timestamp", v)>> ELSE << >>

\* What the collect_* function of an endpoint writes when the fetches of
\* `good` have succeeded; `labels` are the sessions or libraries, `server` the
\* one child of server_info.
EndpointWrites(e, good, labels, server, v) ==
    IF e \notin Endpoints THEN << >>
    ELSE CASE e = "sessions" -> SessionWrites(e \in good, labels, v)
           [] e = "libraries" ->
                  LabelledWrites("library_items", e \in good, labels, v)
           [] e = "counts" -> CountWrites(e \in good, v)
           [] e = "system" ->
                  LabelledWrites("server_info", e \in good, {server}, v)

GaugeWrites(good, labels, server, v) ==
    EndpointWrites("sessions", good, labels, server, v)
    \o EndpointWrites("libraries", good, labels, server, v)
    \o EndpointWrites("counts", good, labels, server, v)
    \o EndpointWrites("system", good, labels, server, v)

\* A slip the runs must notice: the timestamp is set before the gauges.
PublishTimestampFirst(good, labels, server, v) ==
    Timestamp(good, v) \o GaugeWrites(good, labels, server, v)

\* The order of collect(): the timestamp last, and only without an error.
PublishWrites(good, labels, server, v) ==
    GaugeWrites(good, labels, server, v) \o Timestamp(good, v)

\* A cycle that does not reach the server writes none of these gauges.
Collect ==
    /\ script = << >>
    /\ cycle < MaxCycle
    /\ cycle' = cycle + 1
    /\ \/ script' = << >>
       \/ \E good \in SUBSET Endpoints, labels \in SUBSET Labels, server \in Labels :
             script' = PublishWrites(good, labels, server, cycle + 1)
    /\ UNCHANGED <<registry, unread, snapshot, early>>

\* One write becomes visible to the handlers.
Write ==
    /\ script # << >>
    /\ LET w == Head(script) IN
       registry' = [registry EXCEPT ![w.family] =
           CASE w.op = "reset" -> NoChildren
             [] w.op = "set" -> w.value
             [] w.op = "child" ->
                    [l \in DOMAIN @ \cup {w.label} |->
                        IF l = w.label THEN w.value ELSE @[l]]]
    /\ script' = Tail(script)
    /\ UNCHANGED <<cycle, unread, snapshot, early>>

-----------------------------------------------------------------------------
(***************************************************************************)
(* A scrape gathers every family, in the order of the registry, which is   *)
(* left open.  The properties relate a family to the timestamp at most, so *)
(* of each scrape only one family, any one, and the timestamp are watched. *)
(***************************************************************************)
StartScrape ==
    /\ unread = {}
    /\ \E f \in Families : unread' = {f, "timestamp"}
    /\ early' = {}
    /\ snapshot' = Blank
    /\ UNCHANGED <<registry, cycle, script>>

Gather(f) ==
    /\ f \in unread
    /\ snapshot' = [snapshot EXCEPT ![f] = registry[f]]
    /\ unread' = unread \ {f}
    /\ early' = IF "timestamp" \in unread THEN early \cup {f} ELSE early
    /\ UNCHANGED <<registry, cycle, script>>

Next ==
    \/ Collect \/ Write
    \/ StartScrape
    \/ \E f \in Families : Gather(f)

Spec == Init /\ [][Next]_vars

-----------------------------------------------------------------------------
(***************************************************************************)
(* Properties of what has been gathered.                                   *)
(***************************************************************************)

\* The cycles that wrote what a family has in the registry or a snapshot.
Written(values, f) ==
    (IF f \in Labelled THEN {values[f][l] : l \in DOMAIN values[f]}
                       ELSE {values[f]}) \ {0}

\* One labelled gauge never shows children of two cycles side by side: no
\* session that has ended next to one that has just begun.
OneCyclePerFamily ==
    \A f \in Labelled : \A m, n \in Written(snapshot, f) : m = n

\* A scrape that has gathered the timestamp of a cycle gathers nothing older
\* than that cycle afterwards: the timestamp is a promise about the gauges.
NothingOlderThanTimestamp ==
    \A f \in (Labelled \cup Totals) \ (unread \cup early) :
        "timestamp" \notin unread =>
            \A n \in Written(snapshot, f) : n >= snapshot["timestamp"]

\* Between two publications all that is on show comes from one cycle: a fetch
\* that fails blanks its gauges, so that nothing of an earlier cycle remains
\* beside what the others have brought (collect, the collect_* functions).
OneSnapshotAtRest ==
    script = << >> =>
        \A f, g \in Labelled \cup Totals :
            \A m \in Written(registry, f), n \in Written(registry, g) : m = n

\* Between two publications a total and its breakdown come from one cycle,
\* whatever fetches have failed in it; of the item counts, moreover, there are
\* both or neither.  A scrape that falls into a publication can still see a
\* total of 0 next to a breakdown (collect_item_counts).
TotalsAgreeAtRest ==
    script = << >> =>
        /\ \A e \in Endpoints \cap DOMAIN Total :
              Range(registry[Breakdown[e]]) \subseteq {registry[Total[e]]}
        /\ "counts" \in Endpoints /\ registry["items_count"] # 0 =>
              registry["items_by_type"] # NoChildren
=============================================================================
