--------------------------- MODULE SessionMetrics ---------------------------
(***************************************************************************)
(* collect_sessions of collector.rs: what the sessions in one response of  *)
(* the server leave in the gauges, through the loop over the active ones.  *)
(*                                                                         *)
(* A session is a record with the fields of client.rs, an optional field a *)
(* set of at most one value.  A labelled gauge is a function from the      *)
(* tuples of labels that have a child to the child's value.                *)
(***************************************************************************)
EXTENDS SanitizeLabel, Functions

CONSTANTS
    Responses,              \* the lists of sessions the server may send
    expose_remote_address   \* EXPOSE_REMOTE_ADDRESS

\* What the types of client.rs say of a session, as far as it matters here.
IsOption(x) == \A y, z \in x : y = z
IsOptionalText(x) == IsOption(x) /\ \A text \in x : IsText(text)

IsSession(session) ==
    /\ \A name \in {"user_name", "client", "device_name", "remote_end_point"} :
          IsOptionalText(session[name])
    /\ \A name \in {"now_playing_item", "play_state", "transcoding_info"} :
          IsOption(session[name])
    /\ \A item \in session.now_playing_item : IsOptionalText(item.media_type)
    /\ \A state \in session.play_state : IsOptionalText(state.play_method)
    /\ \A info \in session.transcoding_info :
          /\ \A name \in {"video_codec", "audio_codec"} : IsOptionalText(info[name])
          /\ IsOption(info.hardware_acceleration_type)
          /\ \A reasons \in info.transcode_reasons :
                IsText(reasons) /\ \A r \in Range(reasons) : IsText(r)

ASSUME SessionAssumption ==
    /\ expose_remote_address \in BOOLEAN
    /\ \A sessions \in Responses :
          /\ sessions \in Seq(Range(sessions))
          /\ \A s \in Range(sessions) : IsSession(s)

VARIABLES
    phase,          \* "idle", "looping", "published" or "blank"
    rest,           \* the active sessions the loop has yet to visit
    gauges,         \* the session gauges
    tally,          \* the counters the loop keeps
    response        \* history: the active sessions of the current response

vars == <<phase, rest, gauges, tally, response>>

NoChildren == [labels \in {} |-> 0]

\* with_label_values(labels).set(v) and .inc().
SetChild(gauge, labels, v) ==
    [l \in DOMAIN gauge \cup {labels} |-> IF l = labels THEN v ELSE gauge[l]]
Inc(gauge, labels) ==
    SetChild(gauge, labels,
             1 + IF labels \in DOMAIN gauge THEN gauge[labels] ELSE 0)

\* The same for a value that may be missing.
SetIfSome(gauge, labels, option) ==
    IF option = {} THEN gauge ELSE SetChild(gauge, labels, OrElse(option, 0))

\* Option::and_then with a field, Option::or, and a flag as a gauge value.
Field(option, name) == UNION {x[name] : x \in option}
Or(first, second) == IF first # {} THEN first ELSE second
Flag(option) == {IF x THEN 1 ELSE 0 : x \in option}

\* The labels of play_method_sessions.
Methods == {<< <<"DirectPlay">> >>, << <<"Transcode">> >>, << <<"DirectStream">> >>}

Blank ==
    [sessions_active |-> NoChildren, session_paused |-> NoChildren,
     session_play_position_seconds |-> NoChildren,
     session_remote_address |-> NoChildren, stream_bitrate |-> NoChildren,
     transcodes_active |-> NoChildren, transcode_completion |-> NoChildren,
     stream_direct |-> NoChildren, transcode_reason_sessions |-> NoChildren,
     play_method_sessions |-> NoChildren,
     sessions_active_count |-> 0, transcode_hw_accelerated |-> 0]

NoTally == [methods |-> [m \in Methods |-> 0], hw |-> 0, reasons |-> NoChildren]

Init ==
    /\ phase = "idle"
    /\ rest = << >>
    /\ gauges = Blank
    /\ tally = NoTally
    /\ response = << >>

-----------------------------------------------------------------------------
(***************************************************************************)
(* Before the loop.                                                        *)
(***************************************************************************)

\* A slip the runs must notice: one gauge is not reset.
ResetAllButDirect(old) == [Blank EXCEPT !.stream_direct = old.stream_direct]

ResetSessionGauges(old) == Blank

IsActive(session) == session.now_playing_item # {}
PushActive(list, session) == IF IsActive(session) THEN Append(list, session) ELSE list

\* The fetch failed: the gauges stay as the reset left them.
NoSessions ==
    /\ phase # "looping"
    /\ phase' = "blank"
    /\ gauges' = ResetSessionGauges(gauges)
    /\ response' = << >>
    /\ UNCHANGED <<rest, tally>>

BeginLoop(sessions) ==
    /\ phase # "looping"
    /\ phase' = "looping"
    /\ LET active == FoldLeft(PushActive, << >>, sessions) IN
       /\ gauges' = [ResetSessionGauges(gauges) EXCEPT
                        !.sessions_active_count = Len(active)]
       /\ rest' = active
       /\ response' = active
    /\ tally' = NoTally

-----------------------------------------------------------------------------
(***************************************************************************)
(* One turn of the loop.                                                   *)
(***************************************************************************)
PlayMethod(session) == sanitize_label(Field(session.play_state, "play_method"))

\* A slip the runs must notice: sessions are told apart by user and client.
LabelsWithoutDevice(session) ==
    <<sanitize_label(session.user_name), sanitize_label(session.client),
      PlayMethod(session)>>

SessionLabels(session) ==
    <<sanitize_label(session.user_name), sanitize_label(session.client),
      PlayMethod(session), sanitize_label(session.device_name)>>

\* The position is a fraction: ticks, of which ten million make a second.
PositionSeconds(session) ==
    {<<ticks, 10000000>> : ticks \in Field(session.play_state, "position_ticks")}

\* The transcoder's bitrate, else the item's, else that of its streams.
Bitrate(session) ==
    LET item == session.now_playing_item
        streams == OrElse(Field(item, "media_streams"), << >>)
    IN OrElse(Or(Field(session.transcoding_info, "bitrate"), Field(item, "bitrate")),
              FoldSeq(LAMBDA rate, sum : sum + OrElse(rate, 0), 0, streams))

\* The media type is lower-cased only: it does not go through sanitize_label.
MediaType(session) ==
    ToLower(OrElse(Field(session.now_playing_item, "media_type"), Unknown))

\* The transcoding information, as far as the loop looks at it.
Transcoding(session) ==
    IF PlayMethod(session) = <<"Transcode">> THEN session.transcoding_info ELSE {}

Codecs(transcoding) ==
    <<sanitize_codec_label(Field(transcoding, "video_codec")),
      sanitize_codec_label(Field(transcoding, "audio_codec"))>>

\* Both streams of a session that is not transcoded count as direct, of any
\* play method.
StreamIsDirect(session, field) ==
    IF PlayMethod(session) = <<"Transcode">>
    THEN Flag(Field(session.transcoding_info, field)) ELSE {1}

\* A slip the runs must notice: a pair of codecs is set to 1.
SetCodecs(gauge, transcoding) ==
    IF transcoding = {} THEN gauge ELSE SetChild(gauge, Codecs(transcoding), 1)

\* Sessions with the same pair of codecs are counted.
CountCodecs(gauge, transcoding) ==
    IF transcoding = {} THEN gauge ELSE Inc(gauge, Codecs(transcoding))

VisitGauges(g, session) ==
    LET user == sanitize_label(session.user_name)
        labels == SessionLabels(session)
        t == Transcoding(session)
        rate == Bitrate(session)
    IN [g EXCEPT
        !.sessions_active = SetChild(@, labels, 1),
        !.session_paused =
            SetChild(@, <<user, labels[2], sanitize_label(session.device_name)>>,
                     OrElse(Flag(Field(session.play_state, "is_paused")), 0)),
        !.session_play_position_seconds =
            SetIfSome(@, <<user, sanitize_label(
                                Field(session.now_playing_item, "media_type"))>>,
                      PositionSeconds(session)),
        !.session_remote_address =
            IF expose_remote_address /\ session.remote_end_point # {}
            THEN SetChild(@, <<user, sanitize_label(session.remote_end_point)>>, 1)
            ELSE @,
        !.stream_bitrate =
            IF rate > 0 THEN SetChild(@, <<user, MediaType(session)>>, rate) ELSE @,
        !.transcodes_active = CountCodecs(@, t),
        !.transcode_completion =
            SetIfSome(@, <<user>>, Field(t, "completion_percentage")),
        !.stream_direct =
            SetIfSome(SetIfSome(@, <<user, <<"video">> >>,
                                StreamIsDirect(session, "is_video_direct")),
                      <<user, <<"audio">> >>,
                      StreamIsDirect(session, "is_audio_direct"))]

\* A slip the runs must notice: hardware acceleration is counted for every
\* session that has transcoding information.
AcceleratedAnyMethod(session) == session.transcoding_info

Accelerated(session) == Transcoding(session)

CountReason(bag, r) == Inc(bag, <<sanitize_label({r})>>)
CountReasons(bag, reasons) == FoldLeft(CountReason, bag, reasons)

VisitTally(counts, session) ==
    LET method == PlayMethod(session)
        t == Transcoding(session)
        reasons == OrElse(Field(t, "transcode_reasons"), << >>)
    IN [methods |-> [m \in Methods |->
                        counts.methods[m] + IF m = <<method>> THEN 1 ELSE 0],
        hw |-> counts.hw
               + Cardinality(Field(Accelerated(session), "hardware_acceleration_type")),
        reasons |-> CountReasons(counts.reasons, reasons)]

Visit ==
    /\ phase = "looping"
    /\ rest # << >>
    /\ gauges' = VisitGauges(gauges, Head(rest))
    /\ tally' = VisitTally(tally, Head(rest))
    /\ rest' = Tail(rest)
    /\ UNCHANGED <<phase, response>>

\* After the loop: the counters become gauges.
PublishTally ==
    /\ phase = "looping"
    /\ rest = << >>
    /\ phase' = "published"
    /\ gauges' = [gauges EXCEPT
          !.transcode_reason_sessions = tally.reasons,
          !.transcode_hw_accelerated = tally.hw,
          !.play_method_sessions = tally.methods]
    /\ UNCHANGED <<rest, tally, response>>

Next ==
    \/ NoSessions
    \/ \E sessions \in Responses : BeginLoop(sessions)
    \/ Visit
    \/ PublishTally

Spec == Init /\ [][Next]_vars

-----------------------------------------------------------------------------
(***************************************************************************)
(* Properties of what is published.                                        *)
(***************************************************************************)
Overlaid == {"sessions_active", "session_paused", "session_play_position_seconds",
             "session_remote_address", "stream_bitrate", "transcode_completion",
             "stream_direct"}

\* What the gauges would be if the session were the only one.
Alone(session) == VisitGauges(Blank, session)

\* The session that is heard last of those with a series of these labels.
LastWith(name, labels) ==
    response[Max({i \in DOMAIN response : labels \in DOMAIN Alone(response[i])[name]})]

\* A gauge shows exactly the series of the sessions in this response, nothing
\* of an earlier one, and where sessions share a series the last of them
\* speaks for all (collect_sessions, reset and loop).
ShowsTheSessions ==
    phase = "published" =>
        \A name \in Overlaid :
            gauges[name] =
                [labels \in UNION {DOMAIN Alone(s)[name] : s \in Range(response)} |->
                    Alone(LastWith(name, labels))[name][labels]]

ReasonsOf(session) ==
    {<<sanitize_label({r})>> :
        r \in Range(OrElse(Field(Transcoding(session), "transcode_reasons"), << >>))}

\* Transcodes are counted, not overlaid: as many as there are sessions of
\* that method with transcoding information, whatever their codecs; and every
\* reason that a session gives is on show, with at least the number of
\* sessions that give it.
EveryTranscodeCounts ==
    phase = "published" =>
        /\ SumFunction(gauges.transcodes_active) =
              Cardinality({i \in DOMAIN response : Transcoding(response[i]) # {}})
        /\ \A j \in DOMAIN response : \A reason \in ReasonsOf(response[j]) :
              /\ reason \in DOMAIN gauges.transcode_reason_sessions
              /\ gauges.transcode_reason_sessions[reason] >=
                    Cardinality({i \in DOMAIN response : reason \in ReasonsOf(response[i])})

\* The totals that a dashboard divides by each other nest: accelerated
\* transcodes, transcodes with information, transcodes; and the sessions by
\* method within all sessions, each method having at least the sessions that
\* are on show for it.
TotalsNest ==
    phase = "published" =>
        LET transcodes == gauges.play_method_sessions[<< <<"Transcode">> >>] IN
        /\ gauges.transcode_hw_accelerated <= SumFunction(gauges.transcodes_active)
        /\ SumFunction(gauges.transcodes_active) <= transcodes
        /\ SumFunction(gauges.play_method_sessions) <= gauges.sessions_active_count
        /\ \A method \in Methods :
              Cardinality({l \in DOMAIN gauges.sessions_active : <<l[3]>> = method})
                  <= gauges.play_method_sessions[method]

\* What a sanitized label is like: 1 to MaxLabelChars characters, no white
\* space in front, no tab, no doubled space.  White space at the end is
\* possible only as the last character of a label cut to its full length, and
\* wide white space only where the text took the fast path.
IsClean(text) ==
    /\ Len(text) \in 1 .. MaxLabelChars
    /\ text[1] \notin White
    /\ text[Len(text)] \in White => Len(text) = MaxLabelChars
    /\ \A i \in DOMAIN text : text[i] # Tab
    /\ \A i \in 2 .. Len(text) : ~(text[i - 1] = Space /\ text[i] = Space)

\* Whatever texts the server sends, the labels are clean.  The media type of
\* the bitrate is the one label that is not sanitized.
LabelsAreClean ==
    \A name \in Overlaid \cup {"transcodes_active", "transcode_reason_sessions"} :
        \A labels \in DOMAIN gauges[name] : \A k \in DOMAIN labels :
            IsClean(labels[k]) \/ (name = "stream_bitrate" /\ k = 2)

\* The names a session goes by, when they need no sanitizing.
Names(session) ==
    <<session.user_name, session.client, Field(session.play_state, "play_method"),
      session.device_name>>
HasCleanNames(session) ==
    \A name \in Range(Names(session)) : \A text \in name :
        IsClean(text) /\ text[Len(text)] \notin White /\ text # Unknown

\* Sessions share a series only if they cannot be told apart: sanitizing
\* merges no sessions whose names are clean and different, and there are
\* never more series than sessions (readme: "1 per session").
NoSessionHidden ==
    phase = "published" =>
        /\ Cardinality({Names(s) : s \in {t \in Range(response) : HasCleanNames(t)}})
               <= Cardinality(DOMAIN gauges.sessions_active)
        /\ Cardinality(DOMAIN gauges.sessions_active) <= gauges.sessions_active_count
=============================================================================
