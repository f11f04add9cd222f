-------------------------- MODULE MCSessionMetrics --------------------------
(***************************************************************************)
(* An instance of SessionMetrics for TLC.                                  *)
(***************************************************************************)
EXTENDS SessionMetrics

CONSTANTS
    MaxSessions,    \* bound on the length of a list of assorted sessions
    MaxText         \* bound on the length of a name

LowerCaseX == [c \in {"X"} |-> "x"]

\* Every text of the alphabet, as a name.
Alphabet == {"x", Space, Tab, Wide}
Texts == UNION {[1 .. n -> Alphabet] : n \in 0 .. MaxText}

Nobody == [user_name |-> {}, client |-> {}, device_name |-> {},
           remote_end_point |-> {}, now_playing_item |-> {}, play_state |-> {},
           transcoding_info |-> {}]
Movie == [media_type |-> {<<"Movie">>}, bitrate |-> {8},
          media_streams |-> {<< {5}, {}, {1} >>}]
Untyped == [media_type |-> {}, bitrate |-> {}, media_streams |-> {}]
OnlyStreams == [Movie EXCEPT !.bitrate = {}]
Info == [bitrate |-> {3}, completion_percentage |-> {40},
         hardware_acceleration_type |-> {"vaapi"}, video_codec |-> {<<"x">>},
         audio_codec |-> {}, transcode_reasons |-> {<< <<"r">>, <<" ", "r">> >>},
         is_video_direct |-> {FALSE}, is_audio_direct |-> {TRUE}]
Software == [Info EXCEPT !.bitrate = {}, !.video_codec = {<<"X">>},
                         !.hardware_acceleration_type = {},
                         !.completion_percentage = {}, !.transcode_reasons = {},
                         !.is_video_direct = {TRUE}, !.is_audio_direct = {}]

Playing(user, device, item, state, info) ==
    [Nobody EXCEPT !.user_name = {user}, !.client = {<<"web">>},
                   !.device_name = {device}, !.remote_end_point = {<<"lan">>},
                   !.now_playing_item = {item}, !.play_state = state,
                   !.transcoding_info = info]
State(method, paused, ticks) ==
    {[play_method |-> method, is_paused |-> paused, position_ticks |-> ticks]}

ann == <<"a">>
bob == <<"b">>
phone == <<"p">>
tv == <<"t">>
Direct == {<<"DirectPlay">>}
Transcode == {<<"Transcode">>}

\* An idle session, two of ann on two devices, one more that shares a series
\* with the first, transcodes of one pair of codecs in two spellings, of
\* hardware and software, one without information, and sessions about which
\* the server says little, or something unexpected.
Assorted ==
    {Nobody,
     Playing(ann, phone, Movie, State(Direct, {TRUE}, {7}), {}),
     Playing(ann, tv, OnlyStreams, State({<<"DirectStream">>}, {FALSE}, {}), {Info}),
     Playing(<<" ", "a">>, phone, Untyped, State(Direct, {}, {9}), {}),
     Playing(ann, tv, Movie, State(Transcode, {FALSE}, {2}), {Info}),
     Playing(bob, tv, Untyped, State(Transcode, {}, {}), {Software}),
     Playing(bob, phone, Movie, State(Transcode, {FALSE}, {}), {}),
     Playing(bob, tv, Movie, State({<<"new">>}, {}, {}), {}),
     [Nobody EXCEPT !.now_playing_item = {Untyped}]}

Named(text) ==
    Playing(text, text, [Movie EXCEPT !.media_type = {text}],
            State({text}, {}, {4}), {Info})
Reasoned(text) ==
    Playing(ann, tv, Movie, State(Transcode, {}, {}),
            {[Info EXCEPT !.transcode_reasons = {<<text>>}, !.audio_codec = {text}]})

SomeResponses ==
    UNION {[1 .. n -> Assorted] : n \in 0 .. MaxSessions}
    \cup {<<Named(text), Reasoned(text)>> : text \in Texts}
=============================================================================
