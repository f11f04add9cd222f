------------------------------- MODULE Client -------------------------------
(***************************************************************************)
(* JellyfinClient::get of client.rs: one GET under the request timeout,    *)
(* and the kind of error it ends with.  The timeout is a deadline for the  *)
(* whole request, from its start to the last byte of the body.             *)
(***************************************************************************)
EXTENDS Naturals

CONSTANT RequestTimeout     \* REQUEST_TIMEOUT_MS

VARIABLES
    request,        \* "none", "sent", "reading", "ok" or a kind of error
    waited          \* time since the request was sent

vars == <<request, waited>>

Errors == {"http", "timeout", "parse"}      \* labels of the ClientErrors

Init == request = "none" /\ waited = 0

Send == request' = "sent" /\ waited' = 0

Becomes(what) == request' = what /\ UNCHANGED waited

\* The connection fails; the operating system's own timeouts are timeouts too.
SendFails ==
    /\ request = "sent"
    /\ \E kind \in {"http", "timeout"} : Becomes(kind)

\* A slip the runs must notice: the deadline starts again with the body.
HeadArrivesAfresh ==
    /\ request = "sent"
    /\ \/ request' = "reading" /\ waited' = 0
       \/ Becomes("http")

\* The head of a response: error_for_status sorts out the 4xx and 5xx.
HeadArrives ==
    /\ request = "sent"
    /\ Becomes("reading") \/ Becomes("http")

\* The body is complete and deserialises, or something is wrong with it.
BodyArrives ==
    /\ request = "reading"
    /\ Becomes("ok") \/ Becomes("parse")

\* A slip the runs must notice: the deadline covers the head only.
TimesOutBeforeHead ==
    /\ waited = RequestTimeout
    /\ request = "sent" /\ Becomes("timeout")

\* The deadline: is_timeout() is asked of the send only, so a body that does
\* not come in time is a parse error.
TimesOut ==
    /\ waited = RequestTimeout
    /\ \/ request = "sent" /\ Becomes("timeout")
       \/ request = "reading" /\ Becomes("parse")

Wait ==
    /\ request \in {"sent", "reading"}
    /\ waited < RequestTimeout
    /\ waited' = waited + 1
    /\ UNCHANGED request

\* What the server and the network do; the rest the client does by itself.
Hear == SendFails \/ HeadArrives \/ BodyArrives
=============================================================================
