------------------------------- MODULE Server -------------------------------
(***************************************************************************)
(* The three routes of server.rs and the bearer check, as functions of a   *)
(* request and of the state that the handlers share.                       *)
(*                                                                         *)
(* A request has a path and, as a set of at most one, the scheme and the   *)
(* credentials of its first Authorization header that is visible ASCII.    *)
(***************************************************************************)

\* A slip the runs must notice: the scheme is not looked at.
AuthorizedByAnyScheme(authorization, metrics_token) ==
    \A expected \in metrics_token :
        \E header \in authorization : header.credentials = expected

\* is_authorized: no token is configured, or the header carries it.  Without
\* a header of this form the provided token is empty.
IsAuthorized(authorization, metrics_token) ==
    \A expected \in metrics_token :
        \/ \E header \in authorization :
              header.scheme = "Bearer" /\ header.credentials = expected
        \/ expected = "" /\ ~\E header \in authorization : header.scheme = "Bearer"

\* The status of the response; ready is Collector::is_ready.
Respond(request, metrics_token, ready) ==
    CASE request.path = "/metrics" ->
             IF IsAuthorized(request.authorization, metrics_token) THEN 200 ELSE 401
      [] request.path = "/health" -> 200
      [] request.path = "/ready" -> IF ready THEN 200 ELSE 503
=============================================================================
