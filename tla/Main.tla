-------------------------------- MODULE Main --------------------------------
(***************************************************************************)
(* The life of the process, main.rs: read the configuration, build the     *)
(* parts, spawn the collector, bind, serve, and shut down on a signal.     *)
(*                                                                         *)
(* The collector task is reduced to when its cycles begin and end and to   *)
(* the readiness that its breaker reports (see Collector); the HTTP server *)
(* to its connections and what its handlers answer.                        *)
(***************************************************************************)
EXTENDS Config, Server, Functions

CONSTANTS
    Environments,   \* the environments the process may be started in
    SendableKeys,   \* API keys that can be the value of an HTTP header
    Clients,        \* HTTP clients, each with at most one connection
    Requests,       \* what they may ask
    Period, MaxLate \* the scrape interval, see Schedule

\* A numeric variable has a number for its value, or NotANumber.
ASSUME MainAssumption ==
    /\ Period \in Nat \ {0} /\ MaxLate \in Nat
    /\ \A e \in Environments : \A name \in DOMAIN Numeric : e[name] \subseteq Int

VARIABLES
    phase,          \* "configuring", "building", "binding", "serving",
                    \* "draining", or how the process ended
    env,            \* the environment, until it has been read
    config,         \* the configuration, as far as it is still needed
    collector,      \* "none", "first", "cycle", "waiting", "dead", "stopped"
    ready,          \* is_ready()
    due, position, taken,       \* the collector's interval
    conn,           \* the connection of each client
    exchange        \* history: the latest request and its answer

schedule == <<due, position, taken>>
vars == <<phase, env, config, collector, ready, schedule, conn, exchange>>

S == INSTANCE Schedule

Ends == {"success", "failure", "killed"}
Busy == {"first", "cycle"}
Nothing == [x \in {} |-> 0]

Init ==
    /\ phase = "configuring"
    /\ env \in Environments
    /\ config = Nothing
    /\ collector = "none"
    /\ ready = TRUE
    /\ S!Init
    /\ conn = [c \in Clients |-> "closed"]
    /\ exchange = Nothing

\* The process ends: the runtime goes, and with it the collector at whatever
\* await it is in, and every connection.
End(how) ==
    /\ phase' = how
    /\ collector' = IF collector = "none" THEN "none" ELSE "stopped"
    /\ conn' = [c \in Clients |-> "closed"]
    /\ env' = Nothing
    /\ UNCHANGED <<config, ready, schedule, exchange>>

-----------------------------------------------------------------------------
(***************************************************************************)
(* Starting.                                                               *)
(***************************************************************************)
ReadConfig ==
    /\ phase = "configuring"
    /\ \/ /\ Faults(env) # {}
          /\ End("failure")
       \/ /\ Faults(env) = {}
          /\ phase' = "building"
          /\ config' = FromEnv(env)
          /\ env' = Nothing
          /\ UNCHANGED <<collector, ready, schedule, conn, exchange>>

\* The client, the metrics, the collector with its breaker, the router.  The
\* HTTP client may fail to come up, and does when the key fits no header.  The
\* collector task is spawned before the port is bound.  Of the configuration
\* only what later steps look at is kept.
Build ==
    /\ phase = "building"
    /\ \/ End("failure")
       \/ /\ config.jellyfin_api_key \in SendableKeys
          /\ phase' = "binding"
          /\ config' = Restrict(config, {"metrics_token", "retry_max_attempts"})
          /\ collector' = "first"
          /\ UNCHANGED <<env, ready, schedule, conn, exchange>>

Bind ==
    /\ phase = "binding"
    /\ \/ End("failure")
       \/ /\ phase' = "serving"
          /\ UNCHANGED <<env, config, collector, ready, schedule, conn, exchange>>

-----------------------------------------------------------------------------
(***************************************************************************)
(* The collector task.                                                     *)
(***************************************************************************)

\* with_retry panics at its first use, see Retry.
RetryPanics == (config.retry_max_attempts + 1) % Word32 = 0

CycleEnds ==
    /\ collector \in Busy
    /\ collector' = "waiting"
    /\ IF collector = "first" THEN S!Begin ELSE UNCHANGED schedule
    /\ UNCHANGED <<phase, env, config, ready, conn, exchange>>

TickTaken ==
    /\ collector = "waiting"
    /\ S!Tick
    /\ collector' = "cycle"
    /\ UNCHANGED <<phase, env, config, ready, conn, exchange>>

\* The outcome of a fetch opens or closes the breaker, during a cycle.
ReadinessChanges ==
    /\ collector \in Busy
    /\ ~RetryPanics
    /\ ready' = ~ready
    /\ UNCHANGED <<phase, env, config, collector, schedule, conn, exchange>>

\* The task ends; nobody holds its join handle.
CollectorPanics ==
    /\ collector \in Busy
    /\ RetryPanics
    /\ collector' = "dead"
    /\ UNCHANGED <<phase, env, config, ready, schedule, conn, exchange>>

\* The cancelled branch of the select, which is polled between cycles only.
CollectorStops ==
    /\ phase = "draining"
    /\ collector = "waiting"
    /\ collector' = "stopped"
    /\ UNCHANGED <<phase, env, config, ready, schedule, conn, exchange>>

Elapse ==
    /\ collector \in {"cycle", "waiting"}
    /\ S!Elapse
    /\ UNCHANGED <<phase, env, config, collector, ready, conn, exchange>>

-----------------------------------------------------------------------------
(***************************************************************************)
(* The HTTP server and its clients.                                        *)
(***************************************************************************)
Moves(c, from, to) ==
    /\ conn[c] = from
    /\ conn' = [conn EXCEPT ![c] = to]
    /\ UNCHANGED <<phase, env, config, collector, ready, schedule, exchange>>

Connect(c) == phase = "serving" /\ Moves(c, "closed", "idle")
BeginRequest(c) == phase \in {"serving", "draining"} /\ Moves(c, "idle", "sending")
CompleteRequest(c) == Moves(c, "sending", "received")
HangUp(c) == \E from \in {"idle", "sending", "received"} : Moves(c, from, "closed")

\* A handler answers.  A draining server closes the connection after that.
Answer(c) ==
    /\ conn[c] = "received"
    /\ \E request \in Requests :
          exchange' = [request |-> request,
                       status |-> Respond(request, config.metrics_token, ready)]
    /\ conn' = [conn EXCEPT ![c] = IF phase = "draining" THEN "closed" ELSE "idle"]
    /\ UNCHANGED <<phase, env, config, collector, ready, schedule>>

-----------------------------------------------------------------------------
(***************************************************************************)
(* Shutting down.                                                          *)
(***************************************************************************)

\* What the graceful shutdown does with a connection: an idle one is closed.
Draining(c) == IF conn[c] = "idle" THEN "closed" ELSE conn[c]

\* SIGINT or SIGTERM.  Before the server runs no handler is installed and the
\* signal kills the process.  The first one afterwards cancels the token and
\* stops the accepting; those after it are swallowed.
Signal ==
    \/ phase \in {"configuring", "building", "binding"} /\ End("killed")
    \/ /\ phase = "serving"
       /\ phase' = "draining"
       /\ conn' = [c \in Clients |-> Draining(c)]
       /\ UNCHANGED <<env, config, collector, ready, schedule, exchange>>

\* A slip the runs must notice: main waits for the cycle that is running.
ReturnAfterCycle ==
    /\ phase = "draining"
    /\ \A c \in Clients : conn[c] = "closed"
    /\ collector \notin Busy
    /\ End("success")

\* serve() returns when the last connection is closed, and main() with it,
\* without waiting for the collector.
Return ==
    /\ phase = "draining"
    /\ \A c \in Clients : conn[c] = "closed"
    /\ End("success")

Ended == phase \in Ends /\ UNCHANGED vars

CollectorStep ==
    \/ CycleEnds \/ TickTaken \/ ReadinessChanges \/ CollectorPanics
    \/ CollectorStops

ClientStep(c) == Connect(c) \/ BeginRequest(c) \/ CompleteRequest(c) \/ HangUp(c)

Next ==
    \/ ReadConfig \/ Build \/ Bind
    \/ CollectorStep \/ Elapse
    \/ \E c \in Clients : ClientStep(c) \/ Answer(c)
    \/ Signal \/ Return
    \/ Ended

(***************************************************************************)
(* The handlers answer and main goes on.  Nothing is assumed of the        *)
(* clients, of the signals, of the server that is scraped, or of the       *)
(* collector.                                                              *)
(***************************************************************************)
Fairness ==
    /\ WF_vars(ReadConfig) /\ WF_vars(Build) /\ WF_vars(Bind)
    /\ \A c \in Clients : WF_vars(Answer(c))
    /\ WF_vars(Return)

Spec == Init /\ [][Next]_vars /\ Fairness

-----------------------------------------------------------------------------
(***************************************************************************)
(* Properties.                                                             *)
(***************************************************************************)

\* What is assumed of the settings elsewhere: a threshold and a timeout that
\* the breaker can reach (BreakerAssumption), a deadline that leaves time for
\* an answer (FetchAssumption), an interval that is not empty (tokio panics on
\* that), a port that is the one asked for, and delays whose maximum the
\* doubling reaches before its power saturates (the proviso of Backoffs in
\* RetryProofs, with Word32 - 1 >= 10), even where the product has wrapped.
FitsTheParts(c) ==
    /\ c.circuit_breaker_threshold \in 1 .. Word32 - 1
    /\ c.circuit_breaker_reset_ms \in 1 .. Word64 - 1
    /\ c.request_timeout_ms \in 1 .. Word64 - 1
    /\ c.scrape_interval_ms \in 1 .. Word64 - 1
    /\ c.port \in Nat \ {0} /\ c.port <= 65535
    /\ c.retry_base_delay_ms \in 1 .. Word64 - 1
    /\ c.retry_max_delay_ms \in 0 .. 10 * c.retry_base_delay_ms

\* The limits that from_env checks cover what the breaker, the client, the
\* interval and the backoffs need.  They do not cover everything: a key may fit
\* no header (Build fails), a maximum delay that wraps may be below its base,
\* and the largest number of retries makes the loop panic (NeverPanics in
\* Retry).
AcceptedFits == phase = "building" => FitsTheParts(config)

\* With a token configured, metrics are given only to a request that carries
\* it as a Bearer token, whatever the environment made of the token.
TokenProtects ==
    /\ exchange # Nothing
    /\ exchange.request.path = "/metrics"
    /\ exchange.status = 200
    => \A token \in config.metrics_token :
          \E header \in exchange.request.authorization :
              header.scheme = "Bearer" /\ header.credentials = token

\* However long cycles take, no more than one begins per scrape interval of
\* the grid: missed ticks are not made up for.
OneCyclePerSlot == taken <= 1

\* A signal ends a serving process, with success, even if its collector is in
\* an endless cycle or dead, unless a client never completes a request that it
\* has begun.
ExitsAfterSignal ==
    (\A c \in Clients : []<>(conn[c] # "sending"))
        => (phase = "draining" ~> phase = "success")
=============================================================================
