----------------------------- MODULE Collector -----------------------------
(***************************************************************************)
(* The collector loop of collector.rs and what it publishes.               *)
(*                                                                         *)
(* A cycle probes the server, fans out to one fetch per endpoint, and, for *)
(* every library that the "libraries" fetch lists, one more fetch of its   *)
(* item count.  Every fetch goes through the circuit breaker and, inside   *)
(* it, through the retry loop.  When all of them are done the cycle        *)
(* publishes.  The fetches of a cycle are branches of one task that        *)
(* interleave at their awaits; the breaker is the module CircuitBreaker.   *)
(*                                                                         *)
(* A response takes a trip through the reactor, so no request is answered  *)
(* in the poll that sends it: all branches of a fan-out have the breaker's *)
(* decision before the outcome of any of them is recorded.  The order in   *)
(* which they get it, and in which they end, is left open.                 *)
(*                                                                         *)
(* The data of a response is abstracted to where it came from; the wait    *)
(* for a response and the backoff sleep before the next attempt are one.   *)
(***************************************************************************)
EXTENDS Naturals, FiniteSets

CONSTANTS
    Endpoints,          \* the fetches joined by collect()
    Libraries,          \* the libraries the server may list
    ErrorKinds,         \* labels of the ClientError variants
    ServerConditions,   \* what the server may be like, see below
    MaxRetries,         \* retry_max_attempts: attempts after the first
    FailureThreshold,
    ResetTimeout

(***************************************************************************)
(*   "up"            answers everything                                    *)
(*   "unauthorized"  answers the public probe and refuses the rest         *)
(*   "down"          answers nothing                                       *)
(*   "flaky"         any single request may go either way                  *)
(***************************************************************************)
ASSUME CollectorAssumption ==
    /\ "libraries" \in Endpoints
    /\ Endpoints \cap Libraries = {}
    /\ IsFiniteSet(Endpoints)
    /\ MaxRetries \in Nat
    /\ FailureThreshold \in Nat \ {0}
    /\ ResetTimeout \in Nat \ {0}
    /\ ServerConditions \subseteq {"up", "unauthorized", "down", "flaky"}
    /\ ErrorKinds \cap {"circuit_open", "unreachable", "idle", "ready",
                        "calling", "ok"} = {}

VARIABLES
    loop,           \* where run() and collect() are
    cancelled,      \* the cancellation token
    server,         \* the environment: one of ServerConditions
    fetch,          \* what became of each fetch of this cycle
    tries,          \* attempts each fetch has started in this cycle
    up,             \* jellyfin_up
    stale,          \* jellyfin_metrics_stale
    served,         \* what the gauges of an endpoint, or of a library, show
    errors,         \* growth of scrape_errors_total in this cycle, by kind
    timestamp,      \* which cycle set last_successful_scrape_timestamp
    status, consecutive_failures, elapsed,      \* the breaker
    veterans, streak                            \* history of the breaker

breaker == <<status, consecutive_failures, elapsed, veterans, streak>>
published == <<up, stale, served, errors, timestamp>>
vars == <<loop, cancelled, server, fetch, tries, published, breaker>>

Fetches == Endpoints \cup Libraries
Outcomes == ErrorKinds \cup {"circuit_open", "ok"}
Kinds == ErrorKinds \cup {"circuit_open", "unreachable"}

\* The calls between the breaker's two critical sections.
InFlight == {f \in Fetches : fetch[f] = "calling"}

CB == INSTANCE CircuitBreaker WITH Callers <- Fetches, running <- InFlight

LoopTypeOK ==
    /\ loop \in {"starting", "probing", "fetching", "waiting", "stopped"}
    /\ cancelled \in BOOLEAN
    /\ server \in ServerConditions
    /\ fetch \in [Fetches -> Outcomes \cup {"idle", "ready", "calling"}]
    /\ tries \in [Fetches -> 0 .. MaxRetries + 1]
    /\ up \in {0, 1} /\ stale \in {0, 1}
    /\ served \in [Fetches -> {"blank", "data", "zero"}]
    /\ errors \in [Kinds -> 0 .. Cardinality(Endpoints)]
    /\ timestamp \in {"never", "earlier", "latest"}

TypeOK == LoopTypeOK /\ CB!TypeOK

NoErrors == [k \in Kinds |-> 0]

Init ==
    /\ loop = "starting"
    /\ cancelled = FALSE
    /\ server \in ServerConditions
    /\ fetch = [f \in Fetches |-> "idle"]
    /\ tries = [f \in Fetches |-> 0]
    /\ up = 0 /\ stale = 0
    /\ served = [f \in Fetches |-> "blank"]
    /\ errors = NoErrors
    /\ timestamp = "never"
    /\ CB!Init

-----------------------------------------------------------------------------
(***************************************************************************)
(* The loop: the first collection starts at once, the others on a tick.    *)
(* The select of run() may take the tick although the token is cancelled.  *)
(* What `fetch`, `tries`, `errors` and "latest" say is about the latest    *)
(* cycle, so they start afresh with it.                                    *)
(***************************************************************************)
BeginCollect ==
    /\ loop \in {"starting", "waiting"}
    /\ loop' = "probing"
    /\ fetch' = [f \in Fetches |-> "idle"]
    /\ tries' = [f \in Fetches |-> 0]
    /\ errors' = NoErrors
    /\ timestamp' = IF timestamp = "latest" THEN "earlier" ELSE timestamp
    /\ UNCHANGED <<cancelled, server, up, stale, served, breaker>>

\* A slip the runs must notice: the loop looks at its token only when the
\* breaker is not open.
StopWhenReady ==
    /\ loop = "waiting"
    /\ cancelled
    /\ status # "Open"
    /\ loop' = "stopped"
    /\ UNCHANGED <<cancelled, server, fetch, tries, published, breaker>>

Stop ==
    /\ loop = "waiting"
    /\ cancelled
    /\ loop' = "stopped"
    /\ UNCHANGED <<cancelled, server, fetch, tries, published, breaker>>

\* The signal handler cancels the token, once, at any moment.
Cancel ==
    /\ ~cancelled
    /\ cancelled' = TRUE
    /\ UNCHANGED <<loop, server, fetch, tries, published, breaker>>

\* main() returns when the last connection is closed; dropping the runtime
\* then aborts the collector at whatever await it is in.
Abort ==
    /\ cancelled
    /\ loop # "stopped"
    /\ loop' = "stopped"
    /\ UNCHANGED <<cancelled, server, fetch, tries, published, breaker>>

-----------------------------------------------------------------------------
(***************************************************************************)
(* Phase 1: the unauthenticated probe, not retried, not under the breaker. *)
(***************************************************************************)
ProbeFails ==
    /\ loop = "probing"
    /\ server \in {"down", "flaky"}
    /\ up' = 0 /\ stale' = 1
    /\ errors' = [errors EXCEPT !["unreachable"] = @ + 1]
    /\ loop' = "waiting"
    /\ UNCHANGED <<cancelled, server, fetch, tries, served, timestamp, breaker>>

\* A slip the runs must notice: the public probe counts as a success of the
\* breaker.
ProbeSucceedsUnderBreaker ==
    /\ loop = "probing"
    /\ server # "down"
    /\ up' = 1 /\ stale' = 0
    /\ fetch' = [f \in Fetches |-> IF f \in Endpoints THEN "ready" ELSE "idle"]
    /\ loop' = "fetching"
    /\ CB!RecordSuccess
    /\ streak' = 0
    /\ UNCHANGED <<cancelled, server, tries, served, errors, timestamp, veterans>>

\* The flags are set before anything has been fetched.
ProbeSucceeds ==
    /\ loop = "probing"
    /\ server # "down"
    /\ up' = 1 /\ stale' = 0
    /\ fetch' = [f \in Fetches |-> IF f \in Endpoints THEN "ready" ELSE "idle"]
    /\ loop' = "fetching"
    /\ UNCHANGED <<cancelled, server, tries, served, errors, timestamp, breaker>>

-----------------------------------------------------------------------------
(***************************************************************************)
(* Phase 2: the fetches, each under breaker and retry.                     *)
(***************************************************************************)

\* The poll that starts a fan-out is over: join! and join_all have polled each
\* of their branches up to its first await.
Decided == \A f \in Fetches : fetch[f] # "ready"

\* A slip the runs must notice: an open breaker that refuses a call still
\* lets it run.
EnterUnchecked(f) ==
    /\ loop = "fetching"
    /\ fetch[f] = "ready"
    /\ fetch' = [fetch EXCEPT ![f] = "calling"]
    /\ tries' = [tries EXCEPT ![f] = 1]
    /\ \/ CB!Enter(f)
       \/ CB!Refuses /\ UNCHANGED breaker
    /\ UNCHANGED <<loop, cancelled, server, published>>

\* The breaker lets the call run, and the first attempt starts.
Enter(f) ==
    /\ loop = "fetching"
    /\ fetch[f] = "ready"
    /\ fetch' = [fetch EXCEPT ![f] = "calling"]
    /\ tries' = [tries EXCEPT ![f] = 1]
    /\ CB!Enter(f)
    /\ UNCHANGED <<loop, cancelled, server, published>>

\* The breaker is open: CollectorError::CircuitOpen without an attempt.
FastFail(f) ==
    /\ loop = "fetching"
    /\ fetch[f] = "ready"
    /\ fetch' = [fetch EXCEPT ![f] = "circuit_open"]
    /\ CB!Reject(f)
    /\ UNCHANGED <<loop, cancelled, server, tries, published, breaker>>

\* A slip the runs must notice: one attempt too many.
RetryOnceTooOften(f) ==
    /\ loop = "fetching"
    /\ fetch[f] = "calling" /\ Decided
    /\ server # "up"
    /\ tries[f] <= MaxRetries + 1
    /\ tries' = [tries EXCEPT ![f] = @ + 1]
    /\ UNCHANGED <<loop, cancelled, server, fetch, published, breaker>>

\* An attempt fails and another one follows: the breaker does not hear of it.
Retry(f) ==
    /\ loop = "fetching"
    /\ fetch[f] = "calling" /\ Decided
    /\ server # "up"
    /\ tries[f] < MaxRetries + 1
    /\ tries' = [tries EXCEPT ![f] = @ + 1]
    /\ UNCHANGED <<loop, cancelled, server, fetch, published, breaker>>

\* The last attempt fails, and with it the whole sequence.
Exhaust(f) ==
    /\ loop = "fetching"
    /\ fetch[f] = "calling" /\ Decided
    /\ server # "up"
    /\ tries[f] = MaxRetries + 1
    /\ \E kind \in ErrorKinds : fetch' = [fetch EXCEPT ![f] = kind]
    /\ CB!Fail(f)
    /\ UNCHANGED <<loop, cancelled, server, tries, published>>

\* Some attempt succeeds.  The list of libraries makes ready one item-count
\* fetch for each library it names.
Answer(f) ==
    /\ loop = "fetching"
    /\ fetch[f] = "calling" /\ Decided
    /\ server \in {"up", "flaky"}
    /\ \E listed \in SUBSET (IF f = "libraries" THEN Libraries ELSE {}) :
          fetch' = [g \in Fetches |-> IF g = f THEN "ok"
                                      ELSE IF g \in listed THEN "ready"
                                      ELSE fetch[g]]
    /\ CB!Succeed(f)
    /\ UNCHANGED <<loop, cancelled, server, tries, published>>

-----------------------------------------------------------------------------
(***************************************************************************)
(* Phase 3: everything has been awaited; publish.                          *)
(***************************************************************************)
Failed(f) == fetch[f] \in ErrorKinds \cup {"circuit_open"}
Done(f) == fetch[f] \in Outcomes
Listed == {lib \in Libraries : fetch[lib] # "idle"}

\* A slip the runs must notice: the per-library counts are not awaited.
JoinedEndpointsOnly == \A f \in Endpoints : Done(f)

\* A slip the runs must notice: waiting for libraries that were not listed.
JoinedEverything == \A f \in Fetches : Done(f)

\* join! and, inside the libraries branch, join_all.
Joined == \A f \in Endpoints \cup Listed : Done(f)

\* A slip the runs must notice: refusals by the breaker are not counted.
RecordApiErrors ==
    [k \in Kinds |->
        IF k \in ErrorKinds
        THEN Cardinality({e \in Endpoints : fetch[e] = k}) ELSE 0]

\* record_scrape_error for every endpoint.
RecordErrors ==
    [k \in Kinds |-> Cardinality({e \in Endpoints : fetch[e] = k})]

\* A slip the runs must notice: the library gauge is not reset, so that the
\* libraries of an earlier list stay when the list cannot be fetched.
ShownWithoutReset(f) ==
    IF f \in Libraries /\ fetch[f] = "idle" THEN served[f]
    ELSE IF fetch[f] = "ok" THEN "data"
    ELSE IF f \in Listed THEN "zero" ELSE "blank"

\* Every gauge is reset and then set from this cycle's outcome.  A library
\* whose count could not be fetched is shown with 0 items.
Shown(f) ==
    IF fetch[f] = "ok" THEN "data"
    ELSE IF f \in Listed THEN "zero" ELSE "blank"

\* A slip the runs must notice: any_err forgets one of the endpoints.
AnyErrButLibraries == \E e \in Endpoints \ {"libraries"} : Failed(e)

\* Only the endpoints count, not the per-library item counts.
AnyErr == \E e \in Endpoints : Failed(e)

Publish ==
    /\ loop = "fetching"
    /\ Joined
    /\ errors' = RecordErrors
    /\ served' = [f \in Fetches |-> Shown(f)]
    /\ timestamp' = IF AnyErr THEN timestamp ELSE "latest"
    /\ loop' = "waiting"
    /\ UNCHANGED <<cancelled, server, fetch, tries, up, stale, breaker>>

-----------------------------------------------------------------------------
(***************************************************************************)
(* The environment.                                                        *)
(***************************************************************************)
Elapse ==
    /\ loop # "stopped"
    /\ UNCHANGED <<loop, cancelled, server, fetch, tries, published>>
    /\ CB!Elapse

ServerChanges ==
    /\ loop # "stopped"
    /\ server' \in ServerConditions \ {server}
    /\ UNCHANGED <<loop, cancelled, fetch, tries, published, breaker>>

\* The collector task has ended.
Ended == loop = "stopped" /\ UNCHANGED vars

FetchStep(f) ==
    Enter(f) \/ FastFail(f) \/ Retry(f) \/ Exhaust(f) \/ Answer(f)

Next ==
    \/ BeginCollect \/ Stop \/ Cancel \/ Abort
    \/ ProbeFails \/ ProbeSucceeds
    \/ \E f \in Fetches : FetchStep(f)
    \/ Publish
    \/ Elapse \/ ServerChanges \/ Ended

Spec == Init /\ [][Next]_vars

(***************************************************************************)
(* Ticks come, every request is answered or times out (the HTTP client has *)
(* a request timeout), the task is scheduled and time passes.  The select  *)
(* of run() chooses at random between a tick and the cancellation, so a    *)
(* cancellation that stays is eventually chosen: strong fairness.  Nothing *)
(* is assumed of the server, of the signal or of main().                   *)
(***************************************************************************)
Fairness ==
    /\ WF_vars(BeginCollect)
    /\ SF_vars(Stop)
    /\ WF_vars(ProbeFails \/ ProbeSucceeds)
    /\ \A f \in Fetches : WF_vars(FetchStep(f))
    /\ WF_vars(Publish)
    /\ WF_vars(Elapse)

FairSpec == Spec /\ Fairness

-----------------------------------------------------------------------------
(***************************************************************************)
(* Safety.                                                                 *)
(***************************************************************************)

\* The fan-out uses the breaker as the breaker expects to be used: every
\* entry is followed by exactly one record, on every path through retry,
\* join and publication, over any number of cycles.
UsesBreaker == CB!Spec

\* When no cycle is fetching, no call is in flight and the breaker is not
\* half-open: the verdict on a probe never outlasts the cycle that made it,
\* so the readiness that is_ready() reports between cycles is settled.
QuietBetweenCycles ==
    loop \notin {"fetching", "stopped"} =>
        InFlight = {} /\ status # "HalfOpen"

\* The two accounts of a cycle, kept by different code, agree: the timestamp
\* of the last successful scrape moves exactly when the error counter does
\* not (metrics.rs, help of the timestamp).
TimestampTracksErrors ==
    loop = "waiting" =>
        (timestamp = "latest" <=> \A k \in Kinds : errors[k] = 0)

\* A cycle that published a timestamp and a count for every library it lists
\* leaves the breaker closed with a clean record: an exporter that is not
\* ready never looks flawless.
FlawlessCycleCloses ==
    /\ loop = "waiting"
    /\ timestamp = "latest"
    /\ \A lib \in Libraries : served[lib] # "zero"
    => status = "Closed" /\ consecutive_failures = 0

\* A library is on show only together with the list it came from, whatever
\* happened to the list in other cycles.
LibrariesComeFromAList ==
    \A lib \in Libraries :
        served[lib] # "blank" => served["libraries"] = "data"

\* Readiness is settled between cycles: is_ready() reads the stored state, so
\* it changes by the outcome of a fetch or the admission of one, never by the
\* passing of the reset timeout or by a public probe.  An exporter that is
\* not ready stays so at least until its next cycle.
ReadinessMovesInCycles == [][loop # "fetching" => status' = status]_vars

(***************************************************************************)
(* Liveness.                                                               *)
(***************************************************************************)

\* A cycle that has begun ends, whatever the server does and however many
\* libraries it lists.
CycleEnds == loop = "probing" ~> loop \in {"waiting", "stopped"}

\* Once the server stays up, the breaker closes for good and every gauge
\* shows data again, unless the exporter is told to stop.
Recovers ==
    <>[](server = "up") =>
        \/ <>cancelled
        \/ <>[](status = "Closed" /\ \A e \in Endpoints : served[e] = "data")

\* A key the server refuses trips the breaker although every public probe
\* succeeds (client.rs, is_publicly_reachable), and keeps tripping it.
TripsOnBadKey ==
    <>[](server = "unauthorized") => <>cancelled \/ []<>(status = "Open")

\* The loop ends after the token is cancelled.
ShutsDown == cancelled ~> loop = "stopped"

-----------------------------------------------------------------------------
(***************************************************************************)
(* What the documentation says and the code does not do.                   *)
(***************************************************************************)

\* "If the circuit opens ..., the exporter serves stale metrics with
\* jellyfin_up=0 and jellyfin_metrics_stale=1" (readme).
OpenCircuitIsStale ==
    loop = "waiting" /\ status = "Open" => up = 0 /\ stale = 1

\* "/metrics serves the snapshot from the most recent successful collection"
\* (lib.rs): once a collection has succeeded, every gauge shows data.
KeepsLastSnapshot ==
    timestamp # "never" => \A e \in Endpoints : served[e] = "data"

\* The timestamp is that of the "last collection cycle that completed
\* without errors" (metrics.rs, help of the timestamp).
TimestampMeansNoFailure ==
    loop = "waiting" /\ timestamp = "latest" =>
        \A f \in Fetches : ~Failed(f)
=============================================================================
