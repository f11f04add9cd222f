# A TLA+ model of jellyfin-exporter

This directory holds TLA+ specifications of jellyfin-exporter, a Prometheus
exporter for the Jellyfin media server, with the TLC configurations that check
them on small instances and the proofs, checked by TLAPS, that some results
hold for every instance. Paths such as `src/collector.rs` are relative to the
root of the repository.

## 1. The system

| Component | State it keeps | Operations | Talks to |
|---|---|---|---|
| **Circuit breaker** `src/circuit_breaker.rs` | one mutex: `Closed{consecutive_failures}`, `Open{since}` or `HalfOpen` | `execute` (decide, await the operation unlocked, record), `status` | called by every fetch; `status` by `/ready` |
| **Retry loop** `src/retry.rs` | the locals of one `with_retry` | attempts, backoff with jitter | the operation handed to `execute` |
| **Collector** `src/collector.rs` | the breaker; nothing else outlives a cycle | `run` (first cycle at once, then on ticks until cancelled), `collect` (probe, fan-out, publish), `is_ready` | client, breaker, retry, metrics |
| **Client** `src/client.rs` | a connection pool | five authenticated GETs, the public probe, classification of errors | Jellyfin over HTTP |
| **Metrics registry** `src/metrics.rs` | some twenty gauges and counters, each behind its own atomics or lock | set, reset, inc; `encode` gathers them all | written by the collector, read by `/metrics` |
| **HTTP server** `src/server.rs` | none | `/metrics` (optional bearer token), `/health`, `/ready` | registry, breaker status |
| **Configuration** `src/config.rs` | none after start | parse and validate environment variables | gives the other parts their constants |
| **Main** `src/main.rs` | the cancellation token | start everything, cancel on a signal, return when the server has drained | all |

There is one collector task; HTTP handlers run on other threads of the same
runtime. Inside a cycle the fetches are branches of one task that interleave
at awaits, and all of them share the breaker. The collector talks to the
handlers only through the registry and the breaker's status.

What is hard about it, and what makes each part correct:

* **Breaker.** Its mutex is free while an operation runs, so between a caller's
  decision and its record the others may trip, probe or close the circuit. It
  must count every outcome once, admit nobody while it is open, not restart
  its timeout for failures of calls from before, and never be left half-open
  with nobody to decide it: half-open has no timer of its own.
* **Retry.** At least one attempt and at most `1 + max_attempts`, one sleep
  between two attempts and none after the last, a schedule that jitter does
  not turn around, and all that at the edges of its integer types.
* **Collector.** Four fetches, one of which fans out again; any subset may
  fail, be refused, or be slow. What a cycle publishes (flags, gauges,
  error counters, timestamp) is computed in different places and must agree.
  Cycles must end, the exporter must recover from an outage and must notice a
  key that the server refuses although it looks reachable.
* **Sessions.** A loop over what the server sends, with every field optional,
  into a dozen gauges that are reset by hand and whose labels are texts of the
  server's choosing.
* **Client.** A server may fall silent at any byte of an answer.
* **Registry and server.** A scrape may fall in the middle of a publication;
  metrics must not leave without the token.
* **Main.** A cancellation during a cycle, a tick together with a
  cancellation, a cycle longer than the interval, a task that dies without
  anybody noticing, clients that keep a connection open while the server
  drains, settings at the ends of their types.

`PROJECT.json` lists every such hazard at its line, with the properties that
would notice it.

## 2. Modules

    BreakerStateMachine      RetryContract            abstract specifications
            ^                      ^
            | refines (1 caller)   | refines
      CircuitBreaker             Retry     Client     components
            ^                      ^         ^
            | INSTANCE             | EXTENDS | INSTANCE
        Collector                  +- Fetch -+        compositions

        SanitizeLabel <- SessionMetrics               what a response becomes
        Exposition                                    /metrics against a publication
        Config, Server, Schedule <- Main              the life of the process

    CircuitBreakerProofs <- CollectorProofs           proofs
    RecursionLemmas <- RetryProofs <- FetchProofs
    RecursionLemmas <- SessionMetricsProofs
    MainProofs, ExpositionProofs

    MCCircuitBreaker, MCCollector, MCFetch, MCRetry,  instances for TLC
    MCSessionMetrics, MCExposition, MCMain

The modules overlap where two views of the same code are needed. Collector
takes the loop over sessions as one value and the publication as one step;
SessionMetrics opens the first, Exposition the second. Collector takes a request
as one step that ends one way or the other; Fetch opens it. Main takes a cycle
as a beginning and an end, and readiness as a flag that moves during cycles
only, which is what `ReadinessMovesInCycles` shows of Collector.

Definitions named as slips (`RecordFailureOffByOne`, `JoinedEndpointsOnly` and
so on) are not part of a specification. Each is a plausible mistake in the
definition that follows it; putting it in that definition's place breaks a
property, which shows that the property depends on the code being right there.

### CircuitBreaker

`status` and `consecutive_failures` are the contents of the mutex. The code
stores the instant of opening and computes `now - since` on demand; `elapsed`
is that difference, advanced by the clock step `Elapse` and kept at
ResetTimeout because the code only compares it with the timeout. `running`
holds the callers between the two critical sections of `execute`. `Enter` and
`Reject` are the first critical section with its two decisions; `Succeed` and
`Fail` are the end of the operation with the second one. Clock reads happen
inside the critical section, so they are part of those steps.

Two history variables serve the properties and influence nothing: `veterans`
are the calls in flight that were already in flight when the circuit last
opened, `streak` is the number of failures recorded since the last success,
kept at the threshold.

`status()` reads one field under the lock; its value is the variable `status`.
Half-open admits every caller, not one: the fan-out sends several probes at
once. The outcome recorded first closes the circuit or re-opens it, and what
the others record later is treated as the state it finds then says.

A poisoned lock is recovered from by `lock_state`; no critical section can
panic, so it does not occur in the model.

### BreakerStateMachine

The three-state machine that the comment of `CircuitBreaker` documents, with
the timeout. It is what a user with one call at a time sees, and
`ImplementsStateMachine` in CircuitBreaker is the refinement.

### Retry and RetryContract

One execution of `with_retry`: `pc` is where it is, `attempt` the loop
variable, `last_err` whether an error has been kept. `Word` is the number of
values of the counters (2^32 in the program); a release build wraps, so
`total_attempts` is `(MaxAttempts + 1) % Word`. `backoff_delay` is the set
`BackoffDelays(n)` of delays it can return. How long a sleep takes is left
out. `RetryContract` is what the collector relies on; Retry refines it, with
the sleeps and the loop head invisible.

### Client and Fetch

Client is `JellyfinClient::get`: a request is sent, is answered by a head and
then by a body, or fails; `waited` is the time since it was sent. The request
timeout is a deadline for the whole of it, set once on the client of reqwest.
A deadline that passes before the head is a timeout error; one that passes
during the body comes out of `json()` and is classed as a parse error. What the
server and the network do (`Hear`) is kept apart from what the client does by
itself (`TimesOut`), for the sake of fairness.

Fetch puts the two together: it EXTENDS Retry, joins the start and the end of an
attempt with the sending and the outcome of a request, and adds up the time in
`spent`. A sleep is one step, waiting for an answer goes unit by unit since it
races with the deadline. That a fetch is an execution of Retry, with its
fairness, is the property `ImplementsRetry`: it is the timeout that makes every
attempt end.

### Collector

`loop` says where `run` and `collect` are. `BeginCollect` is the immediate
first collection or a tick; `ProbeFails` and `ProbeSucceeds` are phase 1;
`Enter`, `FastFail`, `Retry`, `Exhaust` and `Answer` are what can happen to a
fetch in phase 2, a fetch being an endpoint or the item count of a library;
`Publish` is the whole of phase 3, which has no await in it. `Stop` is the
cancelled branch of the select, `Cancel` the signal handler, `Abort` the drop
of the runtime when `main` returns.

The breaker is an instance of CircuitBreaker whose callers are the fetches and
whose `running` is computed from `fetch`. `Retry`, `Exhaust` and `Answer` are
the steps of RetryContract.

Two facts of the runtime are built in. A request is never answered in the poll
that sends it, so all branches of a fan-out pass the breaker's decision before
any of them records an outcome (`Decided`); this holds for the reqwest client,
not for the mocks of the unit tests. And `Publish` is one step, because only
the collector's own task is looked at here.

The published state is abstracted to what the properties tell apart: `up` and
`stale`; per endpoint, and per library, whether its gauges are blank, show
data, or (a library) show a 0 for a count that failed; how much each kind of
`scrape_errors_total` grew in the latest cycle; and whether the timestamp is
from the latest cycle, an earlier one or none. After `Publish`, `fetch` and
`tries` keep what happened in the cycle, for the properties to refer to.

The server is the environment: `up`, `unauthorized` (answers the public probe
only), `down`, or `flaky` (every request may go either way), and changes at
will.

### Exposition

What Collector takes as one step, `Publish`, is for a concurrent `/metrics`
request a row of separate writes. `PublishWrites` is that row, in program
order, for the labelled gauge and the total of each of the four endpoints and for
the timestamp; `Collect` starts a cycle, `Write` makes its next write visible,
and `StartScrape` and `Gather` are a request that reads family after family, in
any order. No property relates two families other than the timestamp to one
another within a scrape, so of each scrape one family, whichever, and the
timestamp are followed. A value is represented by the number of the cycle that wrote it.
`with_label_values(..).set(..)` is two writes: a scrape can see the child with
0. Inside one family a scrape is atomic, because the prometheus crate holds the
family's lock while it collects the children and takes it for writing to reset
them or to add one; reading a whole family between `Touch` and `SetChild` is
the only thing that can still happen, and does. The flags `up` and `stale`, the
error counters and the other session gauges are left out; the latter are
written between the same reset and the same end of `collect_sessions`. One
scrape at a time is looked at, since scrapes do not influence each other.

### SanitizeLabel and SessionMetrics

A text is a sequence of characters of which only the class matters: ordinary,
a capital, and three kinds of white space, because the code looks at white
space in three ways: doubled spaces and ASCII white space ask for the slow
path, and the slow path splits at Unicode white space. `sanitize_label` is the
trim, the choice of a path, the collapsing and the cut to `MaxLabelChars`.
`Collapse` is the loop over the text that leaves one space of a run of white
space. Of the letters it is assumed that none becomes white space when its case
is folded (`SanitizeAssumption`).

SessionMetrics is `collect_sessions`. `BeginLoop` is the reset of the twelve
gauges and the count of the active sessions, `Visit` one turn of the loop,
`PublishTally` what follows it, `NoSessions` a failed fetch. A session is a
record with the fields of the serde types, an optional field being a set of at
most one value; a labelled gauge is a function from tuples of labels to values.
`Visit` is written as the code is, gauge by gauge; the properties say what
should result for the whole list (`ShowsTheSessions` builds each gauge from
what every session would show if it were alone, the last one winning).
Positions stay fractions, so that no floating point is needed. The loops inside
a turn, and the filter for active sessions, are left folds over what the server
sent. `SessionAssumption` says what the serde types say of a session: an
optional field has at most one value, and a text or a list is a sequence.

### Config, Server, Schedule and Main

Config is `Config::from_env`: a table of the numeric variables with their
types, defaults and minima, the texts that the other variables may have, and
the derived maximum delay in the width of its type. An environment gives every
variable a set of at most one value; a variable that is set to something that
is not valid Unicode counts as unset, as `env::var(..).ok()` has it.

Server is the three routes with the bearer check, as functions of a request and
of the state the handlers share. Schedule is tokio's interval with
`MissedTickBehavior::Skip`: `due` is the time to the next tick, negative when it
is overdue, `position` the time since the latest point of the grid.

Main composes them into the life of the process. `ReadConfig`, `Build` and
`Bind` are the start with its failures; the collector is spawned before the port
is bound, so it may be in its first cycle when binding fails. A signal before
the server is polled kills the process (no handler is installed yet); the
first one afterwards cancels the token and drains the server, later ones are
swallowed. Draining closes idle connections at once and the others after the
answer to the request that has begun. `Return` does not wait for the collector,
whose task goes with the runtime, at whatever await it is in. The task may also
end by the panic of the retry loop, and nobody notices. Of the configuration
only what later steps look at is kept, which keeps the state space small.

`AcceptedFits` compares what `from_env` lets pass with what the other modules
assume of their constants and with the proviso of `Backoffs`. It does not say
that nothing can go wrong with an accepted environment. Three things can: a key
that fits no HTTP header makes `Build` fail, and the process ends before it
serves; the largest number of retries makes the retry loop panic at its first
use (`retry_wraps`, and `CollectorPanics` in Main); and a base delay above a
tenth of its type gives a maximum delay that has wrapped and may be below the
base.

## 3. Runs

| Run | Instance | Shows |
|---|---|---|
| `breaker_concurrent` | 4 callers, threshold 3, timeout 3 | no interleaving loses an outcome, admits a call while open, restarts the timeout or orphans half-open; Open is left early only for a call from before it; a half-open circuit is settled |
| `breaker_sequential` | 1 caller, threshold 30, timeout 50 | with one call at a time the breaker is the documented machine |
| `retry_loop` | 6 retries, base delay 5, request timeout 3, 4-bit counters | with a server that may fall silent at any byte: the contract holds, backoffs never shrink, a fetch ends and stays within its budget of time |
| `collector_safety` | 3 endpoints, 2 libraries, 1 retry, threshold 3, timeout 2, flaky server | the fan-out uses the breaker as specified, leaves it settled between cycles, the accounts of a cycle agree, readiness moves during cycles only |
| `collector_liveness` | 2 endpoints, 1 library, 1 retry, threshold 3, timeout 2, server up, unauthorized or down | cycles end, recovery, tripping on a bad key, shutdown |
| `sessions` | all lists of up to 3 out of 9 sessions; all names of up to 4 characters, labels of up to 3 | the gauges show this response and nothing older; transcodes add up and nest; labels are clean; sanitizing hides no session |
| `exposition` | 4 endpoints (two with a total), 2 labels, 2 cycles | a labelled gauge never mixes two cycles; nothing gathered after a timestamp is older than it; between publications everything is from one cycle and totals agree with their breakdown |
| `lifecycle` | 2 clients, interval 3, up to 7 late, environments with any two variables at, below or above a limit | accepted settings are within what the breaker, the client, the interval and the backoffs assume; the token protects; one cycle per interval; a signal ends the process |

Bounds. Four callers are enough for two calls from before an opening and two
probes after it at the same time, which is every role a caller can play, twice;
threshold 3 has a first, a middle and a last failure. The sequential run has
long counts because its state space is a line. Three endpoints and two
libraries give a fan-out inside a fan-out with siblings on both levels, and
more concurrent calls than the threshold, so that a cycle can trip the circuit
while it runs and close it again; one retry distinguishes the attempt that is
repeated from the one that is not. The liveness instance has fewer failures per
cycle than the threshold, so that tripping needs more than one cycle. None of
their variables needs a bound: history counters are kept at the threshold and
error counts are per cycle. In the retry model 2^4 stands for 2^32, and with 6
retries the power of two reaches the end of that type; a request timeout of 3
has answers before, between and at the deadline. `MaxSessions` = 3 lets two
sessions share a series with a third beside or after them, and lists follow
each other, so a gauge that is not reset is seen; `MaxText` = 4 is one more than
`MaxLabelChars` = 3, which stands for 64, so a cut can fall on white space. The
interval is 3, so a tick can be late by less than one interval, by one and by
two (`MaxLate` = 7); ticks that are later than that look like one of these.
70000 and 100005 stand for 2^32 and 2^64: they are above every default and
minimum, which are the real ones, and in an order that keeps the port the
smallest type. Two variables at a time are off their defaults, since `from_env`
combines no more than the base delay with the maximum delay. Two clients let
one be answered while another holds its connection. In the exposition model two cycles are
an old and a new one, two labels a child that stays and one that comes or goes;
`MaxCycle` is its only bound.

Fairness. Calls end because the HTTP client has a request timeout and the retry
loop is bounded; ticks come because a tokio interval does not stop; the clock
advances; a task that can run is polled. The select between a tick and the
cancellation is random, so a cancellation that stays is chosen eventually:
strong fairness of `Stop`. Nothing is assumed of the server, the signal or
`Abort`. In Fetch it is the client's deadline that is fair, never an answer
(`Hear`). In Main the start, the handlers' answers and the return of `main` are
fair; clients, signals and the collector are not, so `ExitsAfterSignal` has to
hold with a collector that is stuck or dead, and says outright what it needs of
the clients: that none begins a request and neither completes it nor hangs up.
`Recovers` and `TripsOnBadKey` say what follows if the server stays
up, or stays unauthorized, for ever.

`CHECK_DEADLOCK` is left on everywhere: the ends of a run are explicit
stuttering steps (`Ended`, `Done`, `FetchDone`).

### Where the documentation and the code differ

Each of these runs checks a sentence of the documentation and shows a behaviour
of the code that contradicts it.

| Run | The sentence | What happens |
|---|---|---|
| `open_not_stale` | readme: while the circuit is open, `jellyfin_up=0` and `jellyfin_metrics_stale=1` | the flags follow the public probe alone: a cycle whose probe succeeds and whose fetches all fail opens the circuit with up=1 and stale=0 |
| `snapshot_lost` | lib.rs: `/metrics` serves the snapshot from the most recent successful collection | gauges are reset before the result is looked at: a failed fetch blanks them |
| `timestamp_with_failure` | metrics.rs: timestamp of the last cycle that completed without errors | a failed per-library count is replaced by 0 and not an error of the cycle |
| `retry_wraps` | retry.rs: total_attempts is at least 1 | it is 0 for the largest number of retries the configuration accepts |

Others came up while modelling. They are built into the models, and where a
property is near, it is stated so that it says what the code does; no run is
spent on them.

* The comment of `CircuitBreaker` knows one way out of Open, through HalfOpen.
  With concurrent callers a call from before the opening that succeeds late
  closes the circuit at once; `EarlyCloseOnlyByVeteran` shows that this is the
  only other way.
* The comment of `collect_item_counts` says that the total can never disagree
  with the breakdown. A scrape that falls between the two writes sees the new
  breakdown with a total of 0; `TotalsAgreeAtRest` is what holds.
* The media type reaches the label of `stream_bitrate` lower-cased but not
  sanitized, so it is bounded neither in length nor in kind, although
  `MAX_LABEL_CHARS` is there to bound labels.
* White space that is not ASCII is collapsed only if something else asks for
  the slow path, and the cut to 64 characters may leave a space at the end.
* A transcoding reason that the server lists twice counts twice, so
  `transcode_reason_sessions` is not a number of sessions then.
* The readme's "1 per session" is per series: two sessions with the same user,
  client, method and device are one.
* The public probe wants a JSON body that parses, not only an answer.
* The readme says of `RETRY_BASE_DELAY_MS` that the maximum delay is ten times the
  base. Nothing bounds the base from above, and in a release build the product
  wraps in 64 bits, so that the maximum can be below the base. No property
  catches this: what is shown of the retry loop holds for any maximum.
* A request whose deadline passes during the body is counted as a `parse` error
  and not as a `timeout`. Client has it so; no property is about the kind of an
  error.
* A `JELLYFIN_URL` of "/" is accepted and becomes empty.
* A variable that is set to something other than Unicode counts as unset.

## 4. Proofs

`CircuitBreakerProofs` proves, for every set of callers, every threshold and
every timeout of at least 1 (`BreakerAssumption`, which `config.rs` enforces):

* `TypeCorrect`, `OpenAdmits`, `ProbeExists`, `TripsOnStreak`: the invariants
  of `breaker_concurrent`.
* `CoolDown`, `EarlyClose`: its action properties.
* `SequentialRefinement`: with at most one caller, the breaker implements
  BreakerStateMachine.

The inductive invariant `IInv` is the conjunction of the type invariant and the
three safety invariants. `TypeOK` carries two facts that the others need: a
failure count is 0 outside Closed and an elapsed time 0 outside Open, and
veterans are in flight. `HalfOpenHasProbe` is inductive because the only way
into half-open admits a caller who is not a veteran and every record leaves
half-open; `TripsExactlyOnStreak` because the count and the streak move
together in Closed and outside it the streak is already full. There is one
lemma per action. The refinement adds `NoVeterans`: with one caller nobody
else is in flight when the circuit opens, so with `OpenAdmitsNobody` an open
circuit has no calls in flight at all and no success can close it. This is the
exact point where the documented machine and the concurrent use part.

`CollectorProofs` proves, for every finite set of endpoints that has the
libraries among them, every set of libraries and error kinds, every number of
retries and every threshold and timeout of at least 1 (`CollectorAssumption`),
the seven properties of `collector_safety`: `KeepsProtocol`, `TypeCorrect`,
`Quiet`, `AccountsAgree`, `FlawlessCloses`, `LibrariesWithTheirList` and
`ReadinessInCycles`. The
argument has three layers.

1. `IInv` speaks of the collector alone. Besides the properties it holds
   `NobodyCalls` (outside the fan-out no call is in flight), `NothingPublished`
   (until a cycle publishes it has no error and no timestamp) and `ListFirst`
   (a library is asked for its count only after the list was answered). The
   step that matters is `Publish`: `JoinedMeansQuiet` shows that the joins have
   waited for every call, and the counts of `RecordErrors` are zero exactly
   when `any_err` is false (`CountEndpoints`).
2. With `IInv`, each step is a step of CircuitBreaker or leaves it alone
   (`StepUsesBreaker`). So `UsesBreaker` holds, and the theorems of
   CircuitBreakerProofs hold for the collector's breaker. `Quiet` is where the
   layers meet: half-open needs a call in flight, and between cycles there is
   none.
3. `FlawlessCloses` needs `CleanSoFar` (a cycle that has seen a success and no
   failure has a closed breaker with a clean record) and `FlawlessIsFlawless`
   (what looks flawless from outside was), both on top of `IInv`.

`RecursionLemmas` makes recursion on the natural numbers available to the
provers. The induction theorems of the library have an operator as parameter,
which no backend can instantiate; here the property is a set instead.
`LeastElement` follows from the well-foundedness of inclusion on finite sets,
`Induction` from `LeastElement`, and `Recursion` says that a function exists
that follows a given step, by the finite prefixes of that function.

`RetryProofs` proves, for every number of retries, all delays and every width
of the counters (`RetryAssumption`):

* `TypeCorrect`: the counters stay within their type, even where the number of
  attempts wraps around.
* `Backoffs`: `BackoffNeverShrinks`, provided that MaxDelay is at most BaseDelay
  times (Word - 1). The proviso is what the argument turns on (`BackoffGrows`):
  the doubling makes up for the jitter until the power saturates, and by then
  the delay must have reached its maximum. `config.rs` makes it so with a
  factor of 10 against 2^32 - 1.
* `Panics`, `KeepsContract`: if MaxAttempts + 1 < Word, the loop does not panic,
  and each of its steps is a step of RetryContract or invisible in it. The one
  value that is left out is the one of the run `retry_wraps`.

The invariant is `LoopInv`: it ties `started` to `attempt` and `pc`, and says
that an error has been kept whenever the loop comes round. For the backoffs,
`NextSleepIsLonger` looks one sleep ahead.

`FetchProofs` proves `InTime`: `WithinBudget` for any request timeout as well,
and whatever the server does. `Budget` bounds the time spent by the attempts
started and the sleeps slept so far, at each place of the loop; `PowersBelow`
relates the saturating power of the code to the documented doubling. What
RetryProofs shows of the loop carries over to a fetch: by construction every
action of Fetch takes a step of Retry or leaves its variables alone
(`FetchSteps`). What is not by construction, that requests always come to an end
and so give the loop its fairness, is `ImplementsRetry`, and model-checked.

`MainProofs` proves, for any environments, clients and requests, any interval
and any widths (`ConfigAssumption`, `MainAssumption`), the three invariants
of `lifecycle`: `OneCycle`, `Fits` and `Protected`. `OneCycle` rests on
`OnTheGrid`, which says that a tick that is yet to come is due at the next point
of the grid and one that is overdue has its lateness on the position, modulo the
interval; the remainder lemmas are there for its step. `Fits` rests on
`EnvironmentKept` and on `AcceptedNumber` (a variable that is not at fault lies
between its minimum and the end of its type); that a product which has wrapped
is not larger than before (`RemainderIsSmaller`) keeps the maximum delay within
the proviso of `Backoffs`. `Protected` rests on `TokenInv`: the token that is
kept is never the empty one, which is what a request without a header would
match, and nobody is answered before there is one.

`ExpositionProofs` proves, for any endpoints, any finite set of labels and any
number of cycles (`ExpositionAssumption`), the four invariants of
`exposition`: `OneCycle`, `StampKept`, `OneSnapshot` and `TotalsAgree`. The
argument goes from the code of a cycle to what
a scrape has gathered:

1. `PublicationSound` is about the writes as a sequence: a cycle relies on
   nothing it has not cleared itself. A child is set after the reset of its
   gauge, and the timestamp after every gauge was reset or set. It is put
   together from the writes of each endpoint (`EndpointSound`) with
   `Concatenation`.
2. `ScriptInv` carries this over to the writes that remain: what the next one
   relies on is either cleared by an earlier one of them or fresh, that is,
   shows nothing of an earlier cycle. `RegistryInv` follows: no labelled gauge
   mixes cycles, and no gauge holds anything older than the timestamp.
3. `SnapInv` relates a scrape to the registry: the timestamp it has is not
   ahead of the registry's, which only moves forward, so what is gathered later
   is compared with a timestamp at least as new.
4. `OneSnapshot` needs that every publication clears every gauge
   (`PublicationCovers`). `SnapshotInv` says of what remains of it that a family
   which it does not clear any more shows the current cycle, if anything.
5. `TotalsAgree` is about values and not only about order. `PublicationSettles`
   finds, for the total and the breakdown of an endpoint, the one value x that a
   publication heads for: the cycle if the fetch succeeded, 0 if it failed. Every
   write of something else (the 0 of the total, the 0 with which a child is
   created) is replaced by a later one. `TotalsInv` carries that to the writes
   that remain: a total or a child that is not x, in the registry or among the
   writes to come, is one that a later write replaces. With no writes left, all of
   them are x.

`SessionMetricsProofs` proves, for any lists of sessions, any limit on the
length of a label and any folding of case (`SessionAssumption`,
`SanitizeAssumption`), the five invariants of `sessions`:
`ShowsExactlyTheSessions`, `CountsEveryTranscode`, `PublishedTotalsNest`,
`EveryLabelIsClean` and `HidesNoSession`. `IInv` has five parts. The actions
outside the loop have a lemma each, and `Visit` has one for each part:

* `LoopInv`: the list of active sessions is what was visited followed by `rest`.
  It says how many were visited; the other parts speak of them.
* `GaugeInv`: every overlaid gauge is the overlay of what the visited sessions
  would show alone, the last one winning; one more turn puts one more session on
  top (`OverlayOfOneMore`). `VisitOverlays` is where the seven
  gauges are gone through.
* `TallyInv`: the counts by method, of accelerated transcodes and per pair of
  codecs against the number of visited sessions of that kind. The sum over a
  gauge is defined by recursion in an order that is left open; `SumTakesOff` and
  `SumsAgree` show that the order does not matter, and `IncSums` that `inc` adds
  one to it whichever child it hits.
* `PublishedInv`: the counters have become gauges.
* `LabelInv`: every label that any gauge has is clean. `SanitizedIsClean` is the
  fact about `sanitize_label`: what is left after trimming begins and ends
  without white space, collapsing leaves neither a tab nor a doubled space, and
  a cut can put white space at the end only of a label of full length. `CleanStays`
  is its counterpart: a clean text is not changed, so different clean names
  remain different, which is what `HidesNoSession` needs.

The loops are left folds, which the community modules define by recursion over
sets. `LeftFoldExists` turns such a fold into its row of intermediate results, by
way of `FoldExists` in RecursionLemmas; `ActiveLoop`, `CollapseLoop` and
`ReasonLoop` are the three loops of the code in that form, and the facts about
them are shown by `Induction` along the row.

Only model-checked: liveness, `ImplementsContract` and `ImplementsRetry` with
their fairness, and `HalfOpenSettles`, which need fairness and ENABLED, outside
what the prover does. Every invariant and every action property that a run
checks is also proved, but for the four runs that are to find a violation.
The bitrate that a gauge shows (`Bitrate`, a sum over the streams of an item) is
the same on both sides of `ShowsTheSessions`: no property says that the sum is
right.

## 5. What is not modelled, and what is left

* The histogram of cycle durations and the build information in
  `src/metrics.rs`, and the text that `encode` makes of the gathered families:
  formatting and wall-clock measurements.
* The counts of items, the server's information and the names of libraries as
  values: Collector and Exposition say whether and from which cycle they are
  shown.
* The serde types of the client (`src/client.rs`), beyond the fields that
  SessionMetrics reads: data.
* Logging, the crate root (re-exports), the build script, packaging and the
  examples: no behaviour at run time.

Left to do: a scrape that begins and ends between two publications, as an
abstract specification of `/metrics` that Exposition implements at rest, and the
sum in `Bitrate`.
