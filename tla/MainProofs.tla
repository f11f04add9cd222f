----------------------------- MODULE MainProofs -----------------------------
(***************************************************************************)
(* Proofs about Main, for any environments, clients and requests, any      *)
(* scrape interval and any width of the numbers.                           *)
(***************************************************************************)
EXTENDS Main, TLAPS

-----------------------------------------------------------------------------
(***************************************************************************)
(* Remainders, for the grid of the interval and for a product that wraps.  *)
(***************************************************************************)

LEMMA Division ==
  ASSUME NEW P \in Nat \ {0}, NEW a \in Nat
  PROVE  /\ a \div P \in Nat /\ a % P \in 0 .. P - 1
         /\ a = P * (a \div P) + (a % P)
  OBVIOUS

LEMMA UniqueRemainder ==
  ASSUME NEW P \in Nat \ {0}, NEW q \in Nat, NEW p \in Nat,
         NEW r \in 0 .. P - 1, NEW s \in 0 .. P - 1,
         P * q + r = P * p + s
  PROVE  r = s
<1>1. P * (q - p) = s - r
  OBVIOUS
<1>2. q - p >= 1 => P * (q - p) >= P
  OBVIOUS
<1>3. q - p <= -1 => P * (q - p) <= -P
  OBVIOUS
<1> QED
  BY <1>1, <1>2, <1>3

LEMMA RemainderIsSmaller ==
  ASSUME NEW P \in Nat \ {0}, NEW a \in Nat
  PROVE  a % P \in 0 .. a
<1>1. a \div P \in Nat /\ a % P \in 0 .. P - 1 /\ a = P * (a \div P) + (a % P)
  BY Division
<1>2. P * (a \div P) >= 0
  BY <1>1
<1> QED
  BY <1>1, <1>2

\* A unit of time moves the position on the grid by one, or to its next point.
LEMMA NextPosition ==
  ASSUME NEW P \in Nat \ {0}, NEW a \in Nat
  PROVE  (a + 1) % P = ((a % P) + 1) % P
<1> DEFINE q == a \div P
<1> DEFINE r == a % P
<1>1. q \in Nat /\ r \in 0 .. P - 1 /\ a = P * q + r
  BY Division
<1>2. a + 1 \in Nat
  OBVIOUS
<1>3. /\ (a + 1) \div P \in Nat /\ (a + 1) % P \in 0 .. P - 1
      /\ a + 1 = P * ((a + 1) \div P) + ((a + 1) % P)
  BY <1>2, Division
<1> HIDE DEF q, r
<1>4. CASE r + 1 < P
  <2>1. (r + 1) % P = r + 1
    BY <1>1, <1>4
  <2>2. P * q + (r + 1) = P * ((a + 1) \div P) + ((a + 1) % P)
    BY <1>1, <1>3
  <2>3. (a + 1) % P = r + 1
    BY <1>1, <1>3, <1>4, <2>2, UniqueRemainder
  <2> QED
    BY <2>1, <2>3 DEF r
<1>5. CASE r + 1 = P
  <2>1. (r + 1) % P = 0
    BY <1>5
  <2>2. P * (q + 1) + 0 = P * ((a + 1) \div P) + ((a + 1) % P)
    BY <1>1, <1>3, <1>5
  <2>3. q + 1 \in Nat /\ 0 \in 0 .. P - 1
    BY <1>1
  <2>4. (a + 1) % P = 0
    BY <1>3, <2>2, <2>3, UniqueRemainder
  <2> QED
    BY <2>1, <2>4 DEF r
<1> QED
  BY <1>1, <1>4, <1>5

-----------------------------------------------------------------------------
(***************************************************************************)
(* The interval.                                                           *)
(***************************************************************************)

\* Until a tick is due, its time and the position on the grid agree, and one
\* tick at most has been taken at this point.  From then on the position says
\* how late the tick is, and none has been taken.
OnTheGrid ==
    /\ due \in Int /\ position \in 0 .. Period - 1 /\ taken \in {0, 1}
    /\ due > 0 => due = Period - position
    /\ due <= 0 => taken = 0 /\ (-due) % Period = position

LEMMA TickKeepsGrid ==
  ASSUME OnTheGrid, S!Tick
  PROVE  OnTheGrid'
<1>1. due <= 0 /\ taken = 0 /\ -due \in Nat /\ (-due) % Period = position
  BY DEF OnTheGrid, S!Tick, S!IsDue
<1>2. due' = Period - position /\ taken' = 1 /\ position' = position
  BY <1>1 DEF S!Tick, S!NextDueSkip
<1> QED
  BY <1>2, MainAssumption DEF OnTheGrid

LEMMA ElapseKeepsGrid ==
  ASSUME OnTheGrid, S!Elapse
  PROVE  OnTheGrid'
<1>0. Period \in Nat \ {0}
  BY MainAssumption
<1>1. due' = due - 1 /\ position' = (position + 1) % Period
  BY DEF S!Elapse
<1>2. taken' = IF position' = 0 THEN 0 ELSE taken
  BY DEF S!Elapse
<1>3. position + 1 \in Nat
  BY DEF OnTheGrid
<1>4. position' \in 0 .. Period - 1
  BY <1>0, <1>1, <1>3, Division
<1>5. CASE due > 1
  <2>1. position + 1 \in 0 .. Period - 1
    BY <1>0, <1>5 DEF OnTheGrid
  <2>2. position' = position + 1
    BY <1>0, <1>1, <2>1
  <2> QED
    BY <1>0, <1>1, <1>2, <1>4, <1>5, <2>2 DEF OnTheGrid
<1>6. CASE due = 1
  <2>1. position + 1 = Period
    BY <1>0, <1>6 DEF OnTheGrid
  <2>2. position' = 0 /\ due' = 0 /\ taken' = 0
    BY <1>0, <1>1, <1>2, <1>6, <2>1
  <2>3. (-due') % Period = 0
    BY <1>0, <2>2
  <2> QED
    BY <1>4, <2>2, <2>3 DEF OnTheGrid
<1>7. CASE due <= 0
  <2>1. due \in Int /\ -due \in Nat /\ (-due) % Period = position /\ taken = 0
    BY <1>7 DEF OnTheGrid
  <2>2. ((-due) + 1) % Period = position'
    BY <1>0, <1>1, <2>1, NextPosition
  <2>3. -due' = (-due) + 1 /\ due' \in Int /\ due' <= 0
    BY <1>1, <1>7, <2>1
  <2>4. (-due') % Period = position'
    BY <2>2, <2>3
  <2>5. taken' = 0
    BY <1>2, <2>1
  <2> QED
    BY <1>4, <2>3, <2>4, <2>5 DEF OnTheGrid
<1> QED
  BY <1>5, <1>6, <1>7 DEF OnTheGrid

\* No more than one cycle begins per interval, however late the ticks are.
THEOREM OneCycle == Spec => []OneCyclePerSlot
<1>1. Init => OnTheGrid
  <2> SUFFICES ASSUME Init PROVE OnTheGrid
    OBVIOUS
  <2>1. due = Period /\ position = 0 /\ taken = 0
    BY DEF Init, S!Init
  <2> QED
    BY <2>1, MainAssumption DEF OnTheGrid
<1>2. OnTheGrid /\ [Next]_vars => OnTheGrid'
  <2> SUFFICES ASSUME OnTheGrid, [Next]_vars PROVE OnTheGrid'
    OBVIOUS
  <2>1. CASE CycleEnds
    <3>1. S!Begin \/ UNCHANGED schedule
      BY <2>1 DEF CycleEnds
    <3>2. CASE S!Begin
      <4>1. due' = Period /\ position' = 0 /\ taken' = 0
        BY <3>2 DEF S!Begin
      <4> QED
        BY <4>1, MainAssumption DEF OnTheGrid
    <3>3. CASE UNCHANGED schedule
      BY <3>3 DEF OnTheGrid, schedule
    <3> QED
      BY <3>1, <3>2, <3>3
  <2>2. CASE TickTaken
    BY <2>2, TickKeepsGrid DEF TickTaken
  <2>3. CASE Elapse
    BY <2>3, ElapseKeepsGrid DEF Elapse
  <2>4. CASE UNCHANGED schedule
    BY <2>4 DEF OnTheGrid, schedule
  <2> QED
    BY <2>1, <2>2, <2>3, <2>4 DEF Next, vars, ReadConfig, Build, Bind,
       CollectorStep, ReadinessChanges, CollectorPanics, CollectorStops,
       ClientStep, Connect, BeginRequest, CompleteRequest, HangUp, Moves,
       Answer, Signal, Return, Ended, End
<1>3. OnTheGrid => OneCyclePerSlot
  BY DEF OnTheGrid, OneCyclePerSlot
<1> QED
  BY <1>1, <1>2, <1>3, PTL DEF Spec

-----------------------------------------------------------------------------
(***************************************************************************)
(* The configuration.                                                      *)
(***************************************************************************)

LEMMA NumericVariables ==
  DOMAIN Numeric =
      {"PORT", "SCRAPE_INTERVAL_MS", "REQUEST_TIMEOUT_MS", "RETRY_MAX_ATTEMPTS",
       "RETRY_BASE_DELAY_MS", "CIRCUIT_BREAKER_THRESHOLD", "CIRCUIT_BREAKER_RESET_MS"}
  BY DEF Numeric

\* The number that is used for a variable which is not at fault lies between
\* the minimum and the largest value of its type.
LEMMA AcceptedNumber ==
  ASSUME NEW e \in Environments, Faults(e) = {}, NEW name \in DOMAIN Numeric
  PROVE  Number(e, name) \in Numeric[name].min .. Numeric[name].size - 1
<1>1. name \in Names /\ name \notin Required
  BY NumericVariables DEF Names, Required
<1>2. ~AtFault(e, name)
  BY <1>1 DEF Faults
<1>3. ~Unparsable(e, name) /\ ~BelowMinimum(e, name)
  BY <1>1, <1>2 DEF AtFault
<1>4. e[name] \subseteq Int
  BY MainAssumption
<1>5. /\ Numeric[name].default \in Int /\ Numeric[name].min \in Int
      /\ Numeric[name].size \in Int
  BY NumericVariables, ConfigAssumption DEF Numeric
<1>6. Number(e, name) \in Int
  <2>1. CASE e[name] = {}
    BY <1>5, <2>1 DEF Number
  <2>2. CASE e[name] # {}
    BY <1>4, <2>2 DEF Number
  <2> QED
    BY <2>1, <2>2
<1> QED
  BY <1>3, <1>5, <1>6 DEF Unparsable, BelowMinimum

\* What from_env returns is within the limits of the parts.  The maximum delay
\* is ten times the base, or less if that wraps.
LEMMA ConfigFits ==
  ASSUME NEW e \in Environments, Faults(e) = {}
  PROVE  FitsTheParts(FromEnv(e))
<1> DEFINE c == FromEnv(e)
<1>1. \A name \in DOMAIN Numeric :
         Number(e, name) \in Numeric[name].min .. Numeric[name].size - 1
  BY AcceptedNumber
<1>2. Number(e, "PORT") \in Nat \ {0} /\ Number(e, "PORT") <= 65535
  BY <1>1, NumericVariables DEF Numeric
<1>3. Number(e, "SCRAPE_INTERVAL_MS") \in 1000 .. Word64 - 1
  BY <1>1, NumericVariables DEF Numeric
<1>4. Number(e, "REQUEST_TIMEOUT_MS") \in 100 .. Word64 - 1
  BY <1>1, NumericVariables DEF Numeric
<1>5. Number(e, "RETRY_BASE_DELAY_MS") \in 50 .. Word64 - 1
  BY <1>1, NumericVariables DEF Numeric
<1>6. Number(e, "CIRCUIT_BREAKER_THRESHOLD") \in 1 .. Word32 - 1
  BY <1>1, NumericVariables DEF Numeric
<1>7. Number(e, "CIRCUIT_BREAKER_RESET_MS") \in 1000 .. Word64 - 1
  BY <1>1, NumericVariables DEF Numeric
<1>8. /\ c.port = Number(e, "PORT")
      /\ c.scrape_interval_ms = Number(e, "SCRAPE_INTERVAL_MS")
      /\ c.request_timeout_ms = Number(e, "REQUEST_TIMEOUT_MS")
      /\ c.retry_base_delay_ms = Number(e, "RETRY_BASE_DELAY_MS")
      /\ c.retry_max_delay_ms =
            (Number(e, "RETRY_BASE_DELAY_MS") * 10) % Word64
      /\ c.circuit_breaker_threshold = Number(e, "CIRCUIT_BREAKER_THRESHOLD")
      /\ c.circuit_breaker_reset_ms = Number(e, "CIRCUIT_BREAKER_RESET_MS")
  BY DEF FromEnv
<1> HIDE DEF c
<1>9. c.retry_max_delay_ms \in 0 .. 10 * c.retry_base_delay_ms
  <2> DEFINE product == Number(e, "RETRY_BASE_DELAY_MS") * 10
  <2>1. product \in Nat /\ Word64 \in Nat \ {0}
    BY <1>5, ConfigAssumption
  <2> HIDE DEF product
  <2>2. product % Word64 \in 0 .. product
    BY <2>1, RemainderIsSmaller
  <2> QED
    BY <1>5, <1>8, <2>2 DEF product
<1>10. /\ c.circuit_breaker_threshold \in 1 .. Word32 - 1
       /\ c.circuit_breaker_reset_ms \in 1 .. Word64 - 1
       /\ c.request_timeout_ms \in 1 .. Word64 - 1
       /\ c.scrape_interval_ms \in 1 .. Word64 - 1
       /\ c.retry_base_delay_ms \in 1 .. Word64 - 1
  <2>1. Number(e, "CIRCUIT_BREAKER_RESET_MS") \in 1 .. Word64 - 1
    BY <1>7, ConfigAssumption
  <2>2. Number(e, "REQUEST_TIMEOUT_MS") \in 1 .. Word64 - 1
    BY <1>4, ConfigAssumption
  <2>3. Number(e, "SCRAPE_INTERVAL_MS") \in 1 .. Word64 - 1
    BY <1>3, ConfigAssumption
  <2>4. Number(e, "RETRY_BASE_DELAY_MS") \in 1 .. Word64 - 1
    BY <1>5, ConfigAssumption
  <2> QED
    BY <1>6, <1>8, <2>1, <2>2, <2>3, <2>4
<1>11. FitsTheParts(c)
  BY <1>2, <1>8, <1>9, <1>10 DEF FitsTheParts
<1> QED
  BY <1>11 DEF c

\* Until it is read, the environment is the one the process was started in.
EnvironmentKept == phase = "configuring" => env \in Environments

\* Every environment that is accepted gives settings within what the breaker,
\* the client, the interval and the backoffs assume, whatever the widths of
\* the numbers and even where the maximum delay wraps.
THEOREM Fits == Spec => []AcceptedFits
<1>1. Init => EnvironmentKept /\ AcceptedFits
  BY DEF Init, EnvironmentKept, AcceptedFits
<1>2. /\ EnvironmentKept /\ AcceptedFits /\ [Next]_vars
      => EnvironmentKept' /\ AcceptedFits'
  <2> SUFFICES ASSUME EnvironmentKept, AcceptedFits, [Next]_vars
               PROVE  EnvironmentKept' /\ AcceptedFits'
    OBVIOUS
  <2>1. CASE ReadConfig
    <3>1. CASE phase' \in Ends
      BY <3>1 DEF Ends, EnvironmentKept, AcceptedFits
    <3>2. CASE phase' \notin Ends
      <4>1. env \in Environments /\ Faults(env) = {} /\ config' = FromEnv(env)
        BY <2>1, <3>2 DEF ReadConfig, End, Ends, EnvironmentKept
      <4>2. phase' = "building"
        BY <2>1, <3>2 DEF ReadConfig, End, Ends
      <4> QED
        BY <4>1, <4>2, ConfigFits DEF EnvironmentKept, AcceptedFits
    <3> QED
      BY <3>1, <3>2
  <2>2. CASE phase' \notin {"configuring", "building"}
    BY <2>2 DEF EnvironmentKept, AcceptedFits
  <2>3. CASE UNCHANGED <<phase, env, config>>
    BY <2>3 DEF EnvironmentKept, AcceptedFits
  <2> QED
    BY <2>1, <2>2, <2>3 DEF Next, vars, Build, Bind, CollectorStep, CycleEnds,
       TickTaken, ReadinessChanges, CollectorPanics, CollectorStops, Elapse,
       ClientStep, Connect, BeginRequest, CompleteRequest, HangUp, Moves, Answer,
       Signal, Return, Ended, End
<1> QED
  BY <1>1, <1>2, PTL DEF Spec

-----------------------------------------------------------------------------
(***************************************************************************)
(* The token.                                                              *)
(***************************************************************************)
Starting == {"configuring", "building", "binding"}
Running == {"serving", "draining"}

ConnTypeOK == conn \in [Clients -> {"closed", "idle", "sending", "received"}]

\* There are connections only while there is a server.
NobodyConnected == phase \notin Running => \A c \in Clients : conn[c] = "closed"

\* Nothing has been answered before there is a server.
NothingAnswered == phase \in Starting => exchange = Nothing

\* A token that is configured is not the empty one, which a request without a
\* header would match.
TokenIsReal ==
    phase \in {"building", "binding", "serving", "draining"} =>
        "" \notin config.metrics_token

TokenInv ==
    /\ ConnTypeOK /\ NobodyConnected /\ NothingAnswered /\ TokenIsReal
    /\ TokenProtects

LEMMA TokenReadConfig ==
  ASSUME TokenInv, ReadConfig
  PROVE  TokenInv'
<1>1. CASE End("failure")
  BY <1>1 DEF TokenInv, ConnTypeOK, NobodyConnected, NothingAnswered,
     TokenIsReal, TokenProtects, End, Starting, Running
<1>2. CASE phase' = "building" /\ config' = FromEnv(env)
           /\ UNCHANGED <<conn, exchange>>
  <2>1. exchange' = Nothing /\ phase \notin Running
    BY <1>2 DEF ReadConfig, TokenInv, NothingAnswered, Starting, Running
  <2>2. "" \notin config'.metrics_token
    BY <1>2 DEF FromEnv, Token
  <2> QED
    BY <1>2, <2>1, <2>2 DEF TokenInv, ConnTypeOK, NobodyConnected,
       NothingAnswered, TokenIsReal, TokenProtects, Running
<1> QED
  BY <1>1, <1>2 DEF ReadConfig

LEMMA TokenBuild ==
  ASSUME TokenInv, Build
  PROVE  TokenInv'
<1>1. CASE End("failure")
  BY <1>1 DEF TokenInv, ConnTypeOK, NobodyConnected, NothingAnswered,
     TokenIsReal, TokenProtects, End, Starting, Running
<1>2. CASE /\ phase' = "binding"
           /\ config' = Restrict(config, {"metrics_token", "retry_max_attempts"})
           /\ UNCHANGED <<conn, exchange>>
  <2>1. exchange' = Nothing /\ phase \notin Running
    BY <1>2 DEF Build, TokenInv, NothingAnswered, Starting, Running
  <2>2. config'.metrics_token = config.metrics_token
    BY <1>2 DEF Restrict
  <2>3. "" \notin config'.metrics_token
    BY <2>2 DEF Build, TokenInv, TokenIsReal
  <2> QED
    BY <1>2, <2>1, <2>3 DEF TokenInv, ConnTypeOK, NobodyConnected,
       NothingAnswered, TokenIsReal, TokenProtects, Running
<1> QED
  BY <1>1, <1>2 DEF Build

\* What the bearer check lets through.
LEMMA TokenAnswer ==
  ASSUME TokenInv, NEW c \in Clients, Answer(c)
  PROVE  TokenInv'
<1>1. PICK request \in Requests :
         exchange' = [request |-> request,
                      status |-> Respond(request, config.metrics_token, ready)]
  BY DEF Answer
<1>2. phase \in Running /\ phase' = phase /\ config' = config
  BY DEF Answer, TokenInv, NobodyConnected
<1>3. "" \notin config.metrics_token
  BY <1>2 DEF TokenInv, TokenIsReal, Running
<1>4. /\ exchange'.request = request
      /\ exchange'.status = Respond(request, config.metrics_token, ready)
  BY <1>1
<1>5. TokenProtects'
  <2> SUFFICES ASSUME request.path = "/metrics", exchange'.status = 200,
                      NEW token \in config.metrics_token
               PROVE  \E header \in request.authorization :
                          header.scheme = "Bearer" /\ header.credentials = token
    BY <1>2, <1>4 DEF TokenProtects
  <2>1. IsAuthorized(request.authorization, config.metrics_token)
    BY <1>4 DEF Respond
  <2>2. token # ""
    BY <1>3
  <2> QED
    BY <2>1, <2>2 DEF IsAuthorized
<1>6. ConnTypeOK'
  BY DEF Answer, TokenInv, ConnTypeOK
<1> QED
  BY <1>2, <1>3, <1>5, <1>6 DEF TokenInv, NobodyConnected, NothingAnswered,
     TokenIsReal, Starting, Running

LEMMA TokenClientStep ==
  ASSUME TokenInv, NEW c \in Clients, ClientStep(c)
  PROVE  TokenInv'
<1>1. UNCHANGED <<phase, config, exchange>>
  BY DEF ClientStep, Connect, BeginRequest, CompleteRequest, HangUp, Moves
<1>2. ConnTypeOK'
  BY DEF ClientStep, Connect, BeginRequest, CompleteRequest, HangUp, Moves,
     TokenInv, ConnTypeOK
<1>3. phase \in Running
  BY DEF ClientStep, Connect, BeginRequest, CompleteRequest, HangUp, Moves,
     TokenInv, NobodyConnected, Running
<1> QED
  BY <1>1, <1>2, <1>3 DEF TokenInv, NobodyConnected, NothingAnswered,
     TokenIsReal, TokenProtects

\* With a token configured, no request without it is ever given metrics,
\* whatever the environment, the clients and their requests.
THEOREM Protected == Spec => []TokenProtects
<1>1. Init => TokenInv
  BY DEF Init, TokenInv, ConnTypeOK, NobodyConnected, NothingAnswered,
     TokenIsReal, TokenProtects
<1>2. TokenInv /\ [Next]_vars => TokenInv'
  <2> SUFFICES ASSUME TokenInv, [Next]_vars PROVE TokenInv'
    OBVIOUS
  <2>1. CASE ReadConfig
    BY <2>1, TokenReadConfig
  <2>2. CASE Build
    BY <2>2, TokenBuild
  <2>3. CASE Bind
    BY <2>3 DEF Bind, TokenInv, ConnTypeOK, NobodyConnected, NothingAnswered,
       TokenIsReal, TokenProtects, End, Starting, Running
  <2>4. CASE CollectorStep \/ Elapse \/ UNCHANGED vars
    <3>1. UNCHANGED <<phase, config, conn, exchange>>
      BY <2>4 DEF CollectorStep, CycleEnds, TickTaken, ReadinessChanges,
         CollectorPanics, CollectorStops, Elapse, vars
    <3> QED
      BY <3>1 DEF TokenInv, ConnTypeOK, NobodyConnected, NothingAnswered,
         TokenIsReal, TokenProtects
  <2>5. ASSUME NEW c \in Clients, ClientStep(c) \/ Answer(c)
        PROVE  TokenInv'
    BY <2>5, TokenClientStep, TokenAnswer
  <2>6. CASE Signal
    <3>1. CASE End("killed")
      BY <3>1 DEF TokenInv, ConnTypeOK, NobodyConnected, NothingAnswered,
         TokenIsReal, TokenProtects, End, Starting, Running
    <3>2. CASE /\ phase = "serving" /\ phase' = "draining"
               /\ conn' = [c \in Clients |-> Draining(c)]
               /\ UNCHANGED <<config, exchange>>
      <4>1. ConnTypeOK'
        BY <3>2 DEF Draining, TokenInv, ConnTypeOK
      <4> QED
        BY <3>2, <4>1 DEF TokenInv, NobodyConnected, NothingAnswered,
           TokenIsReal, TokenProtects, Starting, Running
    <3> QED
      BY <2>6, <3>1, <3>2 DEF Signal
  <2>7. CASE Return
    BY <2>7 DEF Return, TokenInv, ConnTypeOK, NobodyConnected, NothingAnswered,
       TokenIsReal, TokenProtects, End, Starting, Running
  <2> QED
    BY <2>1, <2>2, <2>3, <2>4, <2>5, <2>6, <2>7 DEF Next, Ended
<1>3. TokenInv => TokenProtects
  BY DEF TokenInv
<1> QED
  BY <1>1, <1>2, <1>3, PTL DEF Spec
=============================================================================
