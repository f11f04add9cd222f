------------------------------- MODULE MCMain -------------------------------
(***************************************************************************)
(* An instance of Main for TLC.  Words are scaled down; the defaults and   *)
(* minima of the configuration are the real ones.                          *)
(***************************************************************************)
EXTENDS Main

CONSTANTS c1, c2

TwoClients == {c1, c2}

\* Around each limit: one below, at it, and the largest value that fits; and
\* texts that are not numbers.  The retries are one short of wrapping, and
\* wrap; the base delays are the last whose tenfold fits, and the next.
NumberSamples(name) ==
    {Numeric[name].min - 1, Numeric[name].min, Numeric[name].size - 1,
     Numeric[name].size, NotANumber}
Samples(name) ==
    CASE name = "JELLYFIN_URL" -> {"", "http://jellyfin:8096/"}
      [] name = "JELLYFIN_API_KEY" -> {"", "key", "two\nlines"}
      [] name = "RETRY_BASE_DELAY_MS" ->
             NumberSamples(name) \cup {(Word64 - 1) \div 10, Word64 \div 10 + 1}
      [] name \in DOMAIN Numeric -> NumberSamples(name)
      [] name = "LOG_LEVEL" -> {"", "debug", "verbose"}
      [] name = "METRICS_TOKEN" -> {"", "token"}
      [] name = "EXPOSE_REMOTE_ADDRESS" -> {"", "yes", "maybe"}
Values(name) == {{}} \cup {{x} : x \in Samples(name)}

\* An environment with what is required, and any two variables otherwise.
Minimal ==
    [name \in Names |-> CASE name = "JELLYFIN_URL" -> {"http://jellyfin:8096"}
                          [] name = "JELLYFIN_API_KEY" -> {"key"}
                          [] OTHER -> {}]
PairwiseEnvironments ==
    UNION {{[Minimal EXCEPT ![m] = v, ![n] = w] : v \in Values(m), w \in Values(n)} :
               m, n \in Names}

Headers == {{}} \cup {{[scheme |-> s, credentials |-> k]} :
                          s \in {"Bearer", "Basic"}, k \in {"token", "other"}}
SomeRequests ==
    [path : {"/metrics", "/health", "/ready"}, authorization : Headers]
=============================================================================
