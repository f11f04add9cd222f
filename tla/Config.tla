------------------------------- MODULE Config -------------------------------
(***************************************************************************)
(* Config::from_env of config.rs: from the environment variables to a      *)
(* configuration, or to the variables that are at fault.                   *)
(*                                                                         *)
(* What env::var returns is a set of at most one value, empty for a        *)
(* variable that is not set or not valid Unicode.  The value of a numeric  *)
(* variable is a number, or NotANumber for any other text, the empty text  *)
(* included; that of the others is a text.  Word32 and Word64 are the      *)
(* numbers of values of u32 and u64, scaled down.                          *)
(***************************************************************************)
EXTENDS Integers

CONSTANTS Word32, Word64

ASSUME ConfigAssumption ==
    /\ Word32 \in Nat /\ Word32 > 10
    /\ Word64 \in Nat /\ Word64 > 65536

NotANumber == -1

Required == {"JELLYFIN_URL", "JELLYFIN_API_KEY"}

\* The type, the default and the minimum of each numeric variable.
Numeric ==
    [PORT                      |-> [size |-> 65536, default |-> 9711, min |-> 1],
     SCRAPE_INTERVAL_MS        |-> [size |-> Word64, default |-> 10000, min |-> 1000],
     REQUEST_TIMEOUT_MS        |-> [size |-> Word64, default |-> 5000, min |-> 100],
     RETRY_MAX_ATTEMPTS        |-> [size |-> Word32, default |-> 3, min |-> 0],
     RETRY_BASE_DELAY_MS       |-> [size |-> Word64, default |-> 500, min |-> 50],
     CIRCUIT_BREAKER_THRESHOLD |-> [size |-> Word32, default |-> 5, min |-> 1],
     CIRCUIT_BREAKER_RESET_MS  |-> [size |-> Word64, default |-> 60000, min |-> 1000]]

Names ==
    Required \cup DOMAIN Numeric
    \cup {"LOG_LEVEL", "METRICS_TOKEN", "EXPOSE_REMOTE_ADDRESS"}

\* LogLevel::parse and parse_bool_optional, after to_lowercase.
Levels == {"trace", "debug", "info", "warn", "error"}
True == {"true", "1", "yes", "on"}
False == {"false", "0", "no", "off", ""}

\* parse_optional, for a value that parses.
Number(env, name) ==
    IF env[name] = {} THEN Numeric[name].default
    ELSE CHOOSE n \in env[name] : TRUE

\* parse_optional fails.
Unparsable(env, name) ==
    Number(env, name) = NotANumber \/ Number(env, name) >= Numeric[name].size

\* Slips the runs must notice: a threshold of 0 passes, and an empty token is
\* taken for a token.
BelowMinimumButThreshold(env, name) ==
    name # "CIRCUIT_BREAKER_THRESHOLD" /\ Number(env, name) < Numeric[name].min
TokenEvenIfEmpty(env) == env["METRICS_TOKEN"]

\* validate_min and validate_range; the upper end of the range is the type's.
BelowMinimum(env, name) == Number(env, name) < Numeric[name].min

\* The filter on METRICS_TOKEN.
Token(env) == env["METRICS_TOKEN"] \ {""}

AtFault(env, name) ==
    \/ name \in Required /\ env[name] \subseteq {""}
    \/ name \in DOMAIN Numeric /\ (Unparsable(env, name) \/ BelowMinimum(env, name))
    \/ name = "LOG_LEVEL" /\ ~(env[name] \subseteq Levels)
    \/ name = "EXPOSE_REMOTE_ADDRESS" /\ ~(env[name] \subseteq True \cup False)

\* from_env reports the first of these; which one makes no difference here.
Faults(env) == {name \in Names : AtFault(env, name)}

\* What from_env returns when nothing is at fault, without the URL and the log
\* level, which nothing here tells apart.  The maximum delay is computed in
\* u64 and wraps around in a release build.
FromEnv(env) ==
    [jellyfin_api_key |-> CHOOSE key \in env["JELLYFIN_API_KEY"] : TRUE,
     port |-> Number(env, "PORT"),
     scrape_interval_ms |-> Number(env, "SCRAPE_INTERVAL_MS"),
     request_timeout_ms |-> Number(env, "REQUEST_TIMEOUT_MS"),
     retry_max_attempts |-> Number(env, "RETRY_MAX_ATTEMPTS"),
     retry_base_delay_ms |-> Number(env, "RETRY_BASE_DELAY_MS"),
     retry_max_delay_ms |-> (Number(env, "RETRY_BASE_DELAY_MS") * 10) % Word64,
     circuit_breaker_threshold |-> Number(env, "CIRCUIT_BREAKER_THRESHOLD"),
     circuit_breaker_reset_ms |-> Number(env, "CIRCUIT_BREAKER_RESET_MS"),
     metrics_token |-> Token(env),
     expose_remote_address |-> env["EXPOSE_REMOTE_ADDRESS"] \cap True # {}]
=============================================================================
