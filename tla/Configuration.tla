--------------------------- MODULE Configuration ---------------------------
(***************************************************************************)
(* config.Load and ParseRedisURL: which environments the processes accept. *)
(* A value that only has to be there is "set", the signing secret is its   *)
(* length, a number is itself, and the Redis URL is its parsed parts.      *)
(***************************************************************************)
EXTENDS Integers

CONSTANTS
  Unset,    \* the variable is not in the environment
  Empty,    \* it is there and empty, like PORT in .env.example
  Junk,     \* it is there and does not parse
  Refused   \* an error instead of a result

Credentials ==
  {"APP_URL", "RESEND_API_KEY", "R2_ACCOUNT_ID", "R2_ACCESS_KEY_ID", "R2_SECRET_ACCESS_KEY", "R2_BUCKET"}
Required == Credentials \cup {"DATABASE_URL", "JWT_SECRET", "REDIS_URL"}
Optional == {"PORT", "GROQ_API_KEY", "GEMINI_API_KEY", "WORKER_CONCURRENCY"}
Variables == Required \cup Optional

NotGiven(raw) == raw \in {Unset, Empty}

(* Mutant of requireEnv: a variable that is there counts, even if empty. *)
requireSet(raw) == raw # Unset

requireEnv(raw) == ~NotGiven(raw)

loadPort(raw) ==
  IF NotGiven(raw) THEN 8080
  ELSE IF raw # Junk /\ raw \in 1..65535 THEN raw ELSE Refused

optPosIntEnv(raw, default) ==
  IF NotGiven(raw) THEN default
  ELSE IF raw # Junk /\ raw >= 1 THEN raw ELSE Refused

(* An error, or the part of the configuration that steers the worker.  The  *)
(* order of the checks only decides which of the errors is reported.       *)
Load(env) ==
  IF /\ loadPort(env["PORT"]) # Refused
     /\ \A v \in Required : requireEnv(env[v])
     /\ env["JWT_SECRET"] # Empty /\ env["JWT_SECRET"] >= 32
     /\ optPosIntEnv(env["WORKER_CONCURRENCY"], 5) # Refused
  THEN [DatabaseURL |-> env["DATABASE_URL"],
        RedisURL |-> env["REDIS_URL"],
        GroqAPIKey |-> env["GROQ_API_KEY"],
        WorkerConcurrency |-> optPosIntEnv(env["WORKER_CONCURRENCY"], 5)]
  ELSE Refused

(* The scheme says whether to use TLS; no path means database 0. *)
ParseRedisURL(url) ==
  IF \/ url \in {Junk, Empty} \/ url.host = Empty
     \/ url.db = Junk \/ url.scheme \notin {"redis", "rediss"}
  THEN Refused
  ELSE [tls |-> url.scheme = "rediss", db |-> IF url.db = Empty THEN 0 ELSE url.db]

=============================================================================
