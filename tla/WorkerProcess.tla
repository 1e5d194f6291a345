--------------------------- MODULE WorkerProcess ---------------------------
(***************************************************************************)
(* The worker process from its start to its end: main (cmd/worker/main.go) *)
(* and worker.Start (worker/worker.go).  A signal to stop reaches two      *)
(* goroutines: Start, through NotifyContext, and asynq's Server.Run, which *)
(* listens for itself.  Both call srv.Shutdown, which the first one does   *)
(* and the second one finds done; if Run comes first, Start returns while  *)
(* the tasks still run, and pool.Close and the end of the process cut them *)
(* off.  What an attempt does in detail is JobWorker.                      *)
(***************************************************************************)
EXTENDS Configuration, FiniteSets

CONSTANTS
  Environments,   \* the environments in which the process is started
  Tasks,          \* the tasks in the queue
  MaxRetry,       \* as set by the API when it enqueues a task
  MaxStops        \* bound: how often the process is told to stop

(* A queue is finite, and WORKER_CONCURRENCY, if it is given, is a number   *)
(* or something that strconv.Atoi does not take for one.                   *)
ASSUME ProcessAssumption ==
  /\ MaxRetry \in Nat /\ MaxStops \in Nat
  /\ IsFiniteSet(Tasks)
  /\ \A e \in Environments : e["WORKER_CONCURRENCY"] \in {Unset, Empty, Junk} \cup Int

VARIABLES
  env,        \* the environment of the process
  main,       \* where main is, in Start too
  run,        \* where the goroutine is that calls srv.Run
  server,     \* asynq's state of srv
  signalled,  \* NotifyContext has received the signal
  heard,      \* asynq has received the signal
  stops,      \* how many signals there have been
  task,       \* the state of each task in Redis
  retried,    \* its count of retries
  handler,    \* where the attempt of this process at it is
  lingering   \* the attempts that asynq has given up and that still run

procVars == <<main, run, server, signalled, heard>>
taskVars == <<task, retried, handler, lingering>>
vars == <<env, procVars, stops, taskVars>>

Gone == {"exited", "fatal", "killed"}

TypeOK ==
  /\ env \in Environments
  /\ main \in {"load", "pool", "start", "select", "draining", "closing"} \cup Gone
  /\ run \in {"none", "starting", "serving", "draining", "returned", "failed"}
  /\ server \in {"new", "active", "closed"}
  /\ signalled \in BOOLEAN /\ heard \in BOOLEAN /\ stops \in 0..MaxStops
  /\ task \in [Tasks -> {"pending", "active", "completed", "archived"}]
  /\ retried \in [Tasks -> 0..MaxRetry]
  /\ handler \in [Tasks -> {"none", "call", "query", "mark"}]
  /\ lingering \in SUBSET Tasks

Init ==
  /\ env \in Environments
  /\ main = "load" /\ run = "none" /\ server = "new"
  /\ signalled = FALSE /\ heard = FALSE /\ stops = 0
  /\ task = [t \in Tasks |-> "pending"] /\ retried = [t \in Tasks |-> 0]
  /\ handler = [t \in Tasks |-> "none"] /\ lingering = {}

-----------------------------------------------------------------------------
(***************************************************************************)
(* main and Start.                                                         *)
(***************************************************************************)
cfg == Load(env)

LoadConfig ==
  /\ main = "load"
  /\ main' = IF cfg = Refused THEN "fatal" ELSE "pool"
  /\ UNCHANGED <<env, run, server, signalled, heard, stops, taskVars>>

(* pgxpool.New parses the URL and does not connect yet. *)
OpenPool ==
  /\ main = "pool"
  /\ main' = IF cfg.DatabaseURL = Junk THEN "fatal" ELSE "start"
  /\ UNCHANGED <<env, run, server, signalled, heard, stops, taskVars>>

(* Start up to its select. *)
BeginStart ==
  /\ main = "start"
  /\ IF NotGiven(cfg.GroqAPIKey) \/ ParseRedisURL(cfg.RedisURL) = Refused
     THEN main' = "fatal" /\ UNCHANGED run
     ELSE main' = "select" /\ run' = "starting"
  /\ UNCHANGED <<env, server, signalled, heard, stops, taskVars>>

(* ctx is done.  Shutdown returns at once unless the server is active;      *)
(* Start's return is followed by the deferred pool.Close, after which the  *)
(* pool gives out no connection.                                           *)
ReceiveSignal ==
  /\ main = "select" /\ signalled
  /\ main' = IF server = "active" THEN "draining" ELSE "closing"
  /\ server' = IF server = "active" THEN "closed" ELSE server
  /\ UNCHANGED <<env, run, signalled, heard, stops, taskVars>>

(* Shutdown waits for the attempts that asynq has not given up. *)
AllLetGo == \A t \in Tasks : handler[t] = "none" \/ t \in lingering

(* Mutant of Drained: Start waits for Run to report, which it does only     *)
(* when it fails.                                                          *)
DrainedAndReported ==
  /\ main = "draining" /\ AllLetGo /\ run = "failed"
  /\ main' = "closing"
  /\ UNCHANGED <<env, run, server, signalled, heard, stops, taskVars>>

Drained ==
  /\ main = "draining" /\ AllLetGo
  /\ main' = "closing"
  /\ UNCHANGED <<env, run, server, signalled, heard, stops, taskVars>>

(* Mutant of ReceiveError: the goroutine only logs the error. *)
IgnoreError == main = "select" /\ run = "failed" /\ UNCHANGED vars

(* log.Fatalf, which runs no deferred call. *)
ReceiveError ==
  /\ main = "select" /\ run = "failed"
  /\ main' = "fatal"
  /\ UNCHANGED <<env, run, server, signalled, heard, stops, taskVars>>

(* The process ends with whatever still runs in it. *)
End(how) ==
  /\ main' = how /\ run' = "none" /\ server' = "new"
  /\ signalled' = FALSE /\ heard' = FALSE
  /\ handler' = [t \in Tasks |-> "none"] /\ lingering' = {}
  /\ UNCHANGED <<env, task, retried>>

(* pool.Close waits for the connections that are in use. *)
Exit ==
  /\ main = "closing"
  /\ \A t \in Tasks : handler[t] \notin {"query", "mark"}
  /\ End("exited") /\ UNCHANGED stops

MainStep ==
  \/ LoadConfig \/ OpenPool \/ BeginStart
  \/ ReceiveSignal \/ Drained \/ ReceiveError \/ Exit

-----------------------------------------------------------------------------
(***************************************************************************)
(* srv.Run, the signal and the supervisor of the process.                  *)
(***************************************************************************)
Serve ==
  /\ run = "starting"
  /\ \/ run' = "serving" /\ server' = "active"
     \/ run' = "failed" /\ UNCHANGED server
  /\ UNCHANGED <<env, main, signalled, heard, stops, taskVars>>

Hear ==
  /\ run = "serving" /\ heard
  /\ run' = IF server = "active" THEN "draining" ELSE "returned"
  /\ server' = "closed"
  /\ UNCHANGED <<env, main, signalled, heard, stops, taskVars>>

Return ==
  /\ run = "draining" /\ AllLetGo
  /\ run' = "returned"
  /\ UNCHANGED <<env, main, server, signalled, heard, stops, taskVars>>

(* SIGINT or SIGTERM.  Before NotifyContext it kills the process; before    *)
(* Run listens, only Start hears it.                                       *)
Signal ==
  /\ stops < MaxStops /\ stops' = stops + 1
  /\ \/ main \in {"load", "pool"} /\ End("killed")
     \/ /\ main \in {"start", "select"} /\ ~signalled
        /\ signalled' = TRUE /\ heard' = (run = "serving")
        /\ UNCHANGED <<env, main, run, server, taskVars>>

Restart ==
  /\ main \in {"exited", "killed"}
  /\ main' = "load"
  /\ UNCHANGED <<env, run, server, signalled, heard, stops, taskVars>>

-----------------------------------------------------------------------------
(***************************************************************************)
(* The attempts.  An attempt is in calls to R2 and the providers, then     *)
(* holds a connection for a query; the others of its queries are alike.    *)
(***************************************************************************)
At(t, where) == handler' = [handler EXCEPT ![t] = where]

InSlot == {t \in Tasks : handler[t] # "none"} \ lingering

Take(t) ==
  /\ server = "active" /\ task[t] = "pending" /\ handler[t] = "none"
  /\ Cardinality(InSlot) < cfg.WorkerConcurrency
  /\ task' = [task EXCEPT ![t] = "active"] /\ At(t, "call")
  /\ UNCHANGED <<env, procVars, stops, retried, lingering>>

Query(t) ==
  /\ handler[t] = "call" /\ main # "closing"
  /\ At(t, "query")
  /\ UNCHANGED <<env, procVars, stops, task, retried, lingering>>

(* The attempt is over; asynq takes note unless it has given it up. *)
Over(t, outcome) ==
  /\ At(t, "none") /\ lingering' = lingering \ {t}
  /\ task' = IF t \in lingering THEN task ELSE [task EXCEPT ![t] = outcome]

Complete(t) ==
  /\ handler[t] = "query" /\ Over(t, "completed")
  /\ UNCHANGED <<env, procVars, stops, retried>>

(* A call fails, or the pool is closed.  The error handler marks the job as *)
(* failed after the last retry, if it gets a connection.                   *)
Fail(t) ==
  /\ handler[t] \in {"call", "query"}
  /\ \/ t \in lingering /\ Over(t, "pending") /\ UNCHANGED retried
     \/ /\ t \notin lingering /\ retried[t] < MaxRetry
        /\ Over(t, "pending") /\ retried' = [retried EXCEPT ![t] = @ + 1]
     \/ /\ t \notin lingering /\ retried[t] = MaxRetry
        /\ IF main = "closing" THEN Over(t, "archived") ELSE At(t, "mark") /\ UNCHANGED <<task, lingering>>
        /\ UNCHANGED retried
  /\ UNCHANGED <<env, procVars, stops>>

(* markJobFailed has succeeded or failed. *)
Mark(t) ==
  /\ handler[t] = "mark" /\ Over(t, "archived")
  /\ UNCHANGED <<env, procVars, stops, retried>>

AttemptStep(t) == Query(t) \/ Complete(t) \/ Fail(t) \/ Mark(t)

(* asynq's own grace period is over: the task goes back without a retry. *)
Requeue(t) ==
  /\ "draining" \in {main, run}
  /\ handler[t] \in {"call", "query"} /\ t \notin lingering
  /\ task' = [task EXCEPT ![t] = "pending"] /\ lingering' = lingering \cup {t}
  /\ UNCHANGED <<env, procVars, stops, retried, handler>>

(* The recoverer finds an active task whose lease has expired. *)
Recover(t) ==
  /\ server = "active" /\ task[t] = "active" /\ handler[t] = "none"
  /\ \/ /\ retried[t] < MaxRetry
        /\ task' = [task EXCEPT ![t] = "pending"] /\ retried' = [retried EXCEPT ![t] = @ + 1]
     \/ /\ retried[t] = MaxRetry
        /\ task' = [task EXCEPT ![t] = "archived"] /\ UNCHANGED retried
  /\ UNCHANGED <<env, procVars, stops, handler, lingering>>

-----------------------------------------------------------------------------
Settled == \A t \in Tasks : task[t] \in {"completed", "archived"}

(* The process has given up, or waits for a task. *)
AtRest == main = "fatal" \/ \A t \in Tasks : handler[t] = "none"

Next ==
  \/ MainStep \/ Serve \/ Hear \/ Return \/ Signal \/ Restart
  \/ \E t \in Tasks : Take(t) \/ AttemptStep(t) \/ Requeue(t) \/ Recover(t)
  \/ AtRest /\ UNCHANGED vars

(* Goroutines go on; calls end because the HTTP clients have timeouts and   *)
(* PostgreSQL serves its connections; asynq delivers and recovers tasks;   *)
(* and a supervisor starts the process again after it was stopped.         *)
Spec ==
  /\ Init /\ [][Next]_vars
  /\ WF_vars(MainStep) /\ WF_vars(Serve) /\ WF_vars(Hear) /\ WF_vars(Return) /\ WF_vars(Restart)
  /\ \A t \in Tasks :
       /\ WF_vars(Take(t)) /\ WF_vars(AttemptStep(t))
       /\ WF_vars(Requeue(t)) /\ WF_vars(Recover(t))

-----------------------------------------------------------------------------
(* Whatever is wrong in the environment, it is found before a task is taken *)
(* ("Load() fails fast", config.go:4; GROQ_API_KEY in Start): an attempt    *)
(* that runs has every key that its calls present, and a slot.             *)
AttemptsAreEquipped ==
  (\E t \in Tasks : handler[t] # "none") =>
    /\ \A v \in Required \cup {"GROQ_API_KEY"} : env[v] \notin {Unset, Empty}
    /\ env["DATABASE_URL"] # Junk /\ env["REDIS_URL"] # Junk
    /\ Cardinality(InSlot) <= cfg.WorkerConcurrency

(* A process that is told to stop, or whose server fails, comes to an end,  *)
(* whichever of Start and Run gets hold of the shutdown.                   *)
ProcessEnds == (signalled \/ run = "failed") ~> main \in Gone

(* A task comes to an end however often and at whatever moment the worker   *)
(* is stopped while it runs, unless the process gives up.                  *)
EveryTaskEnds == <>(Settled \/ main = "fatal")

=============================================================================
