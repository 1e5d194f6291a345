------------------------------ MODULE JobWorker ------------------------------
(***************************************************************************)
(* The worker process: ProcessTask in api/internal/worker/tasks/           *)
(* process_job.go and the error handler in api/internal/worker/worker.go,  *)
(* driven by asynq, which is a library and is modelled from how the code   *)
(* uses it (a queue that leases a task to one worker at a time, reschedules*)
(* a failed delivery while retries remain, and redelivers the task of a    *)
(* worker that disappeared).                                               *)
(*                                                                         *)
(* One attempt to process a task is a sequence of remote calls, one step   *)
(* each.  asynq may give an attempt up while the handler is inside a call: *)
(* its lease runs out, its time is over, or the process is told to stop.   *)
(* The handler's context is then cancelled, so at most the call it is in   *)
(* still takes effect (a step of an attempt that is not leased).           *)
(***************************************************************************)
EXTENDS JobStore

CONSTANTS
  Workers,      \* attempts that may be in progress at the same time
  NoJob,        \* what an idle worker works on
  Extractions   \* the sets of items an extraction may consist of

ASSUME WorkerAssumption ==
  /\ NoJob \notin Jobs
  /\ Extractions \subseteq SUBSET Items

VARIABLES
  at,        \* where the attempt of the worker is
  job,       \* the job it is processing
  attempt,   \* the task's retry count when it was delivered
  leased,    \* does the task still belong to this attempt?
  skip,      \* did the handler fail with asynq.SkipRetry?
  text,      \* the transcript it has obtained
  todo       \* items of its extraction that are still to be inserted

localVars == <<job, attempt, leased, skip, text, todo>>
workerVars == <<at, localVars>>

(* The handler is running, ... *)
Handling ==
  {"load", "markTranscribing", "download", "transcribe", "storeTranscript",
   "markExtracting", "extract", "complete", "insert"}
(* ... or it has returned and asynq deals with the result. *)
Returned == {"handleError", "settle"}

WorkerTypeOK ==
  /\ at \in [Workers -> Handling \cup Returned \cup {"idle"}]
  /\ job \in [Workers -> Jobs \cup {NoJob}]
  /\ attempt \in [Workers -> 0..MaxRetry]
  /\ leased \in [Workers -> BOOLEAN]
  /\ skip \in [Workers -> BOOLEAN]
  /\ text \in [Workers -> Transcripts]
  /\ todo \in [Workers -> SUBSET Items]

WorkerInit ==
  /\ at = [w \in Workers |-> "idle"]
  /\ job = [w \in Workers |-> NoJob]
  /\ attempt = [w \in Workers |-> 0]
  /\ leased = [w \in Workers |-> FALSE]
  /\ skip = [w \in Workers |-> FALSE]
  /\ text = [w \in Workers |-> "null"]
  /\ todo = [w \in Workers |-> {}]

-----------------------------------------------------------------------------
(* What an attempt may see of a call: once it is no longer leased, it       *)
(* learns nothing any more but the call it is in may still land.           *)
AttemptOutcomes(w, service) ==
  IF leased[w]
  THEN {"ok"} \cup (IF service \in FailingCalls THEN {"err"} ELSE {})
              \cup (IF service \in LostReplies THEN {"lost"} ELSE {})
  ELSE {"cut"}

(* The attempt is over and the worker forgets it. *)
Release(w) ==
  /\ at' = [at EXCEPT ![w] = "idle"]
  /\ job' = [job EXCEPT ![w] = NoJob]
  /\ attempt' = [attempt EXCEPT ![w] = 0]
  /\ leased' = [leased EXCEPT ![w] = FALSE]
  /\ skip' = [skip EXCEPT ![w] = FALSE]
  /\ text' = [text EXCEPT ![w] = "null"]
  /\ todo' = [todo EXCEPT ![w] = {}]

(* The handler goes on at `next`, or returns the error of the call. *)
Continue(w, o, next) ==
  at' = [at EXCEPT ![w] = IF o = "ok" THEN next ELSE "handleError"]

Proceed(w, o, next) ==
  IF leased[w] THEN Continue(w, o, next) /\ UNCHANGED localVars ELSE Release(w)

(* asynq hands a waiting task to an idle worker. *)
Dequeue(w, j) ==
  /\ at[w] = "idle" /\ task[j] = "waiting"
  /\ task' = [task EXCEPT ![j] = "active"]
  /\ at' = [at EXCEPT ![w] = "load"]
  /\ job' = [job EXCEPT ![w] = j]
  /\ attempt' = [attempt EXCEPT ![w] = retried[j]]
  /\ leased' = [leased EXCEPT ![w] = TRUE]
  /\ UNCHANGED <<skip, text, todo, retried, dbVars, objects>>

-----------------------------------------------------------------------------
(* GetJobByID.  A row without audio is not worth a retry. *)
Load(w) ==
  /\ at[w] = "load" /\ leased[w]
  /\ \E o \in AttemptOutcomes(w, "db") :
       IF o = "ok" /\ status[job[w]] # "absent"
       THEN IF audioUrl[job[w]]
            THEN Continue(w, "ok", "markTranscribing") /\ UNCHANGED skip
            ELSE Continue(w, "err", "") /\ skip' = [skip EXCEPT ![w] = TRUE]
       ELSE Continue(w, "err", "") /\ UNCHANGED skip
  /\ UNCHANGED <<job, attempt, leased, text, todo, storeVars>>

MarkTranscribing(w) ==
  /\ at[w] = "markTranscribing"
  /\ \E o \in AttemptOutcomes(w, "db") :
       /\ UpdateJobStatus(job[w], "transcribing", o)
       /\ Proceed(w, o, "download")
  /\ UNCHANGED <<objects, queueVars>>

(* R2 GetObject: an error if the audio is gone. *)
Download(w) ==
  /\ at[w] = "download" /\ leased[w]
  /\ \E o \in AttemptOutcomes(w, "get") :
       Continue(w, IF AudioKey \in objects[job[w]] THEN o ELSE "err", "transcribe")
  /\ UNCHANGED <<localVars, storeVars>>

(* Mutant of Usable: an empty transcript is stored as it is. *)
NoPlaceholder(t) == t

(* An empty transcript is replaced by the unclearTranscript placeholder. *)
Usable(t) == IF t = "empty" THEN "unclear" ELSE t

Transcribe(w) ==
  /\ at[w] = "transcribe" /\ leased[w]
  /\ \E o \in AttemptOutcomes(w, "provider"), t \in {"empty", "text"} :
       /\ Continue(w, o, "storeTranscript")
       /\ text' = IF o = "ok" THEN [text EXCEPT ![w] = Usable(t)] ELSE text
  /\ UNCHANGED <<job, attempt, leased, skip, todo, storeVars>>

StoreTranscript(w) ==
  /\ at[w] = "storeTranscript"
  /\ \E o \in AttemptOutcomes(w, "db") :
       /\ UpdateJobTranscript(job[w], text[w], o)
       /\ Proceed(w, o, "markExtracting")
  /\ UNCHANGED <<objects, queueVars>>

MarkExtracting(w) ==
  /\ at[w] = "markExtracting"
  /\ \E o \in AttemptOutcomes(w, "db") :
       /\ UpdateJobStatus(job[w], "extracting", o)
       /\ Proceed(w, o, "extract")
  /\ UNCHANGED <<objects, queueVars>>

(* extractJobData asks the language model; each attempt gets an answer of   *)
(* its own.                                                                *)
Extract(w) ==
  /\ at[w] = "extract" /\ leased[w]
  /\ \E o \in AttemptOutcomes(w, "provider"), items \in Extractions :
       /\ Continue(w, o, "complete")
       /\ todo' = IF o = "ok" THEN [todo EXCEPT ![w] = items] ELSE todo
  /\ UNCHANGED <<job, attempt, leased, skip, text, storeVars>>

(* The update is refused if a number of the extraction does not fit its     *)
(* column: a provider whose calls may fail may also answer that.           *)
Complete(w) ==
  /\ at[w] = "complete"
  /\ \E o \in AttemptOutcomes(w, "db") \cup
              (IF leased[w] THEN AttemptOutcomes(w, "provider") \ {"lost"} ELSE {}) :
       /\ UpdateJobPipeline(job[w], text[w], o)
       /\ Proceed(w, o, "insert")
  /\ UNCHANGED <<objects, queueVars>>

(* The inserts are best effort: an error is logged and the loop goes on. *)
Inserted(w, i) ==
  IF leased[w]
  THEN todo' = [todo EXCEPT ![w] = @ \ {i}] /\ UNCHANGED <<at, job, attempt, leased, skip, text>>
  ELSE Release(w)

(* Mutant of InsertMaterial: an error is returned instead of logged. *)
InsertMaterialOrRetry(w) ==
  /\ at[w] = "insert"
  /\ \E i \in todo[w] \cap Materials, o \in AttemptOutcomes(w, "db") :
       AddChild(job[w], i, o) /\ IF o = "ok" THEN Inserted(w, i) ELSE Proceed(w, o, "insert")
  /\ UNCHANGED <<objects, queueVars>>

InsertMaterial(w) ==
  /\ at[w] = "insert"
  /\ \E i \in todo[w] \cap Materials, o \in AttemptOutcomes(w, "db") :
       AddChild(job[w], i, o) /\ Inserted(w, i)
  /\ UNCHANGED <<objects, queueVars>>

InsertRecommendation(w) ==
  /\ at[w] = "insert" /\ todo[w] \cap Materials = {}
  /\ \E i \in todo[w] \cap Recommendations, o \in AttemptOutcomes(w, "db") :
       AddChild(job[w], i, o) /\ Inserted(w, i)
  /\ UNCHANGED <<objects, queueVars>>

InsertTag(w) ==
  /\ at[w] = "insert" /\ todo[w] \cap (Materials \cup Recommendations) = {}
  /\ \E i \in todo[w] \cap Tags, o \in AttemptOutcomes(w, "db") :
       CreateJobTag(job[w], i, o) /\ Inserted(w, i)
  /\ UNCHANGED <<objects, queueVars>>

-----------------------------------------------------------------------------
(* The handler returned nil: asynq completes the task it holds. *)
Succeed(w) ==
  /\ at[w] = "insert" /\ leased[w] /\ todo[w] = {}
  /\ task' = [task EXCEPT ![job[w]] = "completed"]
  /\ Release(w)
  /\ UNCHANGED <<retried, dbVars, objects>>

(* Mutants of MarkIfLast: on every failure, and off by one. *)
MarkAlways(w) == UpdateJobStatus(job[w], "failed", "ok")

MarkIfBeyondLast(w) ==
  IF attempt[w] <= MaxRetry
  THEN UNCHANGED dbVars
  ELSE UpdateJobStatus(job[w], "failed", "ok")

(* makeErrorHandler: on the last attempt, markJobFailed with a context of   *)
(* its own; an error of it is only logged.                                 *)
MarkIfLast(w) ==
  IF attempt[w] < MaxRetry
  THEN UNCHANGED dbVars
  ELSE \E o \in {"ok"} \cup (IF "db" \in FailingCalls THEN {"err"} ELSE {}) :
         UpdateJobStatus(job[w], "failed", o)

HandleError(w) ==
  /\ at[w] = "handleError"
  /\ MarkIfLast(w)
  /\ at' = [at EXCEPT ![w] = "settle"]
  /\ UNCHANGED <<localVars, objects, queueVars>>

(* After the error handler asynq reschedules or archives the task, unless   *)
(* it lost the lease meanwhile.                                            *)
Settle(w) ==
  /\ at[w] = "settle"
  /\ IF leased[w] THEN RetryOrArchive(job[w], skip[w]) ELSE UNCHANGED queueVars
  /\ Release(w)
  /\ UNCHANGED <<dbVars, objects>>

-----------------------------------------------------------------------------
(* The lease runs out.  If the handler is running, asynq gives it up and    *)
(* calls the error handler at once.                                        *)
LoseLease(w) ==
  /\ "leaseLoss" \in Faults
  /\ leased[w]
  /\ leased' = [leased EXCEPT ![w] = FALSE]
  /\ IF at[w] \in Handling THEN MarkIfLast(w) ELSE UNCHANGED dbVars
  /\ UNCHANGED <<at, job, attempt, skip, text, todo, objects, queueVars>>

(* The attempt outlasts asynq's timeout for a task (30 minutes, for a job   *)
(* that does not set one): asynq gives it up, calls the error handler and  *)
(* reschedules or archives the task, while the handler may be in a call.   *)
TimeOut(w) ==
  /\ "timeout" \in Faults
  /\ at[w] \in Handling /\ leased[w]
  /\ leased' = [leased EXCEPT ![w] = FALSE]
  /\ MarkIfLast(w) /\ RetryOrArchive(job[w], FALSE)
  /\ UNCHANGED <<at, job, attempt, skip, text, todo, objects>>

(* The process is told to stop and the handler outlasts the grace period:   *)
(* asynq puts the task back without counting a retry.                      *)
Requeue(w) ==
  /\ "shutdown" \in Faults
  /\ at[w] \in Handling /\ leased[w]
  /\ leased' = [leased EXCEPT ![w] = FALSE]
  /\ task' = [task EXCEPT ![job[w]] = "waiting"]
  /\ UNCHANGED <<at, job, attempt, skip, text, todo, retried, dbVars, objects>>

(* A handler that asynq has given up ends without another effect. *)
Abandon(w) ==
  /\ at[w] \in Handling /\ ~leased[w]
  /\ Release(w)
  /\ UNCHANGED storeVars

(* The worker process dies. *)
WorkerCrash(w) ==
  /\ "workerCrash" \in Faults
  /\ at[w] # "idle"
  /\ Release(w)
  /\ UNCHANGED storeVars

(* asynq's recoverer finds a task whose lease has expired.  It does not     *)
(* call the error handler.                                                 *)
Recover(j) ==
  /\ task[j] = "active"
  /\ ~ \E w \in Workers : job[w] = j /\ leased[w]
  /\ RetryOrArchive(j, FALSE)
  /\ UNCHANGED <<workerVars, dbVars, objects>>

(* The steps of an attempt, which its calls' timeouts see through. *)
AttemptStep(w) ==
  \/ Load(w)
  \/ MarkTranscribing(w)
  \/ Download(w)
  \/ Transcribe(w)
  \/ StoreTranscript(w)
  \/ MarkExtracting(w)
  \/ Extract(w)
  \/ Complete(w)
  \/ InsertMaterial(w)
  \/ InsertRecommendation(w)
  \/ InsertTag(w)
  \/ Succeed(w)
  \/ HandleError(w)
  \/ Settle(w)

WorkerNext ==
  \/ \E w \in Workers :
       \/ \E j \in Jobs : Dequeue(w, j)
       \/ AttemptStep(w)
       \/ LoseLease(w)
       \/ TimeOut(w)
       \/ Requeue(w)
       \/ Abandon(w)
       \/ WorkerCrash(w)
  \/ \E j \in Jobs : Recover(j)

=============================================================================
