----------------------------- MODULE JobPipeline -----------------------------
(***************************************************************************)
(* The whole job pipeline: the API's handler (JobSubmit) and the worker    *)
(* (JobWorker) over the state they share (JobStore), with the faults that  *)
(* the constants let happen.  The properties are stated for the system as  *)
(* it is; README.md says under which faults each of them holds.            *)
(***************************************************************************)
EXTENDS JobSubmit, JobWorker

vars == <<storeVars, submitVars, workerVars>>

Init == StoreInit /\ SubmitInit /\ WorkerInit

(* Every request is over and no task is left to run: the system may rest. *)
Quiescent ==
  /\ \A j \in Jobs : pc[j] \in {"done", "dead"} /\ task[j] \notin {"waiting", "active"}
  /\ \A w \in Workers : at[w] = "idle"

Next ==
  \/ SubmitNext /\ UNCHANGED workerVars
  \/ WorkerNext /\ UNCHANGED submitVars
  \/ Quiescent /\ UNCHANGED vars

Spec == Init /\ [][Next]_vars

(***************************************************************************)
(* Fairness: a handler that has started goes on, because every call of it  *)
(* ends (the HTTP client and the language model have timeouts, net/http    *)
(* never stops a handler); asynq delivers the tasks that wait while a      *)
(* worker is idle, and recovers those whose lease is lost.  Nothing obliges*)
(* a client to submit, to hang up or a process to fail.                    *)
(***************************************************************************)
Fairness ==
  /\ \A j \in Jobs :
       /\ WF_vars(HandlerStep(j) /\ UNCHANGED workerVars)
       /\ WF_vars((\E w \in Workers : Dequeue(w, j)) /\ UNCHANGED submitVars)
       /\ WF_vars(Recover(j) /\ UNCHANGED submitVars)
  /\ \A w \in Workers : WF_vars((AttemptStep(w) \/ Abandon(w)) /\ UNCHANGED submitVars)

FairSpec == Spec /\ Fairness

TypeOK == StoreTypeOK /\ SubmitTypeOK /\ WorkerTypeOK

-----------------------------------------------------------------------------
(***************************************************************************)
(* Safety.                                                                 *)
(***************************************************************************)

(* Job j is safe with the service: its row lists the audio and every photo  *)
(* of the form, all of them are in R2, and the task is in the queue.        *)
Durable(j) ==
  /\ status[j] # "absent" /\ audioUrl[j]
  /\ photoUrls[j] = 1..nphotos[j]
  /\ {AudioKey} \cup photoUrls[j] \subseteq objects[j]
  /\ task[j] # "none"

(* A client that was told 202 can rely on it whatever fails afterwards:     *)
(* CreateHandler answers 202 last, and nobody undoes what it has done.      *)
AcceptedIsDurable == \A j \in Jobs : reply[j] = "accepted" => Durable(j)

(* No task without a row: the worker never finds its job missing, because   *)
(* the handler inserts before it enqueues and goes on only after a          *)
(* confirmed insert.                                                       *)
TaskHasRow == \A j \in Jobs : task[j] # "none" => status[j] # "absent"

(* A task finds its audio: nobody deletes the object or forgets the key of  *)
(* a job that is queued (cleanupUploads runs only when Enqueue has failed). *)
TaskHasAudio ==
  \A j \in Jobs : task[j] # "none" => audioUrl[j] /\ AudioKey \in objects[j]

(* A row never refers to a file that is not in R2, not even in between: the *)
(* handler uploads before it inserts and nulls the columns before it        *)
(* deletes.                                                                *)
NoDanglingKeys ==
  \A j \in Jobs :
    /\ audioUrl[j] => AudioKey \in objects[j]
    /\ photoUrls[j] \subseteq objects[j]

(* A submission that was answered with an error leaves nothing in R2: the   *)
(* comment at uploadedKeys promises that every object written in the        *)
(* request is cleaned up if a later step fails.                            *)
FailedRequestLeavesNoObject ==
  \A j \in Jobs : reply[j] = "error" => objects[j] = {}

(* From "transcribed" on a job has a transcript to show, however often it   *)
(* was retried and whichever attempt wrote last.                           *)
TranscriptUsable ==
  \A j \in Jobs : status[j] \in {"transcribed", "extracting", "completed"} =>
                    transcript[j] \in {"unclear", "text"}

(* A report lists no line twice: the child rows are inserted after the last *)
(* step that can fail, so a retry never inserts them again.                *)
NoDuplicateChildren ==
  \A j \in Jobs, i \in Items : children[j][i] <= 1

(* A task that asynq has given up on is visible to the user as "failed":    *)
(* the error handler marks the job when its task has exhausted all retries. *)
ArchivedIsFailed ==
  \A j \in Jobs : task[j] = "archived" => status[j] = "failed"

-----------------------------------------------------------------------------
(***************************************************************************)
(* What a step may do.                                                     *)
(***************************************************************************)

(* The status that may follow each status: the pipeline's stages in order,  *)
(* back to "transcribing" on a retry, "failed" from anywhere but            *)
(* "completed", and nothing after "completed" or "failed".                 *)
Follows(old, new) ==
  \/ new = old
  \/ <<old, new>> \in {<<"absent", "queued">>, <<"transcribing", "transcribed">>,
                       <<"transcribed", "extracting">>, <<"extracting", "completed">>}
  \/ new = "transcribing" /\ old \in {"queued", "transcribing", "transcribed", "extracting"}
  \/ new = "failed" /\ old \in {"queued", "transcribing", "transcribed", "extracting"}

(* A job's status moves along the pipeline and its outcome is final, across *)
(* retries and whichever worker runs them.                                 *)
StatusFollowsPipeline ==
  [][\A j \in Jobs : Follows(status[j], status'[j])]_vars

-----------------------------------------------------------------------------
(***************************************************************************)
(* The pipeline implements the lifecycle: what a client is told is in      *)
(* keeping with what becomes of the job (202 and 500 of CreateHandler).    *)
(***************************************************************************)
Life(s) == IF s \in {"absent", "completed", "failed"} THEN s ELSE "open"

Lifecycle == INSTANCE JobLifecycle WITH
  life <- [j \in Jobs |-> Life(status[j])],
  answer <- reply

ImplementsLifecycle == Lifecycle!Spec

-----------------------------------------------------------------------------
(***************************************************************************)
(* The worker and the handler's one Enqueue use asynq as TaskQueue says,   *)
(* whatever fails: an attempt that was given up, by its lease, by its      *)
(* time-out or by a shutdown, while its handler still runs                 *)
(* (process_job.go:104-235) settles nothing, and no two attempts hold one  *)
(* task.                                                                   *)
(***************************************************************************)
HeldBy(w, j) == leased[w] /\ job[w] = j

Queue == INSTANCE TaskQueue WITH
  Tasks <- Jobs,
  state <- task,
  held <- [j \in Jobs |-> \E w \in Workers : HeldBy(w, j)]

ImplementsTaskQueue == Queue!Spec

-----------------------------------------------------------------------------
(***************************************************************************)
(* Liveness, under FairSpec.                                               *)
(***************************************************************************)

(* Every accepted job is eventually reported or marked failed.             *)
AcceptedIsResolved ==
  \A j \in Jobs : reply[j] = "accepted" ~> status[j] \in {"completed", "failed"}

(* The queue drains: every task ends as completed or archived, even when    *)
(* leases are lost and workers die, because each redelivery counts.        *)
EveryTaskSettles ==
  \A j \in Jobs : task[j] # "none" ~> task[j] \in {"completed", "archived"}

=============================================================================
