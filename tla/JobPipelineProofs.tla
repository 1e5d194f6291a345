-------------------------- MODULE JobPipelineProofs --------------------------
(***************************************************************************)
(* Proofs about JobPipeline, for any number of jobs, photos, workers and   *)
(* retries, whatever an extraction may list.                               *)
(***************************************************************************)
EXTENDS JobPipeline, TLAPS

USE StoreAssumption, WorkerAssumption

-----------------------------------------------------------------------------
(* The outcome of a call, whoever makes it, is one of Outcome. *)
LEMMA OutcomesOfCalls ==
  /\ \A j \in Jobs, s \in Services : RequestOutcomes(j, s) \subseteq Outcome
  /\ \A s \in Services : FreeOutcomes(s) \subseteq Outcome
  /\ \A w \in Workers, s \in Services : AttemptOutcomes(w, s) \subseteq Outcome
BY DEF RequestOutcomes, FreeOutcomes, AttemptOutcomes, Outcome

(* A call of the database keeps the rows in their types. *)
DbTypeOK ==
  /\ status \in [Jobs -> PipelineStatus \cup {"absent"}]
  /\ audioUrl \in [Jobs -> BOOLEAN]
  /\ photoUrls \in [Jobs -> SUBSET Keys]
  /\ transcript \in [Jobs -> Transcripts]
  /\ children \in [Jobs -> [Items -> 0..Many]]

LEMMA DbCallsKeepTypes ==
  ASSUME DbTypeOK, NEW j \in Jobs, NEW o
  PROVE  /\ UNCHANGED dbVars => DbTypeOK'
         /\ \A photos \in SUBSET Keys : CreateJob(j, photos, o) => DbTypeOK'
         /\ \A s \in PipelineStatus : UpdateJobStatus(j, s, o) => DbTypeOK'
         /\ NullJobURLsAndFail(j, o) => DbTypeOK'
         /\ \A t \in Transcripts : UpdateJobTranscript(j, t, o) => DbTypeOK'
         /\ \A t \in Transcripts : UpdateJobPipeline(j, t, o) => DbTypeOK'
         /\ \A i \in Items : AddChild(j, i, o) \/ CreateJobTag(j, i, o) => DbTypeOK'
<1> USE DEF DbTypeOK, dbVars, rowVars
<1>1. UNCHANGED dbVars => DbTypeOK'
  OBVIOUS
<1>2. ASSUME NEW photos \in SUBSET Keys, CreateJob(j, photos, o) PROVE DbTypeOK'
  <2>1. CASE ~Applied(o)
    BY <1>1, <1>2, <2>1 DEF CreateJob
  <2>2. CASE Applied(o)
    <3>1. /\ status' = [status EXCEPT ![j] = "queued"]
          /\ audioUrl' = [audioUrl EXCEPT ![j] = TRUE]
          /\ photoUrls' = [photoUrls EXCEPT ![j] = photos]
          /\ UNCHANGED <<transcript, children>>
      BY <1>2, <2>2 DEF CreateJob
    <3> QED
      BY <3>1 DEF PipelineStatus
  <2> QED
    BY <2>1, <2>2
<1>3. ASSUME NEW s \in PipelineStatus, UpdateJobStatus(j, s, o) PROVE DbTypeOK'
  BY <1>1, <1>3 DEF UpdateJobStatus
<1>4. ASSUME NullJobURLsAndFail(j, o) PROVE DbTypeOK'
  BY <1>1, <1>4 DEF NullJobURLsAndFail, PipelineStatus
<1>5. ASSUME NEW t \in Transcripts, UpdateJobTranscript(j, t, o) PROVE DbTypeOK'
  BY <1>1, <1>5 DEF UpdateJobTranscript, PipelineStatus
<1>6. ASSUME NEW t \in Transcripts, UpdateJobPipeline(j, t, o) PROVE DbTypeOK'
  BY <1>1, <1>6 DEF UpdateJobPipeline, PipelineStatus
<1>7. ASSUME NEW i \in Items, AddChild(j, i, o) PROVE DbTypeOK'
  BY <1>7 DEF AddChild, Many
<1>8. ASSUME NEW i \in Items, CreateJobTag(j, i, o) PROVE DbTypeOK'
  BY <1>8 DEF CreateJobTag, Many
<1> QED
  BY <1>1, <1>2, <1>3, <1>4, <1>5, <1>6, <1>7, <1>8

(* Every step of the API side keeps the variables in their types. *)
LEMMA SubmitKeepsTypes ==
  ASSUME TypeOK, SubmitNext, UNCHANGED workerVars
  PROVE  TypeOK'
<1> USE DEF TypeOK, StoreTypeOK, SubmitTypeOK, WorkerTypeOK, storeVars, dbVars,
            rowVars, queueVars, workerVars, localVars
<1>1. ASSUME NEW j \in Jobs, Receive(j) PROVE TypeOK'
  BY <1>1 DEF Receive, SubmitPC, InFlight
<1>2. ASSUME NEW j \in Jobs, Reject(j) PROVE TypeOK'
  BY <1>2 DEF Reject, SubmitPC, InFlight
<1>3. ASSUME NEW j \in Jobs, NEW k \in Keys, Put(j, k),
             UNCHANGED <<reply, nphotos, dbVars, queueVars>>
      PROVE  TypeOK'
  BY <1>3 DEF Put, Upload, Track, Goto, SubmitPC, InFlight
<1>4. ASSUME NEW j \in Jobs, UploadAudio(j) PROVE TypeOK'
  BY <1>3, <1>4 DEF UploadAudio, AudioKey, Keys
<1>5. ASSUME NEW j \in Jobs, UploadPhoto(j) PROVE TypeOK'
  BY <1>3, <1>5 DEF UploadPhoto, Pending, Keys
<1>6. ASSUME NEW j \in Jobs, UnreadablePhoto(j) PROVE TypeOK'
  BY <1>6 DEF UnreadablePhoto, SubmitPC, InFlight
<1>7. ASSUME NEW j \in Jobs, PhotosDone(j) PROVE TypeOK'
  BY <1>7 DEF PhotosDone, SubmitPC, InFlight
<1>8. ASSUME NEW j \in Jobs, InsertJob(j) PROVE TypeOK'
  <2>1. DbTypeOK'
    BY <1>8, DbCallsKeepTypes DEF InsertJob, DbTypeOK
  <2> QED
    BY <1>8, <2>1 DEF InsertJob, DbTypeOK, Goto, SubmitPC, InFlight
<1>9. ASSUME NEW j \in Jobs, EnqueueTask(j) PROVE TypeOK'
  BY <1>9 DEF EnqueueTask, Enqueue, Goto, SubmitPC, InFlight, TaskStates
<1>10. ASSUME NEW j \in Jobs, FailUnqueuedJob(j) PROVE TypeOK'
  <2>1. DbTypeOK'
    BY <1>10, DbCallsKeepTypes DEF FailUnqueuedJob, DbTypeOK
  <2> QED
    BY <1>10, <2>1 DEF FailUnqueuedJob, DbTypeOK, Goto, SubmitPC, InFlight
<1>11. ASSUME NEW j \in Jobs, CleanupUpload(j) PROVE TypeOK'
  BY <1>11 DEF CleanupUpload, Delete, Goto, SubmitPC, InFlight
<1>12. ASSUME NEW j \in Jobs, Refuse(j) \/ Accept(j) PROVE TypeOK'
  BY <1>12 DEF Refuse, Accept, Answer, SubmitPC, InFlight
<1>13. ASSUME NEW j \in Jobs, Disconnect(j) PROVE TypeOK'
  BY <1>13 DEF Disconnect
<1>14. ASSUME ApiCrash PROVE TypeOK'
  BY <1>14 DEF ApiCrash, SubmitPC, InFlight
<1> QED
  BY <1>1, <1>2, <1>4, <1>5, <1>6, <1>7, <1>8, <1>9, <1>10, <1>11, <1>12, <1>13, <1>14
     DEF SubmitNext, HandlerStep

(* A busy worker works on a job, and on one whose task was enqueued. *)
BusyOnTask ==
  \A w \in Workers : at[w] # "idle" \/ leased[w] => job[w] \in Jobs /\ task[job[w]] # "none"

(* The pieces that the worker's steps are made of keep its variables in     *)
(* their types.                                                            *)
LEMMA ReleaseKeepsTypes ==
  ASSUME WorkerTypeOK, NEW w \in Workers, Release(w)
  PROVE  WorkerTypeOK'
BY DEF WorkerTypeOK, Release, Transcripts

LEMMA ContinueKeepsTypes ==
  ASSUME WorkerTypeOK, NEW w \in Workers, NEW o,
         NEW next \in Handling \cup {""}, Continue(w, o, next), next # "" \/ o # "ok"
  PROVE  at' \in [Workers -> Handling \cup Returned \cup {"idle"}]
BY DEF WorkerTypeOK, Continue, Returned

LEMMA ProceedKeepsTypes ==
  ASSUME WorkerTypeOK, NEW w \in Workers, NEW o, NEW next \in Handling, Proceed(w, o, next)
  PROVE  WorkerTypeOK'
<1>1. CASE leased[w]
  BY <1>1, ContinueKeepsTypes DEF Proceed, WorkerTypeOK, localVars, Handling
<1>2. CASE ~leased[w]
  BY <1>2, ReleaseKeepsTypes DEF Proceed
<1> QED
  BY <1>1, <1>2

LEMMA InsertedKeepsTypes ==
  ASSUME WorkerTypeOK, NEW w \in Workers, NEW i, Inserted(w, i)
  PROVE  WorkerTypeOK'
<1>1. CASE leased[w]
  BY <1>1 DEF Inserted, WorkerTypeOK
<1>2. CASE ~leased[w]
  BY <1>2, ReleaseKeepsTypes DEF Inserted
<1> QED
  BY <1>1, <1>2

LEMMA QueueKeepsTypes ==
  ASSUME task \in [Jobs -> TaskStates], retried \in [Jobs -> 0..MaxRetry],
         NEW j \in Jobs, NEW skipped, RetryOrArchive(j, skipped)
  PROVE  task' \in [Jobs -> TaskStates] /\ retried' \in [Jobs -> 0..MaxRetry]
<1>1. CASE skipped \/ retried[j] >= MaxRetry
  BY <1>1 DEF RetryOrArchive, TaskStates
<1>2. CASE ~ (skipped \/ retried[j] >= MaxRetry)
  BY <1>2 DEF RetryOrArchive, TaskStates
<1> QED
  BY <1>1, <1>2

LEMMA MarkIfLastKeepsTypes ==
  ASSUME DbTypeOK, NEW w \in Workers, job[w] \in Jobs, MarkIfLast(w)
  PROVE  DbTypeOK'
BY DbCallsKeepTypes DEF MarkIfLast, PipelineStatus

(* Every step of the worker side keeps the variables in their types. *)
LEMMA WorkerKeepsTypes ==
  ASSUME TypeOK, BusyOnTask, WorkerNext, UNCHANGED submitVars
  PROVE  TypeOK'
<1> USE DEF TypeOK
<1>s. SubmitTypeOK'
  BY DEF SubmitTypeOK, submitVars
<1>d. DbTypeOK
  BY DEF StoreTypeOK, DbTypeOK
<1>u. ASSUME UNCHANGED storeVars PROVE StoreTypeOK'
  BY <1>u DEF StoreTypeOK, storeVars, dbVars, rowVars, queueVars
<1>b. ASSUME DbTypeOK', UNCHANGED <<objects, queueVars>> PROVE StoreTypeOK'
  BY <1>b DEF StoreTypeOK, DbTypeOK, queueVars
<1>q. ASSUME task' \in [Jobs -> TaskStates] /\ retried' \in [Jobs -> 0..MaxRetry],
             UNCHANGED <<dbVars, objects>>
      PROVE  StoreTypeOK'
  BY <1>q DEF StoreTypeOK, dbVars, rowVars
<1>h. \A w \in Workers : at[w] # "idle" \/ leased[w] => job[w] \in Jobs
  BY DEF BusyOnTask
<1>1. ASSUME NEW w \in Workers, NEW j \in Jobs, Dequeue(w, j) PROVE TypeOK'
  <2>1. StoreTypeOK'
    BY <1>1, <1>q DEF Dequeue, StoreTypeOK, TaskStates
  <2>2. WorkerTypeOK'
    BY <1>1 DEF Dequeue, WorkerTypeOK, StoreTypeOK, Handling
  <2> QED
    BY <1>s, <2>1, <2>2
<1>2. ASSUME NEW w \in Workers, Load(w) PROVE TypeOK'
  <2>1. WorkerTypeOK'
    BY <1>2 DEF Load, Continue, WorkerTypeOK, Handling, Returned
  <2> QED
    BY <1>2, <1>s, <1>u, <2>1 DEF Load
<1>3. ASSUME NEW w \in Workers, MarkTranscribing(w) PROVE TypeOK'
  BY <1>3, <1>s, <1>d, <1>b, <1>h, DbCallsKeepTypes, ProceedKeepsTypes
     DEF MarkTranscribing, PipelineStatus, Handling
<1>4. ASSUME NEW w \in Workers, Download(w) PROVE TypeOK'
  <2>1. WorkerTypeOK'
    BY <1>4 DEF Download, Continue, WorkerTypeOK, localVars, Handling, Returned
  <2> QED
    BY <1>4, <1>s, <1>u, <2>1 DEF Download
<1>5. ASSUME NEW w \in Workers, Transcribe(w) PROVE TypeOK'
  <2>1. WorkerTypeOK'
    BY <1>5 DEF Transcribe, Continue, WorkerTypeOK, Usable, Transcripts, Handling, Returned
  <2> QED
    BY <1>5, <1>s, <1>u, <2>1 DEF Transcribe
<1>6. ASSUME NEW w \in Workers, StoreTranscript(w) PROVE TypeOK'
  <2>1. text[w] \in Transcripts
    BY DEF WorkerTypeOK
  <2> QED
    BY <1>6, <1>s, <1>d, <1>b, <1>h, <2>1, DbCallsKeepTypes, ProceedKeepsTypes
       DEF StoreTranscript, Handling
<1>7. ASSUME NEW w \in Workers, MarkExtracting(w) PROVE TypeOK'
  BY <1>7, <1>s, <1>d, <1>b, <1>h, DbCallsKeepTypes, ProceedKeepsTypes
     DEF MarkExtracting, PipelineStatus, Handling
<1>8. ASSUME NEW w \in Workers, Extract(w) PROVE TypeOK'
  <2>1. WorkerTypeOK'
    BY <1>8 DEF Extract, Continue, WorkerTypeOK, Handling, Returned
  <2> QED
    BY <1>8, <1>s, <1>u, <2>1 DEF Extract
<1>9. ASSUME NEW w \in Workers, Complete(w) PROVE TypeOK'
  <2>1. text[w] \in Transcripts
    BY DEF WorkerTypeOK
  <2> QED
    BY <1>9, <1>s, <1>d, <1>b, <1>h, <2>1, DbCallsKeepTypes, ProceedKeepsTypes
       DEF Complete, Handling
<1>10. ASSUME NEW w \in Workers, InsertMaterial(w) \/ InsertRecommendation(w) \/ InsertTag(w)
       PROVE  TypeOK'
  BY <1>10, <1>s, <1>d, <1>b, <1>h, DbCallsKeepTypes, InsertedKeepsTypes
     DEF InsertMaterial, InsertRecommendation, InsertTag, Items
<1>11. ASSUME NEW w \in Workers, Succeed(w) PROVE TypeOK'
  BY <1>11, <1>s, <1>q, ReleaseKeepsTypes DEF Succeed, StoreTypeOK, TaskStates
<1>12. ASSUME NEW w \in Workers, HandleError(w) PROVE TypeOK'
  <2>1. WorkerTypeOK'
    BY <1>12 DEF HandleError, WorkerTypeOK, localVars, Returned
  <2> QED
    BY <1>12, <1>s, <1>d, <1>b, <1>h, <2>1, MarkIfLastKeepsTypes DEF HandleError
<1>13. ASSUME NEW w \in Workers, Settle(w) PROVE TypeOK'
  <2>1. task' \in [Jobs -> TaskStates] /\ retried' \in [Jobs -> 0..MaxRetry]
    BY <1>13, <1>h, QueueKeepsTypes DEF Settle, StoreTypeOK, queueVars
  <2> QED
    BY <1>13, <1>s, <1>q, <2>1, ReleaseKeepsTypes DEF Settle
<1>14. ASSUME NEW w \in Workers, LoseLease(w) PROVE TypeOK'
  <2>1. WorkerTypeOK'
    BY <1>14 DEF LoseLease, WorkerTypeOK
  <2> QED
    BY <1>14, <1>s, <1>d, <1>b, <1>h, <2>1, MarkIfLastKeepsTypes, DbCallsKeepTypes DEF LoseLease
<1>15. ASSUME NEW w \in Workers, Requeue(w) PROVE TypeOK'
  <2>1. WorkerTypeOK'
    BY <1>15 DEF Requeue, WorkerTypeOK
  <2> QED
    BY <1>15, <1>s, <1>q, <2>1 DEF Requeue, StoreTypeOK, TaskStates
<1>16. ASSUME NEW w \in Workers, Abandon(w) \/ WorkerCrash(w) PROVE TypeOK'
  BY <1>16, <1>s, <1>u, ReleaseKeepsTypes DEF Abandon, WorkerCrash
<1>18. ASSUME NEW w \in Workers, TimeOut(w) PROVE TypeOK'
  <2>1. WorkerTypeOK'
    BY <1>18 DEF TimeOut, WorkerTypeOK
  <2>2. task' \in [Jobs -> TaskStates] /\ retried' \in [Jobs -> 0..MaxRetry]
    BY <1>18, <1>h, QueueKeepsTypes DEF TimeOut, StoreTypeOK
  <2>3. DbTypeOK'
    BY <1>18, <1>d, <1>h, MarkIfLastKeepsTypes DEF TimeOut
  <2> QED
    BY <1>18, <1>s, <2>1, <2>2, <2>3 DEF TimeOut, StoreTypeOK, DbTypeOK
<1>17. ASSUME NEW j \in Jobs, Recover(j) PROVE TypeOK'
  <2>1. WorkerTypeOK'
    BY <1>17 DEF Recover, WorkerTypeOK, workerVars, localVars
  <2> QED
    BY <1>17, <1>s, <1>q, <2>1, QueueKeepsTypes DEF Recover, StoreTypeOK
<1> QED
  BY <1>1, <1>2, <1>3, <1>4, <1>5, <1>6, <1>7, <1>8, <1>9, <1>10, <1>11, <1>12, <1>13,
     <1>14, <1>15, <1>16, <1>17, <1>18 DEF WorkerNext, AttemptStep

(* What the worker side leaves alone: the files and the keys in the rows;   *)
(* and neither a row nor a task ever disappears.                           *)
LEMMA WorkerLeavesSubmissions ==
  ASSUME TypeOK, BusyOnTask, WorkerNext
  PROVE  /\ UNCHANGED <<audioUrl, photoUrls, objects>>
         /\ \A j \in Jobs : status[j] # "absent" => status'[j] # "absent"
         /\ \A j \in Jobs : task[j] # "none" <=> task'[j] # "none"
         /\ BusyOnTask'
<1> DEFINE Rows == /\ UNCHANGED <<audioUrl, photoUrls, objects>>
                   /\ \A j \in Jobs : status[j] # "absent" => status'[j] # "absent"
           Tasks == \A j \in Jobs : task[j] # "none" <=> task'[j] # "none"
<1>h. \A w \in Workers : at[w] # "idle" \/ leased[w] => job[w] \in Jobs /\ task[job[w]] # "none"
  BY DEF BusyOnTask
<1>t. /\ status \in [Jobs -> PipelineStatus \cup {"absent"}] /\ task \in [Jobs -> TaskStates]
      /\ at \in [Workers -> Handling \cup Returned \cup {"idle"}]
      /\ job \in [Workers -> Jobs \cup {NoJob}] /\ leased \in [Workers -> BOOLEAN]
  BY DEF TypeOK, StoreTypeOK, WorkerTypeOK
(* A worker goes on with its job, or forgets it. *)
<1>k. ASSUME NEW w \in Workers, Tasks,
             \/ Release(w)
             \/ /\ at[w] # "idle" \/ leased[w]
                /\ UNCHANGED job
                /\ \A v \in Workers \ {w} : at'[v] = at[v] /\ leased'[v] = leased[v]
      PROVE  BusyOnTask'
  BY <1>k, <1>h, <1>t DEF BusyOnTask, Release
<1>u. ASSUME UNCHANGED dbVars, UNCHANGED objects PROVE Rows
  BY <1>u DEF dbVars, rowVars
<1>q. ASSUME UNCHANGED queueVars PROVE Tasks
  BY <1>q DEF queueVars
<1>s. ASSUME NEW j \in Jobs, NEW s \in PipelineStatus, NEW o, UpdateJobStatus(j, s, o),
             UNCHANGED objects
      PROVE  Rows
  BY <1>s, <1>t, <1>u DEF UpdateJobStatus, PipelineStatus
<1>r. ASSUME NEW j \in Jobs, NEW skipped, task[j] # "none", RetryOrArchive(j, skipped)
      PROVE  Tasks
  BY <1>r, <1>t DEF RetryOrArchive, TaskStates
<1>m. ASSUME NEW w \in Workers, job[w] \in Jobs, MarkIfLast(w), UNCHANGED objects PROVE Rows
  BY <1>m, <1>s, <1>u DEF MarkIfLast, PipelineStatus
<1>p. ASSUME NEW w \in Workers, NEW o, NEW next, at[w] # "idle", Tasks,
             Proceed(w, o, next)
      PROVE  BusyOnTask'
  BY <1>p, <1>k, <1>t DEF Proceed, Continue, localVars
<1>1. ASSUME NEW w \in Workers, NEW j \in Jobs, Dequeue(w, j) PROVE Rows /\ Tasks /\ BusyOnTask'
  <2>1. Rows /\ Tasks
    BY <1>1, <1>t, <1>u DEF Dequeue, TaskStates
  <2> QED
    BY <1>1, <1>h, <1>t, <2>1 DEF Dequeue, BusyOnTask
<1>2. ASSUME NEW w \in Workers, Load(w) \/ Download(w) \/ Transcribe(w) \/ Extract(w)
      PROVE  Rows /\ Tasks /\ BusyOnTask'
  <2>1. Rows /\ Tasks
    BY <1>2, <1>u, <1>q DEF Load, Download, Transcribe, Extract, storeVars
  <2>2. /\ at[w] # "idle" /\ UNCHANGED <<job, leased>>
        /\ \E o, next : Continue(w, o, next)
    BY <1>2 DEF Load, Download, Transcribe, Extract, localVars
  <2> QED
    BY <1>k, <1>t, <2>1, <2>2 DEF Continue
<1>3. ASSUME NEW w \in Workers, MarkTranscribing(w) \/ MarkExtracting(w)
      PROVE  Rows /\ Tasks /\ BusyOnTask'
  <2>1. Rows /\ Tasks
    BY <1>3, <1>h, <1>s, <1>q DEF MarkTranscribing, MarkExtracting, PipelineStatus
  <2> QED
    BY <1>3, <1>p, <2>1 DEF MarkTranscribing, MarkExtracting
<1>4. ASSUME NEW w \in Workers, StoreTranscript(w) PROVE Rows /\ Tasks /\ BusyOnTask'
  <2>1. Rows /\ Tasks
    BY <1>4, <1>t, <1>u, <1>q DEF StoreTranscript, UpdateJobTranscript
  <2> QED
    BY <1>4, <1>p, <2>1 DEF StoreTranscript
<1>5. ASSUME NEW w \in Workers, Complete(w) PROVE Rows /\ Tasks /\ BusyOnTask'
  <2>1. Rows /\ Tasks
    BY <1>5, <1>t, <1>u, <1>q DEF Complete, UpdateJobPipeline
  <2> QED
    BY <1>5, <1>p, <2>1 DEF Complete
<1>6. ASSUME NEW w \in Workers, InsertMaterial(w) \/ InsertRecommendation(w) \/ InsertTag(w)
      PROVE  Rows /\ Tasks /\ BusyOnTask'
  <2>1. Rows /\ Tasks /\ at[w] # "idle" /\ \E i : Inserted(w, i)
    BY <1>6, <1>q DEF InsertMaterial, InsertRecommendation, InsertTag, AddChild, CreateJobTag, rowVars
  <2> QED
    BY <1>k, <2>1 DEF Inserted
<1>7. ASSUME NEW w \in Workers, Succeed(w) PROVE Rows /\ Tasks /\ BusyOnTask'
  <2>1. Rows /\ Tasks
    BY <1>7, <1>h, <1>t, <1>u DEF Succeed
  <2> QED
    BY <1>7, <1>k, <2>1 DEF Succeed
<1>8. ASSUME NEW w \in Workers, HandleError(w) PROVE Rows /\ Tasks /\ BusyOnTask'
  <2>1. Rows /\ Tasks
    BY <1>8, <1>h, <1>m, <1>q DEF HandleError
  <2> QED
    BY <1>8, <1>k, <1>t, <2>1 DEF HandleError, localVars
<1>9. ASSUME NEW w \in Workers, Settle(w) PROVE Rows /\ Tasks /\ BusyOnTask'
  <2>1. Rows /\ Tasks
    BY <1>9, <1>h, <1>u, <1>q, <1>r DEF Settle
  <2> QED
    BY <1>9, <1>k, <2>1 DEF Settle
<1>10. ASSUME NEW w \in Workers, LoseLease(w) PROVE Rows /\ Tasks /\ BusyOnTask'
  <2>1. Rows /\ Tasks
    BY <1>10, <1>h, <1>m, <1>u, <1>q DEF LoseLease
  <2> QED
    BY <1>10, <1>k, <1>t, <2>1 DEF LoseLease
<1>11. ASSUME NEW w \in Workers, Requeue(w) PROVE Rows /\ Tasks /\ BusyOnTask'
  <2>1. Rows /\ Tasks
    BY <1>11, <1>h, <1>t, <1>u DEF Requeue
  <2> QED
    BY <1>11, <1>k, <1>t, <2>1 DEF Requeue
<1>12. ASSUME NEW w \in Workers, Abandon(w) \/ WorkerCrash(w) PROVE Rows /\ Tasks /\ BusyOnTask'
  BY <1>12, <1>k, <1>u, <1>q DEF Abandon, WorkerCrash, storeVars
<1>14. ASSUME NEW w \in Workers, TimeOut(w) PROVE Rows /\ Tasks /\ BusyOnTask'
  <2>1. Rows /\ Tasks
    BY <1>14, <1>h, <1>m, <1>r DEF TimeOut
  <2> QED
    BY <1>14, <1>k, <1>t, <2>1 DEF TimeOut
<1>13. ASSUME NEW j \in Jobs, Recover(j) PROVE Rows /\ Tasks /\ BusyOnTask'
  <2>1. Rows /\ Tasks
    BY <1>13, <1>u, <1>r DEF Recover
  <2> QED
    BY <1>13, <1>h, <2>1 DEF Recover, BusyOnTask, workerVars, localVars
<1> QED
  BY <1>1, <1>2, <1>3, <1>4, <1>5, <1>6, <1>7, <1>8, <1>9, <1>10, <1>11, <1>12, <1>13, <1>14
     DEF WorkerNext, AttemptStep

-----------------------------------------------------------------------------
(***************************************************************************)
(* What the handler has secured at each point of a request.  AcceptedIs-   *)
(* Durable is not inductive by itself: that the answer is 202 only when    *)
(* everything is in place follows from what held before each call.         *)
(***************************************************************************)
Listed(j) == audioUrl[j] /\ photoUrls[j] = 1..nphotos[j]
AllUploaded(j) == uploaded[j] = {AudioKey} \cup (1..nphotos[j])

RequestInv(j) ==
  /\ uploaded[j] \subseteq objects[j]
  /\ pc[j] \in {"idle", "audio"} => uploaded[j] = {}
  /\ pc[j] = "photos" => /\ AudioKey \in uploaded[j]
                         /\ uploaded[j] \subseteq {AudioKey} \cup (1..nphotos[j])
  /\ pc[j] \in {"insert", "enqueue", "accept"} => AllUploaded(j)
  /\ pc[j] \in {"enqueue", "accept"} => Listed(j)
  /\ pc[j] \in {"enqueue", "unqueue", "accept"} => status[j] # "absent"
  /\ pc[j] = "accept" => task[j] # "none"
  /\ task[j] # "none" => status[j] # "absent"
  /\ reply[j] = "accepted" => pc[j] = "done" /\ Durable(j)

Inv == TypeOK /\ BusyOnTask /\ \A j \in Jobs : RequestInv(j)

LEMMA InitInv == Init => Inv
<1> SUFFICES ASSUME Init PROVE Inv
  OBVIOUS
<1> USE DEF Init, StoreInit, SubmitInit, WorkerInit
<1>1. StoreTypeOK
  BY DEF StoreTypeOK, Transcripts, TaskStates, Many
<1>2. SubmitTypeOK
  BY DEF SubmitTypeOK, SubmitPC
<1>3. WorkerTypeOK
  BY DEF WorkerTypeOK, Transcripts
<1>4. BusyOnTask
  BY DEF BusyOnTask
<1>5. \A j \in Jobs : RequestInv(j)
  BY DEF RequestInv
<1> QED
  BY <1>1, <1>2, <1>3, <1>4, <1>5 DEF Inv, TypeOK

(* A step of request i leaves the invariant of every other request alone. *)
LEMMA OtherRequests ==
  ASSUME TypeOK, NEW i \in Jobs, NEW j \in Jobs, i # j, RequestInv(j),
         Receive(i) \/ Reject(i) \/ HandlerStep(i) \/ Disconnect(i)
  PROVE  RequestInv(j)'
<1> DEFINE Same == /\ pc'[j] = pc[j] /\ reply'[j] = reply[j] /\ nphotos'[j] = nphotos[j]
                   /\ uploaded'[j] = uploaded[j] /\ objects'[j] = objects[j]
                   /\ status'[j] = status[j] /\ audioUrl'[j] = audioUrl[j]
                   /\ photoUrls'[j] = photoUrls[j] /\ task'[j] = task[j]
<1> USE DEF TypeOK, StoreTypeOK, SubmitTypeOK, storeVars, dbVars, rowVars, queueVars
<1>1. CASE Receive(i) \/ Reject(i) \/ Disconnect(i)
  <2>1. Same
    BY <1>1 DEF Receive, Reject, Disconnect
  <2> QED
    BY <2>1 DEF RequestInv, Durable, Listed, AllUploaded
<1>2. CASE UploadAudio(i) \/ UploadPhoto(i) \/ UnreadablePhoto(i) \/ PhotosDone(i)
  <2>1. Same
    BY <1>2 DEF UploadAudio, UploadPhoto, UnreadablePhoto, PhotosDone, Put, Upload, Track, Goto
  <2> QED
    BY <2>1 DEF RequestInv, Durable, Listed, AllUploaded
<1>3. CASE InsertJob(i) \/ EnqueueTask(i) \/ FailUnqueuedJob(i)
  <2>1. Same
    BY <1>3 DEF InsertJob, EnqueueTask, FailUnqueuedJob, CreateJob, Enqueue, NullJobURLsAndFail, Goto
  <2> QED
    BY <2>1 DEF RequestInv, Durable, Listed, AllUploaded
<1>4. CASE CleanupUpload(i) \/ Refuse(i) \/ Accept(i)
  <2>1. Same
    BY <1>4 DEF CleanupUpload, Refuse, Accept, Answer, Delete, Goto
  <2> QED
    BY <2>1 DEF RequestInv, Durable, Listed, AllUploaded
<1> QED
  BY <1>1, <1>2, <1>3, <1>4 DEF HandlerStep

(* Every step of a request keeps its own invariant: one step per call. *)
LEMMA OwnRequest ==
  ASSUME TypeOK, NEW j \in Jobs, RequestInv(j),
         Receive(j) \/ Reject(j) \/ HandlerStep(j) \/ Disconnect(j)
  PROVE  RequestInv(j)'
<1> USE DEF TypeOK, StoreTypeOK, SubmitTypeOK, storeVars, dbVars, rowVars, queueVars, RequestInv
<1>1. CASE Receive(j) \/ Reject(j)
  BY <1>1 DEF Receive, Reject
<1>2. CASE UploadAudio(j)
  BY <1>2 DEF UploadAudio, Put, Upload, Track, Goto, Applied, Keys, AudioKey
<1>3. CASE UploadPhoto(j)
  BY <1>3 DEF UploadPhoto, Pending, Put, Upload, Track, Goto, Applied, Keys, AudioKey
<1>4. CASE UnreadablePhoto(j)
  BY <1>4 DEF UnreadablePhoto
<1>5. CASE PhotosDone(j)
  BY <1>5 DEF PhotosDone, Pending, AllUploaded
<1>6. CASE InsertJob(j)
  <2>1. PICK o \in RequestOutcomes(j, "db") :
          CreateJob(j, uploaded[j] \ {AudioKey}, o) /\ Goto(j, o, "enqueue", "refuse")
    BY <1>6 DEF InsertJob
  <2>2. /\ pc[j] = "insert" /\ AllUploaded(j) /\ reply[j] # "accepted"
        /\ UNCHANGED <<reply, nphotos, uploaded, objects, task>>
    BY <1>6 DEF InsertJob
  <2>3. CASE ~Applied(o)
    BY <2>1, <2>2, <2>3 DEF CreateJob, Goto, Applied
  <2>4. CASE Applied(o)
    <3>1. /\ status' = [status EXCEPT ![j] = "queued"]
          /\ audioUrl' = [audioUrl EXCEPT ![j] = TRUE]
          /\ photoUrls' = [photoUrls EXCEPT ![j] = uploaded[j] \ {AudioKey}]
      BY <2>1, <2>4 DEF CreateJob
    <3>2. uploaded[j] \ {AudioKey} = 1..nphotos[j]
      BY <2>2 DEF AllUploaded, AudioKey
    <3>3. status'[j] # "absent" /\ Listed(j)' /\ AllUploaded(j)'
      BY <2>2, <3>1, <3>2 DEF Listed, AllUploaded
    <3>4. pc'[j] \in {"enqueue", "refuse"}
      BY <2>1 DEF Goto
    <3> QED
      BY <2>2, <3>3, <3>4
  <2> QED
    BY <2>3, <2>4
<1>7. CASE EnqueueTask(j)
  BY <1>7 DEF EnqueueTask, Enqueue, Goto, Applied, AllUploaded, Listed
<1>8. CASE FailUnqueuedJob(j)
  BY <1>8 DEF FailUnqueuedJob, NullJobURLsAndFail, Goto
<1>9. CASE CleanupUpload(j)
  BY <1>9 DEF CleanupUpload, Delete, Goto
<1>10. CASE Refuse(j)
  BY <1>10 DEF Refuse, Answer
<1>11. CASE Accept(j)
  BY <1>11 DEF Accept, Answer, Durable, Listed, AllUploaded, AudioKey
<1>12. CASE Disconnect(j)
  BY <1>12 DEF Disconnect, Durable, Listed, AllUploaded, InFlight
<1> QED
  BY <1>1, <1>2, <1>3, <1>4, <1>5, <1>6, <1>7, <1>8, <1>9, <1>10, <1>11, <1>12 DEF HandlerStep

(* A crash of the API process ends requests, whatever they have secured. *)
LEMMA CrashKeepsRequests ==
  ASSUME TypeOK, NEW j \in Jobs, RequestInv(j), ApiCrash
  PROVE  RequestInv(j)'
BY DEF TypeOK, SubmitTypeOK, ApiCrash, RequestInv, Durable, Listed, AllUploaded, InFlight,
       storeVars, dbVars, rowVars, queueVars

(* The worker takes nothing away that a request has secured. *)
LEMMA WorkerKeepsRequests ==
  ASSUME TypeOK, BusyOnTask, NEW j \in Jobs, RequestInv(j), WorkerNext, UNCHANGED submitVars
  PROVE  RequestInv(j)'
BY WorkerLeavesSubmissions DEF submitVars, RequestInv, Durable, Listed, AllUploaded

LEMMA NextInv == Inv /\ [Next]_vars => Inv'
<1> SUFFICES ASSUME Inv, [Next]_vars PROVE Inv'
  OBVIOUS
<1> USE DEF Inv
<1>1. CASE SubmitNext /\ UNCHANGED workerVars
  <2>1. TypeOK'
    BY <1>1, SubmitKeepsTypes
  <2>2. \A j \in Jobs : RequestInv(j)'
    BY <1>1, OwnRequest, OtherRequests, CrashKeepsRequests DEF SubmitNext
  <2>3. BusyOnTask'
    <3>1. \A j \in Jobs : task[j] # "none" => task'[j] # "none"
      BY <1>1 DEF SubmitNext, HandlerStep, ApiCrash, Receive, Reject, Disconnect, UploadAudio,
         UploadPhoto, UnreadablePhoto, PhotosDone, InsertJob, EnqueueTask, FailUnqueuedJob,
         CleanupUpload, Refuse, Accept, Answer, Enqueue, storeVars, queueVars,
         TypeOK, StoreTypeOK
    <3> QED
      BY <1>1, <3>1 DEF BusyOnTask, workerVars, localVars
  <2> QED
    BY <2>1, <2>2, <2>3
<1>2. CASE WorkerNext /\ UNCHANGED submitVars
  BY <1>2, WorkerKeepsTypes, WorkerLeavesSubmissions, WorkerKeepsRequests
<1>3. CASE UNCHANGED vars
  BY <1>3 DEF vars, storeVars, dbVars, rowVars, queueVars, submitVars, workerVars, localVars,
     TypeOK, StoreTypeOK, SubmitTypeOK, WorkerTypeOK, BusyOnTask, RequestInv, Durable,
     Listed, AllUploaded
<1> QED
  BY <1>1, <1>2, <1>3 DEF Next

(* The inductive invariant holds in every reachable state of the pipeline. *)
THEOREM Invariance == Spec => []Inv
BY InitInv, NextInv, PTL DEF Spec

(* The variables of the pipeline keep their types, whatever fails. *)
THEOREM TypeCorrect == Spec => []TypeOK
<1>1. Inv => TypeOK
  BY DEF Inv
<1> QED
  BY <1>1, Invariance, PTL

(* A 202 of CreateHandler is durable: row, files and task are there and     *)
(* stay, whatever fails before or afterwards.                              *)
THEOREM AcceptedDurable == Spec => []AcceptedIsDurable
<1>1. Inv => AcceptedIsDurable
  BY DEF Inv, RequestInv, AcceptedIsDurable
<1> QED
  BY <1>1, Invariance, PTL

(* A task in the queue always refers to a row of the database, whatever     *)
(* fails: ProcessTask never meets a job that does not exist.               *)
THEOREM TaskRow == Spec => []TaskHasRow
<1>1. Inv => TaskHasRow
  BY DEF Inv, RequestInv, TaskHasRow
<1> QED
  BY <1>1, Invariance, PTL

-----------------------------------------------------------------------------
(***************************************************************************)
(* TranscriptUsable is not inductive: markExtracting and complete rely on   *)
(* what an earlier step of the attempt has obtained and stored, while an    *)
(* attempt that has lost its lease may still write to the same row.        *)
(***************************************************************************)
Readable == {"unclear", "text"}

(* An attempt that is past the provider's answer, and past storing it. *)
HasText == {"storeTranscript", "markExtracting", "extract", "complete", "insert"}
HasStored == HasText \ {"storeTranscript"}

TextInv(w) ==
  /\ at[w] \in HasText => text[w] \in Readable
  /\ at[w] \in HasStored => transcript[job[w]] \in Readable

TranscriptInv == TranscriptUsable /\ \A w \in Workers : TextInv(w)

(* What a step may do to the rows: write a transcript that can be shown,    *)
(* and say that there is one only if there is.                             *)
TranscriptsStay ==
  \A j \in Jobs :
    /\ transcript'[j] = transcript[j] \/ transcript'[j] \in Readable
    /\ status'[j] \in {"transcribed", "extracting", "completed"} => transcript'[j] \in Readable

LEMMA TranscriptKept ==
  ASSUME Inv, TranscriptInv, [Next]_vars
  PROVE  TranscriptInv'
<1>i. /\ \A j \in Jobs : status[j] \in {"transcribed", "extracting", "completed"}
                           => transcript[j] \in Readable
      /\ \A w \in Workers : TextInv(w)
  BY DEF TranscriptInv, TranscriptUsable, Readable
<1>t. /\ status \in [Jobs -> PipelineStatus \cup {"absent"}]
      /\ transcript \in [Jobs -> Transcripts]
      /\ at \in [Workers -> Handling \cup Returned \cup {"idle"}]
      /\ job \in [Workers -> Jobs \cup {NoJob}]
      /\ text \in [Workers -> Transcripts]
      /\ \A w \in Workers : at[w] # "idle" \/ leased[w] => job[w] \in Jobs
  BY DEF Inv, TypeOK, StoreTypeOK, WorkerTypeOK, BusyOnTask
<1> USE DEF HasText, HasStored
(* The rows keep their transcripts, and so does every attempt but one. *)
<1>k. ASSUME NEW w \in Workers, TranscriptsStay, TextInv(w)',
             \A v \in Workers \ {w} : at'[v] = at[v] /\ job'[v] = job[v] /\ text'[v] = text[v]
      PROVE  TranscriptInv'
  <2>1. TranscriptUsable'
    BY <1>k DEF TranscriptsStay, TranscriptUsable, Readable
  <2>2. \A v \in Workers \ {w} : TextInv(v)'
    BY <1>i, <1>k, <1>t DEF TextInv, TranscriptsStay
  <2> QED
    BY <1>k, <2>1, <2>2 DEF TranscriptInv
<1>u. ASSUME UNCHANGED dbVars PROVE TranscriptsStay
  BY <1>i, <1>u DEF TranscriptsStay, dbVars, rowVars
<1>s. ASSUME NEW j \in Jobs, NEW s, NEW o, UpdateJobStatus(j, s, o),
             s \in {"transcribed", "extracting", "completed"} => transcript[j] \in Readable
      PROVE  TranscriptsStay
  BY <1>i, <1>t, <1>s, <1>u DEF TranscriptsStay, UpdateJobStatus
<1>m. ASSUME NEW w \in Workers, at[w] # "idle" \/ leased[w], MarkIfLast(w) PROVE TranscriptsStay
  BY <1>m, <1>s, <1>t, <1>u DEF MarkIfLast
(* What becomes of the attempt that takes the step. *)
<1>o. ASSUME NEW w \in Workers
      PROVE  /\ Release(w) => TextInv(w)'
             /\ \A v \in Workers \ {w} :
                  Release(w) => at'[v] = at[v] /\ job'[v] = job[v] /\ text'[v] = text[v]
             /\ \A o, next : Proceed(w, o, next) \/ (Continue(w, o, next) /\ UNCHANGED job) =>
                  \A v \in Workers \ {w} : at'[v] = at[v] /\ job'[v] = job[v]
             /\ \A o, next : Proceed(w, o, next) =>
                  \/ Release(w)
                  \/ /\ UNCHANGED <<job, text>>
                     /\ at' = [at EXCEPT ![w] = IF o = "ok" THEN next ELSE "handleError"]
  BY <1>t DEF Release, TextInv, Proceed, Continue, localVars
<1>1. CASE SubmitNext /\ UNCHANGED workerVars
  <2>1. TranscriptsStay
    BY <1>1, <1>i, <1>t DEF SubmitNext, HandlerStep, ApiCrash, Receive, Reject, Disconnect,
       UploadAudio, UploadPhoto, UnreadablePhoto, PhotosDone, InsertJob, EnqueueTask,
       FailUnqueuedJob, CleanupUpload, Refuse, Accept, Answer, CreateJob, NullJobURLsAndFail,
       storeVars, dbVars, rowVars, TranscriptsStay
  <2> QED
    BY <1>1, <1>i, <1>t, <2>1 DEF TranscriptsStay, TranscriptInv, TranscriptUsable, Readable,
       TextInv, workerVars, localVars
<1>2. ASSUME NEW w \in Workers, NEW j \in Jobs, Dequeue(w, j) PROVE TranscriptInv'
  BY <1>2, <1>k, <1>t, <1>u DEF Dequeue, TextInv
<1>3. ASSUME NEW w \in Workers, Load(w) PROVE TranscriptInv'
  BY <1>3, <1>k, <1>t, <1>u DEF Load, Continue, TextInv, storeVars
<1>4. ASSUME NEW w \in Workers, Download(w) PROVE TranscriptInv'
  BY <1>4, <1>k, <1>t, <1>u DEF Download, Continue, TextInv, storeVars, localVars
<1>5. ASSUME NEW w \in Workers, Transcribe(w) PROVE TranscriptInv'
  BY <1>5, <1>k, <1>t, <1>u DEF Transcribe, Continue, Usable, TextInv, Readable, storeVars
<1>6. ASSUME NEW w \in Workers, MarkTranscribing(w) PROVE TranscriptInv'
  <2>1. TranscriptsStay
    BY <1>6, <1>s, <1>t DEF MarkTranscribing
  <2> QED
    BY <1>6, <1>k, <1>o, <1>t, <2>1 DEF MarkTranscribing, TextInv
<1>7. ASSUME NEW w \in Workers, StoreTranscript(w) PROVE TranscriptInv'
  <2>1. PICK o : UpdateJobTranscript(job[w], text[w], o) /\ Proceed(w, o, "markExtracting")
    BY <1>7 DEF StoreTranscript
  <2>2. text[w] \in Readable /\ job[w] \in Jobs
    BY <1>7, <1>i, <1>t DEF StoreTranscript, TextInv
  <2>3. TranscriptsStay
    BY <1>i, <1>t, <1>u, <2>1, <2>2 DEF UpdateJobTranscript, TranscriptsStay
  <2>4. o = "ok" => transcript'[job[w]] \in Readable
    BY <1>t, <2>1, <2>2 DEF UpdateJobTranscript, Applied
  <2> QED
    BY <1>k, <1>o, <1>t, <2>1, <2>2, <2>3, <2>4 DEF TextInv
<1>8. ASSUME NEW w \in Workers, MarkExtracting(w) PROVE TranscriptInv'
  <2>1. text[w] \in Readable /\ transcript[job[w]] \in Readable /\ job[w] \in Jobs
    BY <1>8, <1>i, <1>t DEF MarkExtracting, TextInv
  <2>2. TranscriptsStay
    BY <1>8, <1>s, <2>1 DEF MarkExtracting
  <2> QED
    BY <1>8, <1>k, <1>o, <1>t, <2>1, <2>2 DEF MarkExtracting, TextInv, TranscriptsStay
<1>9. ASSUME NEW w \in Workers, Extract(w) PROVE TranscriptInv'
  BY <1>9, <1>i, <1>k, <1>t, <1>u DEF Extract, Continue, TextInv, TranscriptsStay, storeVars
<1>10. ASSUME NEW w \in Workers, Complete(w) PROVE TranscriptInv'
  <2>1. PICK o : UpdateJobPipeline(job[w], text[w], o) /\ Proceed(w, o, "insert")
    BY <1>10 DEF Complete
  <2>2. text[w] \in Readable /\ transcript[job[w]] \in Readable /\ job[w] \in Jobs
    BY <1>10, <1>i, <1>t DEF Complete, TextInv
  <2>3. TranscriptsStay
    BY <1>i, <1>t, <1>u, <2>1, <2>2 DEF UpdateJobPipeline, TranscriptsStay
  <2> QED
    BY <1>k, <1>o, <1>t, <2>1, <2>2, <2>3 DEF TextInv, TranscriptsStay
<1>11. ASSUME NEW w \in Workers, InsertMaterial(w) \/ InsertRecommendation(w) \/ InsertTag(w)
       PROVE  TranscriptInv'
  <2>1. (\E i : Inserted(w, i)) /\ UNCHANGED rowVars
    BY <1>11 DEF InsertMaterial, InsertRecommendation, InsertTag, AddChild, CreateJobTag
  <2>2. TranscriptsStay
    BY <1>i, <2>1 DEF TranscriptsStay, rowVars
  <2>3. Release(w) \/ UNCHANGED <<at, job, text>>
    BY <2>1 DEF Inserted
  <2> QED
    BY <1>i, <1>k, <1>o, <1>t, <2>2, <2>3 DEF TextInv, TranscriptsStay
<1>12. ASSUME NEW w \in Workers, Succeed(w) PROVE TranscriptInv'
  BY <1>12, <1>k, <1>o, <1>u DEF Succeed
<1>13. ASSUME NEW w \in Workers, HandleError(w) PROVE TranscriptInv'
  BY <1>13, <1>k, <1>m, <1>t DEF HandleError, TextInv, localVars
<1>14. ASSUME NEW w \in Workers, Settle(w) PROVE TranscriptInv'
  BY <1>14, <1>k, <1>o, <1>u DEF Settle
<1>15. ASSUME NEW w \in Workers, LoseLease(w) \/ TimeOut(w) \/ Requeue(w) PROVE TranscriptInv'
  <2>1. TranscriptsStay /\ UNCHANGED <<at, job, text>>
    BY <1>15, <1>m, <1>u DEF LoseLease, TimeOut, Requeue
  <2> QED
    BY <1>i, <1>k, <1>t, <2>1 DEF TextInv, TranscriptsStay
<1>16. ASSUME NEW w \in Workers, Abandon(w) \/ WorkerCrash(w) PROVE TranscriptInv'
  BY <1>16, <1>k, <1>o, <1>u DEF Abandon, WorkerCrash, storeVars
<1>17. ASSUME UNCHANGED <<dbVars, workerVars>> PROVE TranscriptInv'
  BY <1>17 DEF TranscriptInv, TranscriptUsable, TextInv, dbVars, rowVars, workerVars, localVars
<1>18. ASSUME NEW j \in Jobs, Recover(j) PROVE TranscriptInv'
  BY <1>17, <1>18 DEF Recover
<1>19. CASE UNCHANGED vars
  BY <1>17, <1>19 DEF vars, storeVars
<1> QED
  BY <1>1, <1>2, <1>3, <1>4, <1>5, <1>6, <1>7, <1>8, <1>9, <1>10, <1>11, <1>12, <1>13, <1>14,
     <1>15, <1>16, <1>18, <1>19 DEF Next, WorkerNext, AttemptStep

(* From "transcribed" on a job has a transcript to show, however often its   *)
(* task is delivered, whichever attempt writes last and whatever fails.     *)
THEOREM TranscriptReadable == Spec => []TranscriptUsable
<1>1. Init => TranscriptInv
  BY DEF Init, StoreInit, WorkerInit, TranscriptInv, TranscriptUsable, TextInv, HasText, HasStored
<1>2. Inv /\ TranscriptInv /\ [Next]_vars => TranscriptInv'
  BY TranscriptKept
<1>3. TranscriptInv => TranscriptUsable
  BY DEF TranscriptInv
<1> QED
  BY <1>1, <1>2, <1>3, Invariance, PTL DEF Spec

-----------------------------------------------------------------------------
(***************************************************************************)
(* ImplementsTaskQueue.  An attempt that holds a task is busy with it, the  *)
(* task is active, and nobody else holds it; there is no task before the   *)
(* handler's Enqueue.  This needs no assumption on the faults: whoever     *)
(* takes a task from an attempt takes its lease.                           *)
(***************************************************************************)
BeforeEnqueue == {"idle", "audio", "photos", "insert", "enqueue"}

LeaseInv ==
  /\ \A w \in Workers : leased[w] => /\ at[w] # "idle" /\ job[w] \in Jobs
                                     /\ task[job[w]] = "active"
  /\ \A w, v \in Workers : w # v /\ leased[w] /\ leased[v] => job[w] # job[v]
  /\ \A j \in Jobs : pc[j] \in BeforeEnqueue => task[j] = "none"

BusyHolders == \A w \in Workers : leased[w] => at[w] # "idle"

(* A step that leaves every lease as it is, ... *)
SameHolders ==
  /\ UNCHANGED leased
  /\ \A w \in Workers : leased[w] => job'[w] = job[w]
  /\ BusyHolders'

(* ... and one that ends the lease of w. *)
Frees(w) ==
  /\ leased[w] /\ leased' = [leased EXCEPT ![w] = FALSE]
  /\ \A v \in Workers \ {w} : leased[v] => job'[v] = job[v]
  /\ BusyHolders'

(* What becomes of a task whose lease ends. *)
FreedTask(j) ==
  \/ UNCHANGED queueVars
  \/ task' = [task EXCEPT ![j] = "completed"] /\ UNCHANGED retried
  \/ task' = [task EXCEPT ![j] = "waiting"] /\ UNCHANGED retried
  \/ \E skipped : RetryOrArchive(j, skipped)

(* All that a worker does to the queue. *)
QueueStep ==
  \/ SameHolders /\ UNCHANGED queueVars
  \/ \E w \in Workers, j \in Jobs : Dequeue(w, j)
  \/ \E w \in Workers : Frees(w) /\ FreedTask(job[w])
  \/ \E j \in Jobs : /\ SameHolders /\ task[j] = "active"
                     /\ ~ \E w \in Workers : HeldBy(w, j)
                     /\ RetryOrArchive(j, FALSE)

LEMMA LeaseSteps ==
  ASSUME Inv, LeaseInv, WorkerNext
  PROVE  QueueStep
<1>t. /\ at \in [Workers -> Handling \cup Returned \cup {"idle"}]
      /\ job \in [Workers -> Jobs \cup {NoJob}]
      /\ leased \in [Workers -> BOOLEAN]
      /\ BusyHolders
  BY DEF Inv, TypeOK, WorkerTypeOK, LeaseInv, BusyHolders
(* An attempt is in its call or over. *)
<1>k. ASSUME NEW w \in Workers, at' \in [Workers -> Handling \cup Returned \cup {"idle"}],
             at'[w] # "idle", \A v \in Workers \ {w} : at'[v] = at[v],
             UNCHANGED <<job, leased>>, UNCHANGED queueVars
      PROVE  QueueStep
  BY <1>t, <1>k DEF QueueStep, SameHolders, BusyHolders
<1>r. ASSUME NEW w \in Workers, Release(w)
      PROVE  /\ leased[w] => Frees(w)
             /\ ~leased[w] => SameHolders
  BY <1>t, <1>r DEF Release, Frees, SameHolders, BusyHolders
<1>f. ASSUME NEW w \in Workers, Release(w), UNCHANGED queueVars PROVE QueueStep
  BY <1>f, <1>r DEF QueueStep, FreedTask
<1>c. ASSUME NEW w \in Workers, at[w] # "idle", NEW o, NEW next \in Handling, Continue(w, o, next),
             UNCHANGED <<job, leased>>, UNCHANGED queueVars
      PROVE  QueueStep
  <2>1. at' = [at EXCEPT ![w] = IF o = "ok" THEN next ELSE "handleError"]
    BY <1>c DEF Continue
  <2>2. /\ at' \in [Workers -> Handling \cup Returned \cup {"idle"}] /\ at'[w] # "idle"
        /\ \A v \in Workers \ {w} : at'[v] = at[v]
    BY <1>t, <2>1 DEF Handling, Returned
  <2> QED
    BY <1>c, <1>k, <2>2
<1>1. ASSUME NEW w \in Workers, NEW j \in Jobs, Dequeue(w, j) PROVE QueueStep
  BY <1>1 DEF QueueStep
<1>2. ASSUME NEW w \in Workers, Load(w) PROVE QueueStep
  <2>1. at[w] # "idle" /\ UNCHANGED <<job, leased>> /\ UNCHANGED queueVars
    BY <1>2 DEF Load, storeVars
  <2>2. \/ \E o : Continue(w, o, "markTranscribing")
        \/ at' = [at EXCEPT ![w] = "handleError"]
    BY <1>2 DEF Load, Continue
  <2>3. CASE at' = [at EXCEPT ![w] = "handleError"]
    BY <1>k, <1>t, <2>1, <2>3 DEF Returned
  <2> QED
    BY <1>c, <2>1, <2>2, <2>3 DEF Handling
<1>3. ASSUME NEW w \in Workers, Download(w) \/ Transcribe(w) \/ Extract(w) PROVE QueueStep
  <2>1. at[w] # "idle" /\ UNCHANGED <<job, leased>> /\ UNCHANGED queueVars
    BY <1>3 DEF Download, Transcribe, Extract, localVars, storeVars
  <2>2. \/ \E o : Continue(w, o, "transcribe")
        \/ \E o : Continue(w, o, "storeTranscript")
        \/ \E o : Continue(w, o, "complete")
    <3>1. CASE Download(w)
      BY <3>1, Zenon DEF Download
    <3>2. CASE Transcribe(w)
      BY <3>2, Zenon DEF Transcribe
    <3>3. CASE Extract(w)
      BY <3>3, Zenon DEF Extract
    <3> QED
      BY <1>3, <3>1, <3>2, <3>3
  <2>3. {"transcribe", "storeTranscript", "complete"} \subseteq Handling
    BY DEF Handling
  <2> QED
    BY <1>c, <2>1, <2>2, <2>3
<1>4. ASSUME NEW w \in Workers,
             MarkTranscribing(w) \/ StoreTranscript(w) \/ MarkExtracting(w) \/ Complete(w)
      PROVE  QueueStep
  <2>1. at[w] # "idle" /\ UNCHANGED queueVars
    BY <1>4 DEF MarkTranscribing, StoreTranscript, MarkExtracting, Complete
  <2>2. PICK o, next : Proceed(w, o, next) /\ next \in Handling
    BY <1>4 DEF MarkTranscribing, StoreTranscript, MarkExtracting, Complete, Handling
  <2>3. CASE leased[w]
    <3>1. Continue(w, o, next) /\ UNCHANGED <<job, leased>>
      BY <2>2, <2>3 DEF Proceed, localVars
    <3> QED
      BY <1>c, <2>1, <2>2, <3>1
  <2>4. CASE ~leased[w]
    BY <1>f, <2>1, <2>2, <2>4 DEF Proceed
  <2> QED
    BY <2>3, <2>4
<1>5. ASSUME NEW w \in Workers, InsertMaterial(w) \/ InsertRecommendation(w) \/ InsertTag(w)
      PROVE  QueueStep
  <2>1. at[w] # "idle" /\ UNCHANGED queueVars /\ \E i : Inserted(w, i)
    BY <1>5 DEF InsertMaterial, InsertRecommendation, InsertTag
  <2>2. CASE leased[w]
    BY <1>k, <1>t, <2>1, <2>2 DEF Inserted
  <2>3. CASE ~leased[w]
    BY <1>f, <2>1, <2>3 DEF Inserted
  <2> QED
    BY <2>2, <2>3
<1>6. ASSUME NEW w \in Workers, Succeed(w) PROVE QueueStep
  <2>1. Frees(w) /\ FreedTask(job[w])
    BY <1>6, <1>r DEF Succeed, FreedTask
  <2> QED
    BY <2>1 DEF QueueStep
<1>7. ASSUME NEW w \in Workers, HandleError(w) PROVE QueueStep
  <2>1. /\ at' = [at EXCEPT ![w] = "settle"]
        /\ UNCHANGED <<job, leased>> /\ UNCHANGED queueVars
    BY <1>7 DEF HandleError, localVars
  <2> QED
    BY <1>k, <1>t, <2>1 DEF Returned
<1>8. ASSUME NEW w \in Workers, Settle(w) PROVE QueueStep
  <2>1. Release(w)
    BY <1>8 DEF Settle
  <2>2. CASE leased[w]
    <3>1. Frees(w) /\ RetryOrArchive(job[w], skip[w])
      BY <1>8, <1>r, <2>1, <2>2 DEF Settle
    <3> QED
      BY <3>1 DEF QueueStep, FreedTask
  <2>3. CASE ~leased[w]
    BY <1>8, <1>f, <2>1, <2>3 DEF Settle
  <2> QED
    BY <2>2, <2>3
<1>9. ASSUME NEW w \in Workers, LoseLease(w) \/ TimeOut(w) \/ Requeue(w) PROVE QueueStep
  <2>1. leased[w] /\ leased' = [leased EXCEPT ![w] = FALSE] /\ UNCHANGED <<job, at>>
    BY <1>9 DEF LoseLease, TimeOut, Requeue
  <2>2. Frees(w)
    BY <1>t, <2>1 DEF Frees, BusyHolders
  <2>3. FreedTask(job[w])
    BY <1>9 DEF LoseLease, TimeOut, Requeue, FreedTask
  <2> QED
    BY <2>2, <2>3 DEF QueueStep
<1>10. ASSUME NEW w \in Workers, Abandon(w) \/ WorkerCrash(w) PROVE QueueStep
  <2>1. Release(w) /\ UNCHANGED queueVars
    BY <1>10 DEF Abandon, WorkerCrash, storeVars
  <2> QED
    BY <1>f, <2>1
<1>11. ASSUME NEW j \in Jobs, Recover(j) PROVE QueueStep
  <2>1. SameHolders
    BY <1>11, <1>t DEF Recover, SameHolders, BusyHolders, workerVars, localVars
  <2> QED
    BY <1>11, <2>1 DEF Recover, QueueStep, HeldBy
<1> QED
  BY <1>1, <1>2, <1>3, <1>4, <1>5, <1>6, <1>7, <1>8, <1>9, <1>10, <1>11
     DEF WorkerNext, AttemptStep

(* The submission side adds a task, once, where none was. *)
LEMMA EnqueueOnce ==
  ASSUME Inv, LeaseInv, SubmitNext
  PROVE  /\ \/ UNCHANGED queueVars
            \/ \E j \in Jobs : /\ task[j] = "none" /\ task' = [task EXCEPT ![j] = "waiting"]
                               /\ UNCHANGED retried
         /\ \A j \in Jobs : pc'[j] \in BeforeEnqueue => task'[j] = "none"
<1> DEFINE Queued == \/ UNCHANGED queueVars
                     \/ \E j \in Jobs : /\ task[j] = "none"
                                        /\ task' = [task EXCEPT ![j] = "waiting"]
                                        /\ UNCHANGED retried
           Before == \A j \in Jobs : pc'[j] \in BeforeEnqueue => task'[j] = "none"
<1>t. /\ pc \in [Jobs -> SubmitPC] /\ task \in [Jobs -> TaskStates]
      /\ \A j \in Jobs : pc[j] \in BeforeEnqueue => task[j] = "none"
  BY DEF Inv, TypeOK, StoreTypeOK, SubmitTypeOK, LeaseInv
<1> USE DEF storeVars, queueVars, BeforeEnqueue
<1>1. ASSUME NEW j \in Jobs, Receive(j) \/ Reject(j) \/ Disconnect(j) PROVE Queued /\ Before
  BY <1>t, <1>1 DEF Receive, Reject, Disconnect
<1>2. ASSUME NEW j \in Jobs,
             \/ UploadAudio(j) \/ UploadPhoto(j) \/ UnreadablePhoto(j) \/ PhotosDone(j)
             \/ CleanupUpload(j) \/ Refuse(j) \/ Accept(j)
      PROVE  Queued /\ Before
  BY <1>t, <1>2 DEF UploadAudio, UploadPhoto, UnreadablePhoto, PhotosDone, Put, Goto,
     CleanupUpload, Refuse, Accept, Answer
<1>3. ASSUME NEW j \in Jobs, InsertJob(j) \/ FailUnqueuedJob(j) PROVE Queued /\ Before
  BY <1>t, <1>3 DEF InsertJob, FailUnqueuedJob, Goto
<1>4. ASSUME NEW j \in Jobs, EnqueueTask(j) PROVE Queued /\ Before
  BY <1>t, <1>4 DEF EnqueueTask, Enqueue, Goto
<1>5. ASSUME ApiCrash PROVE Queued /\ Before
  BY <1>t, <1>5 DEF ApiCrash
<1> QED
  BY <1>1, <1>2, <1>3, <1>4, <1>5 DEF SubmitNext, HandlerStep

IsHeld(j) == \E w \in Workers : HeldBy(w, j)

(* What a step does to the leases is what TaskQueue lets happen to them. *)
LEMMA LeasesOfStep ==
  ASSUME Inv, LeaseInv
  PROVE  /\ SameHolders => \A j \in Jobs : IsHeld(j)' <=> IsHeld(j)
         /\ \A w \in Workers : Frees(w) => /\ IsHeld(job[w]) /\ job[w] \in Jobs
                                           /\ \A j \in Jobs : IsHeld(j)' <=> IsHeld(j) /\ j # job[w]
         /\ \A w \in Workers, i \in Jobs : Dequeue(w, i) =>
              \A j \in Jobs : IsHeld(j)' <=> IsHeld(j) \/ j = i
<1>t. /\ job \in [Workers -> Jobs \cup {NoJob}] /\ leased \in [Workers -> BOOLEAN]
      /\ \A w \in Workers : leased[w] => /\ at[w] # "idle" /\ job[w] \in Jobs
                                         /\ task[job[w]] = "active"
      /\ \A w, v \in Workers : w # v /\ leased[w] /\ leased[v] => job[w] # job[v]
  BY DEF Inv, TypeOK, WorkerTypeOK, LeaseInv
<1>1. ASSUME SameHolders PROVE \A j \in Jobs : IsHeld(j)' <=> IsHeld(j)
  BY <1>t, <1>1 DEF SameHolders, IsHeld, HeldBy
<1>2. ASSUME NEW w \in Workers, Frees(w)
      PROVE  /\ IsHeld(job[w]) /\ job[w] \in Jobs
             /\ \A j \in Jobs : IsHeld(j)' <=> IsHeld(j) /\ j # job[w]
  <2>1. IsHeld(job[w]) /\ job[w] \in Jobs
    BY <1>t, <1>2 DEF Frees, IsHeld, HeldBy
  <2>2. \A v \in Workers, j \in Jobs : HeldBy(v, j)' <=> HeldBy(v, j) /\ v # w
    BY <1>t, <1>2 DEF Frees, HeldBy
  <2>3. \A v \in Workers, j \in Jobs : HeldBy(v, j) => (v # w <=> j # job[w])
    BY <1>t, <1>2 DEF Frees, HeldBy
  <2> QED
    BY <2>1, <2>2, <2>3 DEF IsHeld
<1>3. ASSUME NEW w \in Workers, NEW i \in Jobs, Dequeue(w, i)
      PROVE  \A j \in Jobs : IsHeld(j)' <=> IsHeld(j) \/ j = i
  <2>1. \A v \in Workers, j \in Jobs : HeldBy(v, j)' <=> HeldBy(v, j) \/ (v = w /\ j = i)
    BY <1>t, <1>3 DEF Dequeue, HeldBy
  <2> QED
    BY <2>1 DEF IsHeld
<1> QED
  BY <1>1, <1>2, <1>3

LEMMA LeaseInit == Init => LeaseInv
BY DEF Init, StoreInit, SubmitInit, WorkerInit, LeaseInv

LEMMA LeaseKept ==
  ASSUME Inv, LeaseInv, [Next]_vars
  PROVE  LeaseInv'
<1>t. /\ job \in [Workers -> Jobs \cup {NoJob}] /\ leased \in [Workers -> BOOLEAN]
      /\ at \in [Workers -> Handling \cup Returned \cup {"idle"}]
      /\ task \in [Jobs -> TaskStates]
  BY DEF Inv, TypeOK, StoreTypeOK, WorkerTypeOK
<1>1. CASE SubmitNext /\ UNCHANGED workerVars
  <2>1. \A j \in Jobs : task[j] = "active" => task'[j] = "active"
    BY <1>1, <1>t, EnqueueOnce DEF queueVars
  <2> QED
    BY <1>1, <2>1, EnqueueOnce DEF LeaseInv, workerVars, localVars
<1>2. ASSUME QueueStep, UNCHANGED submitVars, \A j \in Jobs : task[j] = "none" => task'[j] = "none"
      PROVE  LeaseInv'
  <2>1. CASE SameHolders /\ UNCHANGED queueVars
    BY <1>2, <2>1 DEF LeaseInv, SameHolders, BusyHolders, queueVars, submitVars
  <2>2. ASSUME NEW w \in Workers, NEW j \in Jobs, Dequeue(w, j) PROVE LeaseInv'
    BY <1>2, <1>t, <2>2 DEF LeaseInv, Dequeue, submitVars
  <2>3. ASSUME NEW w \in Workers, Frees(w), FreedTask(job[w]) PROVE LeaseInv'
    <3>1. \A v \in Workers : leased'[v] <=> leased[v] /\ v # w
      BY <1>t, <2>3 DEF Frees
    <3>2. \A v \in Workers : leased'[v] => job'[v] = job[v] /\ job[v] # job[w]
      BY <2>3, <3>1 DEF Frees, LeaseInv
    <3>3. \A j \in Jobs \ {job[w]} : task'[j] = task[j]
      BY <1>t, <2>3 DEF FreedTask, RetryOrArchive, queueVars
    <3> QED
      BY <1>2, <2>3, <3>1, <3>2, <3>3 DEF LeaseInv, Frees, BusyHolders, submitVars
  <2>4. ASSUME NEW j \in Jobs, SameHolders, ~ \E w \in Workers : HeldBy(w, j),
               RetryOrArchive(j, FALSE)
        PROVE  LeaseInv'
    <3>1. \A i \in Jobs \ {j} : task'[i] = task[i]
      BY <1>t, <2>4 DEF RetryOrArchive
    <3>2. \A w \in Workers : leased[w] => job[w] # j
      BY <2>4 DEF HeldBy
    <3> QED
      BY <1>2, <2>4, <3>1, <3>2 DEF LeaseInv, SameHolders, BusyHolders, submitVars
  <2> QED
    BY <1>2, <2>1, <2>2, <2>3, <2>4 DEF QueueStep
<1>3. CASE WorkerNext /\ UNCHANGED submitVars
  <2>1. \A j \in Jobs : task[j] = "none" => task'[j] = "none"
    BY <1>3, WorkerLeavesSubmissions DEF Inv
  <2> QED
    BY <1>2, <1>3, <2>1, LeaseSteps
<1>4. CASE UNCHANGED vars
  BY <1>4 DEF vars, storeVars, queueVars, submitVars, workerVars, localVars, LeaseInv
<1> QED
  BY <1>1, <1>3, <1>4 DEF Next

(* Every step of the pipeline is one of the queue, or none. *)
LEMMA PipelineQueues ==
  ASSUME Inv, LeaseInv, [Next]_vars
  PROVE  [Queue!Next]_(Queue!vars)
<1> DEFINE Held == [j \in Jobs |-> IsHeld(j)]
<1>d. Held = [j \in Jobs |-> \E w \in Workers : HeldBy(w, j)]
  BY DEF IsHeld
<1>t. task \in [Jobs -> TaskStates] /\ retried \in [Jobs -> 0..MaxRetry] /\ MaxRetry \in Nat
  BY DEF Inv, TypeOK, StoreTypeOK
<1>s. ASSUME UNCHANGED queueVars, \A j \in Jobs : IsHeld(j)' <=> IsHeld(j)
      PROVE  [Queue!Next]_(Queue!vars)
  <2>1. UNCHANGED Held
    BY <1>s DEF IsHeld
  <2> QED
    BY <1>s, <2>1 DEF Queue!vars, queueVars, IsHeld
<1>1. CASE SubmitNext /\ UNCHANGED workerVars
  <2>1. \A j \in Jobs : IsHeld(j)' <=> IsHeld(j)
    BY <1>1 DEF IsHeld, HeldBy, workerVars, localVars
  <2>2. ASSUME NEW j \in Jobs, task[j] = "none", task' = [task EXCEPT ![j] = "waiting"],
               UNCHANGED retried
        PROVE  Queue!Next
    <3>1. UNCHANGED Held
      BY <2>1 DEF IsHeld
    <3>2. Queue!Submit(j)
      BY <2>2, <3>1 DEF Queue!Submit, Queue!Become, IsHeld
    <3> QED
      BY <3>2 DEF Queue!Next
  <2> QED
    BY <1>1, <1>s, <2>1, <2>2, EnqueueOnce
<1>2. CASE WorkerNext /\ UNCHANGED submitVars
  <2>1. QueueStep
    BY <1>2, LeaseSteps
  <2>2. CASE SameHolders /\ UNCHANGED queueVars
    BY <1>s, <2>2, LeasesOfStep
  <2>3. ASSUME NEW w \in Workers, NEW j \in Jobs, Dequeue(w, j) PROVE Queue!Next
    <3>1. Held' = [Held EXCEPT ![j] = TRUE]
      BY <2>3, LeasesOfStep DEF IsHeld
    <3>2. Queue!Deliver(j)
      BY <2>3, <3>1 DEF Dequeue, Queue!Deliver, Queue!Become, IsHeld
    <3> QED
      BY <3>2 DEF Queue!Next
  <2>4. ASSUME NEW w \in Workers, Frees(w), FreedTask(job[w]) PROVE Queue!Next
    <3>1. /\ IsHeld(job[w]) /\ job[w] \in Jobs /\ task[job[w]] = "active"
          /\ \A j \in Jobs : IsHeld(j)' <=> IsHeld(j) /\ j # job[w]
      BY <2>4, LeasesOfStep DEF Frees, LeaseInv
    <3>2. Held' = [Held EXCEPT ![job[w]] = FALSE]
      BY <3>1 DEF IsHeld
    <3>3. CASE UNCHANGED queueVars
      <4>1. Queue!Lose(job[w])
        BY <3>1, <3>2, <3>3 DEF Queue!Lose, Queue!LetGo, queueVars, IsHeld
      <4> QED
        BY <3>1, <4>1 DEF Queue!Next
    <3>4. CASE task' = [task EXCEPT ![job[w]] = "completed"] /\ UNCHANGED retried
      <4>1. Queue!Complete(job[w])
        BY <3>1, <3>2, <3>4 DEF Queue!Complete, Queue!Become, Queue!LetGo, IsHeld
      <4> QED
        BY <3>1, <4>1 DEF Queue!Next
    <3>5. CASE task' = [task EXCEPT ![job[w]] = "waiting"] /\ UNCHANGED retried
      <4>1. Queue!HandBack(job[w])
        BY <3>1, <3>2, <3>5 DEF Queue!HandBack, Queue!Become, Queue!LetGo, IsHeld
      <4> QED
        BY <3>1, <4>1 DEF Queue!Next
    <3>6. ASSUME NEW skipped, RetryOrArchive(job[w], skipped) PROVE Queue!Next
      <4>1. Queue!Retry(job[w]) \/ Queue!Archive(job[w])
        <5>1. CASE skipped \/ retried[job[w]] >= MaxRetry
          BY <3>1, <3>2, <3>6, <5>1 DEF RetryOrArchive, Queue!Archive, Queue!Become, Queue!LetGo, IsHeld
        <5>2. CASE ~(skipped \/ retried[job[w]] >= MaxRetry)
          <6>1. retried[job[w]] < MaxRetry
            BY <1>t, <3>1, <5>2
          <6> QED
            BY <3>1, <3>2, <3>6, <5>2, <6>1 DEF RetryOrArchive, Queue!Retry, Queue!Become, Queue!LetGo, IsHeld
        <5> QED
          BY <5>1, <5>2
      <4> QED
        BY <3>1, <4>1 DEF Queue!Next
    <3> QED
      BY <2>4, <3>3, <3>4, <3>5, <3>6 DEF FreedTask
  <2>5. ASSUME NEW j \in Jobs, SameHolders, task[j] = "active",
               ~ \E w \in Workers : HeldBy(w, j), RetryOrArchive(j, FALSE)
        PROVE  Queue!Next
    <3>1. Held' = [Held EXCEPT ![j] = FALSE] /\ ~ IsHeld(j)
      BY <2>5, LeasesOfStep DEF IsHeld
    <3>2. Queue!Retry(j) \/ Queue!Archive(j)
      <4>1. CASE retried[j] >= MaxRetry
        <5>1. retried[j] = MaxRetry
          BY <1>t, <4>1
        <5> QED
          BY <2>5, <3>1, <4>1, <5>1 DEF RetryOrArchive, Queue!Archive, Queue!Become, Queue!LetGo, IsHeld
      <4>2. CASE ~(retried[j] >= MaxRetry)
        <5>1. retried[j] < MaxRetry
          BY <1>t, <4>2
        <5> QED
          BY <2>5, <3>1, <4>2, <5>1 DEF RetryOrArchive, Queue!Retry, Queue!Become, Queue!LetGo, IsHeld
      <4> QED
        BY <4>1, <4>2
    <3> QED
      BY <3>2 DEF Queue!Next
  <2> QED
    BY <2>1, <2>2, <2>3, <2>4, <2>5 DEF QueueStep
<1>3. CASE UNCHANGED vars
  <2>1. UNCHANGED queueVars /\ \A j \in Jobs : IsHeld(j)' <=> IsHeld(j)
    BY <1>3 DEF vars, storeVars, workerVars, localVars, IsHeld, HeldBy
  <2> QED
    BY <1>s, <2>1
<1> QED
  BY <1>1, <1>2, <1>3 DEF Next

(* The pipeline uses its queue as TaskQueue says, whatever fails: a task is *)
(* submitted once (CreateHandler does not repeat an Enqueue that failed),  *)
(* held by one attempt at a time, delivered again at most MaxRetry times   *)
(* and settled once, although attempts that were given up run on.          *)
THEOREM QueueRefinement == Spec => ImplementsTaskQueue
<1>1. Init => Queue!Init
  <2> SUFFICES ASSUME Init PROVE Queue!Init
    OBVIOUS
  <2>1. [j \in Jobs |-> \E w \in Workers : HeldBy(w, j)] = [j \in Jobs |-> FALSE]
    BY DEF Init, WorkerInit, HeldBy
  <2> QED
    BY <2>1 DEF Init, StoreInit, Queue!Init
<1>2. Inv /\ LeaseInv /\ [Next]_vars => LeaseInv' /\ [Queue!Next]_(Queue!vars)
  BY LeaseKept, PipelineQueues
<1> QED
  BY <1>1, <1>2, Invariance, LeaseInit, PTL DEF Spec, ImplementsTaskQueue, Queue!Spec

=============================================================================
