------------------------------ MODULE JobStore ------------------------------
(***************************************************************************)
(* The state that the API process and the worker process of wrappr share:  *)
(* the rows of the jobs table and of its child tables (PostgreSQL), the    *)
(* uploaded files (Cloudflare R2) and the background tasks (asynq on       *)
(* Redis).  Every operator below is one remote call, as one step: it takes *)
(* the outcome the caller sees and says what became of the shared state.   *)
(*                                                                         *)
(* A row is kept as one function per column, over the columns that the     *)
(* control flow or a property depends on.  Names, addresses, languages and *)
(* the text of the AI fields are left out.                                 *)
(***************************************************************************)
EXTENDS Naturals

CONSTANTS
  Jobs,             \* the submissions; each is one POST /v1/jobs and one row
  MaxPhotos,        \* most photos a submission carries
  Materials,        \* material lines an extraction may list
  Recommendations,  \* recommendations an extraction may list
  Tags,             \* tags an extraction may list
  MaxRetry,         \* asynq.MaxRetry(3) in the handler
  FailingCalls,     \* services whose calls may fail without any effect
  LostReplies,      \* services whose calls may take effect and report an error
  Faults            \* faults of the processes and connections that may occur

Services == {"db", "put", "get", "delete", "redis", "provider"}
FaultKinds == {"disconnect", "apiCrash", "workerCrash", "leaseLoss", "timeout", "shutdown"}

ASSUME StoreAssumption ==
  /\ MaxPhotos \in Nat
  /\ MaxRetry \in Nat
  /\ Tags \cap (Materials \cup Recommendations) = {}
  /\ Materials \cap Recommendations = {}
  /\ FailingCalls \subseteq Services
  /\ LostReplies \subseteq Services
  /\ Faults \subseteq FaultKinds

VARIABLES
  status,       \* jobs.pipeline_status, "absent" while there is no row
  audioUrl,     \* is jobs.audio_url set (not NULL)?
  photoUrls,    \* keys listed in jobs.photo_urls
  transcript,   \* jobs.transcript: NULL, empty, the placeholder, or real text
  children,     \* rows per item in job_materials, job_recommendations, job_tags
  objects,      \* keys stored in R2 under the prefix of the job
  task,         \* the asynq task of the job
  retried       \* how often asynq has rescheduled the task after a failure

rowVars == <<status, audioUrl, photoUrls, transcript>>
dbVars == <<rowVars, children>>
queueVars == <<task, retried>>
storeVars == <<dbVars, objects, queueVars>>

(* Key 0 is the audio file, keys 1..n the photos, in upload order. *)
AudioKey == 0
Keys == 0..MaxPhotos

Items == Materials \cup Recommendations \cup Tags

(* Mutant of PipelineStatus: the CHECK constraint before migration 8. *)
StatusBeforeMigration8 ==
  {"queued", "processing", "completed", "failed", "cancelled"}

(* The CHECK constraint on jobs.pipeline_status after migration 8. *)
PipelineStatus ==
  {"queued", "processing", "transcribing", "transcribed", "extracting",
   "completed", "failed", "cancelled"}

Transcripts == {"null", "empty", "unclear", "text"}
TaskStates == {"none", "waiting", "active", "archived", "completed"}

(* Counts of child rows saturate here: 2 stands for "two or more". *)
Many == 2

StoreTypeOK ==
  /\ status \in [Jobs -> PipelineStatus \cup {"absent"}]
  /\ audioUrl \in [Jobs -> BOOLEAN]
  /\ photoUrls \in [Jobs -> SUBSET Keys]
  /\ transcript \in [Jobs -> Transcripts]
  /\ children \in [Jobs -> [Items -> 0..Many]]
  /\ objects \in [Jobs -> SUBSET Keys]
  /\ task \in [Jobs -> TaskStates]
  /\ retried \in [Jobs -> 0..MaxRetry]

StoreInit ==
  /\ status = [j \in Jobs |-> "absent"]
  /\ audioUrl = [j \in Jobs |-> FALSE]
  /\ photoUrls = [j \in Jobs |-> {}]
  /\ transcript = [j \in Jobs |-> "null"]
  /\ children = [j \in Jobs |-> [i \in Items |-> 0]]
  /\ objects = [j \in Jobs |-> {}]
  /\ task = [j \in Jobs |-> "none"]
  /\ retried = [j \in Jobs |-> 0]

-----------------------------------------------------------------------------
(***************************************************************************)
(* What a caller sees of a remote call: "ok"; "err", an error and no       *)
(* effect; "lost", the effect and an error (the reply never arrived);      *)
(* "cut", the same because the caller's client hung up during the call.    *)
(***************************************************************************)
Outcome == {"ok", "err", "lost", "cut"}
Applied(o) == o # "err"

(* INSERT INTO jobs: pipeline_status defaults to 'queued', the AI columns   *)
(* to NULL.                                                                *)
CreateJob(j, photos, o) ==
  IF Applied(o)
  THEN /\ status' = [status EXCEPT ![j] = "queued"]
       /\ audioUrl' = [audioUrl EXCEPT ![j] = TRUE]
       /\ photoUrls' = [photoUrls EXCEPT ![j] = photos]
       /\ UNCHANGED <<transcript, children>>
  ELSE UNCHANGED dbVars

(* UPDATE jobs SET pipeline_status. *)
UpdateJobStatus(j, s, o) ==
  IF Applied(o)
  THEN /\ status' = [status EXCEPT ![j] = s]
       /\ UNCHANGED <<audioUrl, photoUrls, transcript, children>>
  ELSE UNCHANGED dbVars

(* Mutant of NullJobURLsAndFail: the keys stay in the row. *)
FailOnly(j, o) == UpdateJobStatus(j, "failed", o)

(* UPDATE jobs SET pipeline_status = 'failed' and forget the R2 keys. *)
NullJobURLsAndFail(j, o) ==
  IF Applied(o)
  THEN /\ status' = [status EXCEPT ![j] = "failed"]
       /\ audioUrl' = [audioUrl EXCEPT ![j] = FALSE]
       /\ photoUrls' = [photoUrls EXCEPT ![j] = {}]
       /\ UNCHANGED <<transcript, children>>
  ELSE UNCHANGED dbVars

(* UPDATE jobs SET pipeline_status, transcript. *)
UpdateJobTranscript(j, t, o) ==
  IF Applied(o)
  THEN /\ status' = [status EXCEPT ![j] = "transcribed"]
       /\ transcript' = [transcript EXCEPT ![j] = t]
       /\ UNCHANGED <<audioUrl, photoUrls, children>>
  ELSE UNCHANGED dbVars

(* UPDATE jobs SET pipeline_status, transcript and the ai_* columns. *)
UpdateJobPipeline(j, t, o) ==
  IF Applied(o)
  THEN /\ status' = [status EXCEPT ![j] = "completed"]
       /\ transcript' = [transcript EXCEPT ![j] = t]
       /\ UNCHANGED <<audioUrl, photoUrls, children>>
  ELSE UNCHANGED dbVars

(* INSERT INTO job_materials or job_recommendations: no uniqueness, every   *)
(* call adds a row.                                                        *)
AddChild(j, i, o) ==
  /\ children' = IF Applied(o) /\ children[j][i] < Many
                 THEN [children EXCEPT ![j][i] = @ + 1]
                 ELSE children
  /\ UNCHANGED rowVars

(* INSERT INTO job_tags: UNIQUE (job_id, tag) refuses a second row. *)
CreateJobTag(j, i, o) ==
  /\ children' = IF Applied(o) /\ children[j][i] = 0
                 THEN [children EXCEPT ![j][i] = 1]
                 ELSE children
  /\ UNCHANGED rowVars

(* R2 PutObject and DeleteObject. *)
Upload(j, k, o) ==
  objects' = IF Applied(o) THEN [objects EXCEPT ![j] = @ \cup {k}] ELSE objects

Delete(j, k, o) ==
  objects' = IF Applied(o) THEN [objects EXCEPT ![j] = @ \ {k}] ELSE objects

(* asynq.Client.Enqueue: a new task that has not been retried yet. *)
Enqueue(j, o) ==
  /\ task' = IF Applied(o) THEN [task EXCEPT ![j] = "waiting"] ELSE task
  /\ UNCHANGED retried

(* Mutant of RetryOrArchive: a retry is not counted. *)
RetryForever(j, skip) ==
  /\ task' = [task EXCEPT ![j] = "waiting"]
  /\ UNCHANGED retried

(* asynq reschedules a failed delivery while retries remain, and archives  *)
(* the task when they are used up or when the error says not to retry.     *)
RetryOrArchive(j, skip) ==
  IF skip \/ retried[j] >= MaxRetry
  THEN /\ task' = [task EXCEPT ![j] = "archived"]
       /\ UNCHANGED retried
  ELSE /\ task' = [task EXCEPT ![j] = "waiting"]
       /\ retried' = [retried EXCEPT ![j] = @ + 1]

=============================================================================
