------------------------- MODULE JobDeliveryProofs -------------------------
(***************************************************************************)
(* Proofs about what JobPipeline makes of a delivered task, as long as      *)
(* worker processes stay up and keep their leases: a task is then worked   *)
(* on by one attempt at a time, which is what the properties here rest on. *)
(* Whatever else a theorem needs is an assumption of it.                   *)
(***************************************************************************)
EXTENDS JobStorageProofs

(* No attempt is cut short from outside. *)
WorkersStayUp == Faults \cap {"workerCrash", "leaseLoss", "timeout", "shutdown"} = {}

-----------------------------------------------------------------------------
(* The task of a busy worker is active, and nobody else works on it; a task *)
(* that is active has its worker; there is no task before Enqueue.         *)
Busy(w) == at[w] # "idle"

Holds(w) ==
  /\ leased[w] /\ job[w] \in Jobs
  /\ task[job[w]] = "active" /\ attempt[w] = retried[job[w]]

DeliveryInv ==
  /\ \A w \in Workers : Busy(w) => Holds(w)
  /\ \A w \in Workers : leased[w] => Busy(w)
  /\ \A w, v \in Workers : w # v /\ Busy(w) /\ Busy(v) => job[w] # job[v]
  /\ \A j \in Jobs : task[j] = "active" => \E w \in Workers : Busy(w) /\ job[w] = j
  /\ \A j \in Jobs : pc[j] \in BeforeEnqueue => task[j] = "none"

(* A step of an attempt that goes on, ... *)
GoesOn(w) ==
  /\ Busy(w) /\ at'[w] # "idle"
  /\ UNCHANGED <<job, attempt, leased, queueVars, submitVars, objects, audioUrl, photoUrls>>
  /\ \A v \in Workers \ {w} : at'[v] = at[v]

(* ... and of one that ends: its task is settled and the worker is idle. *)
Ends(w) ==
  /\ Busy(w) /\ Release(w)
  /\ task' \in {[task EXCEPT ![job[w]] = s] : s \in {"waiting", "archived", "completed"}}
  /\ \A j \in Jobs \ {job[w]} : retried'[j] = retried[j]
  /\ UNCHANGED <<dbVars, submitVars, objects>>

LEMMA AttemptShape ==
  ASSUME Inv, DeliveryInv, NEW w \in Workers, AttemptStep(w), UNCHANGED submitVars
  PROVE  (GoesOn(w) /\ ~Succeed(w) /\ ~Settle(w)) \/ (Ends(w) /\ (Succeed(w) \/ Settle(w)))
<1>t. /\ at \in [Workers -> Handling \cup Returned \cup {"idle"}]
      /\ task \in [Jobs -> TaskStates] /\ retried \in [Jobs -> 0..MaxRetry]
      /\ leased \in [Workers -> BOOLEAN]
      /\ Busy(w) => Holds(w)
  BY DEF Inv, TypeOK, StoreTypeOK, WorkerTypeOK, DeliveryInv
<1>1. CASE Load(w) \/ Download(w) \/ Transcribe(w) \/ Extract(w)
  BY <1>t, <1>1 DEF Load, Download, Transcribe, Extract, Continue, GoesOn, Busy, storeVars, dbVars,
     rowVars, localVars, Succeed, Settle
<1>2. CASE MarkTranscribing(w) \/ MarkExtracting(w) \/ StoreTranscript(w) \/ Complete(w)
  <2>1. Holds(w)
    BY <1>t, <1>2 DEF MarkTranscribing, MarkExtracting, StoreTranscript, Complete, Busy
  <2>2. PICK o, next : Proceed(w, o, next) /\ next \in Handling
    BY <1>2 DEF MarkTranscribing, MarkExtracting, StoreTranscript, Complete, Handling
  <2>3. at' = [at EXCEPT ![w] = IF o = "ok" THEN next ELSE "handleError"] /\ UNCHANGED localVars
    BY <2>1, <2>2 DEF Proceed, Continue, Holds
  <2>4. Busy(w) /\ UNCHANGED <<objects, queueVars, audioUrl, photoUrls>>
    BY <1>2 DEF MarkTranscribing, MarkExtracting, StoreTranscript, Complete, UpdateJobStatus,
       UpdateJobTranscript, UpdateJobPipeline, dbVars, rowVars, Busy
  <2>5. ~Succeed(w) /\ ~Settle(w)
    BY <1>2 DEF MarkTranscribing, MarkExtracting, StoreTranscript, Complete, Succeed, Settle
  <2> QED
    BY <1>t, <2>2, <2>3, <2>4, <2>5 DEF GoesOn, localVars, Handling
<1>3. CASE InsertMaterial(w) \/ InsertRecommendation(w) \/ InsertTag(w)
  <2>1. Holds(w)
    BY <1>t, <1>3 DEF InsertMaterial, InsertRecommendation, InsertTag, Busy
  <2>2. /\ UNCHANGED <<at, job, attempt, leased, objects, queueVars, rowVars>>
        /\ at[w] = "insert" /\ todo[w] # {}
    BY <1>3, <2>1 DEF InsertMaterial, InsertRecommendation, InsertTag, Inserted, AddChild,
       CreateJobTag, Holds
  <2> QED
    BY <2>2 DEF GoesOn, Busy, rowVars, Succeed, Settle
<1>4. CASE HandleError(w)
  <2>1. UNCHANGED <<audioUrl, photoUrls>>
    BY <1>4 DEF HandleError, MarkIfLast, UpdateJobStatus, dbVars, rowVars
  <2> QED
    BY <1>t, <1>4, <2>1 DEF HandleError, GoesOn, Busy, localVars, Succeed, Settle
<1>5. CASE Succeed(w)
  BY <1>t, <1>5 DEF Succeed, Ends, Busy
<1>6. CASE Settle(w)
  <2>1. Holds(w) /\ Busy(w)
    BY <1>t, <1>6 DEF Settle, Busy
  <2> QED
    BY <1>t, <1>6, <2>1 DEF Settle, Ends, Holds, RetryOrArchive
<1> QED
  BY <1>1, <1>2, <1>3, <1>4, <1>5, <1>6 DEF AttemptStep

(* While workers stay up there is nothing else that they do. *)
LEMMA WorkerShape ==
  ASSUME WorkersStayUp, Inv, DeliveryInv, WorkerNext
  PROVE  \E w \in Workers : AttemptStep(w) \/ \E j \in Jobs : Dequeue(w, j)
<1>1. \A w \in Workers : ~LoseLease(w) /\ ~TimeOut(w) /\ ~Requeue(w) /\ ~WorkerCrash(w)
  BY DEF WorkersStayUp, LoseLease, TimeOut, Requeue, WorkerCrash
<1>2. \A w \in Workers : ~Abandon(w)
  BY DEF Abandon, DeliveryInv, Holds, Busy, Handling
<1>3. \A j \in Jobs : ~Recover(j)
  BY DEF Recover, DeliveryInv, Holds
<1> QED
  BY <1>1, <1>2, <1>3 DEF WorkerNext

(* What the submission side does to tasks: it adds one, where none was. *)
LEMMA SubmitShape ==
  ASSUME Inv, DeliveryInv, SubmitNext
  PROVE  /\ \A j \in Jobs : task[j] # "none" => task'[j] = task[j]
         /\ \A j \in Jobs : task'[j] \in {task[j], "waiting"}
         /\ \A j \in Jobs : pc'[j] \in BeforeEnqueue => task'[j] = "none"
         /\ UNCHANGED <<retried, children>>
<1> DEFINE Goal == /\ \A j \in Jobs : task[j] # "none" => task'[j] = task[j]
                   /\ \A j \in Jobs : task'[j] \in {task[j], "waiting"}
                   /\ \A j \in Jobs : pc'[j] \in BeforeEnqueue => task'[j] = "none"
                   /\ UNCHANGED <<retried, children>>
<1>t. /\ pc \in [Jobs -> SubmitPC] /\ task \in [Jobs -> TaskStates]
      /\ \A j \in Jobs : pc[j] \in BeforeEnqueue => task[j] = "none"
  BY DEF Inv, TypeOK, StoreTypeOK, SubmitTypeOK, DeliveryInv
<1> USE DEF storeVars, dbVars, rowVars, queueVars, BeforeEnqueue
<1>1. ASSUME NEW j \in Jobs, Receive(j) \/ Reject(j) \/ Disconnect(j) PROVE Goal
  BY <1>t, <1>1 DEF Receive, Reject, Disconnect
<1>2. ASSUME NEW j \in Jobs,
             \/ UploadAudio(j) \/ UploadPhoto(j) \/ UnreadablePhoto(j) \/ PhotosDone(j)
             \/ CleanupUpload(j) \/ Refuse(j) \/ Accept(j)
      PROVE  Goal
  BY <1>t, <1>2 DEF UploadAudio, UploadPhoto, UnreadablePhoto, PhotosDone, Put, Goto,
     CleanupUpload, Refuse, Accept, Answer
<1>3. ASSUME NEW j \in Jobs, InsertJob(j) \/ FailUnqueuedJob(j) PROVE Goal
  BY <1>t, <1>3 DEF InsertJob, FailUnqueuedJob, CreateJob, NullJobURLsAndFail, Goto
<1>4. ASSUME NEW j \in Jobs, EnqueueTask(j) PROVE Goal
  BY <1>t, <1>4 DEF EnqueueTask, Enqueue, Goto
<1>5. ASSUME ApiCrash PROVE Goal
  BY <1>t, <1>5 DEF ApiCrash
<1> QED
  BY <1>1, <1>2, <1>3, <1>4, <1>5 DEF SubmitNext, HandlerStep

LEMMA DeliveryKept ==
  ASSUME WorkersStayUp, Inv, DeliveryInv, [Next]_vars
  PROVE  DeliveryInv'
<1>t. /\ at \in [Workers -> Handling \cup Returned \cup {"idle"}]
      /\ job \in [Workers -> Jobs \cup {NoJob}]
      /\ attempt \in [Workers -> 0..MaxRetry]
      /\ leased \in [Workers -> BOOLEAN]
      /\ task \in [Jobs -> TaskStates] /\ retried \in [Jobs -> 0..MaxRetry]
  BY DEF Inv, TypeOK, StoreTypeOK, WorkerTypeOK
<1> USE DEF DeliveryInv, Busy, Holds
<1>1. CASE SubmitNext /\ UNCHANGED workerVars
  BY <1>1, <1>t, SubmitShape DEF workerVars, localVars
<1>2. ASSUME NEW w \in Workers, NEW j \in Jobs, Dequeue(w, j), UNCHANGED submitVars
      PROVE  DeliveryInv'
  <2>1. /\ at' = [at EXCEPT ![w] = "load"] /\ job' = [job EXCEPT ![w] = j]
        /\ attempt' = [attempt EXCEPT ![w] = retried[j]] /\ leased' = [leased EXCEPT ![w] = TRUE]
        /\ task' = [task EXCEPT ![j] = "active"] /\ UNCHANGED <<retried, pc>>
        /\ task[j] = "waiting" /\ at[w] = "idle"
    BY <1>2 DEF Dequeue, submitVars
  <2>2. \A v \in Workers : at[v] # "idle" => job[v] # j
    BY <2>1
  <2>3. /\ \A v \in Workers : at'[v] # "idle" =>
             leased'[v] /\ job'[v] \in Jobs /\ task'[job'[v]] = "active" /\ attempt'[v] = retried'[job'[v]]
        /\ \A v \in Workers : leased'[v] => at'[v] # "idle"
    BY <1>t, <2>1, <2>2
  <2>4. \A u, v \in Workers : u # v /\ at'[u] # "idle" /\ at'[v] # "idle" => job'[u] # job'[v]
    BY <1>t, <2>1, <2>2
  <2>5. \A i \in Jobs : task'[i] = "active" => \E v \in Workers : at'[v] # "idle" /\ job'[v] = i
    <3> SUFFICES ASSUME NEW i \in Jobs, task'[i] = "active"
                 PROVE  \E v \in Workers : at'[v] # "idle" /\ job'[v] = i
      OBVIOUS
    <3>1. CASE i = j
      BY <1>t, <2>1, <3>1
    <3>2. CASE i # j
      <4>1. PICK v \in Workers : at[v] # "idle" /\ job[v] = i
        BY <1>t, <2>1, <3>2
      <4> QED
        BY <1>t, <2>1, <4>1
    <3> QED
      BY <3>1, <3>2
  <2> QED
    BY <1>t, <2>1, <2>3, <2>4, <2>5 DEF BeforeEnqueue
<1>3. ASSUME NEW w \in Workers, GoesOn(w), UNCHANGED submitVars PROVE DeliveryInv'
  <2>1. /\ \A v \in Workers : at'[v] # "idle" <=> at[v] # "idle"
        /\ UNCHANGED <<job, attempt, leased, task, retried, pc>>
    BY <1>3 DEF GoesOn, submitVars, queueVars
  <2> QED
    BY <2>1
<1>4. ASSUME NEW w \in Workers, Ends(w), UNCHANGED submitVars PROVE DeliveryInv'
  <2>1. PICK s \in {"waiting", "archived", "completed"} : task' = [task EXCEPT ![job[w]] = s]
    BY <1>4 DEF Ends
  <2>2. /\ at' = [at EXCEPT ![w] = "idle"] /\ job' = [job EXCEPT ![w] = NoJob]
        /\ attempt' = [attempt EXCEPT ![w] = 0] /\ leased' = [leased EXCEPT ![w] = FALSE]
        /\ at[w] # "idle" /\ job[w] \in Jobs /\ task[job[w]] = "active"
        /\ \A j \in Jobs \ {job[w]} : retried'[j] = retried[j]
        /\ UNCHANGED pc
    BY <1>4 DEF Ends, Release, submitVars
  <2>3. \A v \in Workers \ {w} : at[v] # "idle" => job[v] # job[w]
    BY <2>2
  <2>4. \A j \in Jobs : task'[j] = IF j = job[w] THEN s ELSE task[j]
    BY <1>t, <2>1
  <2>5. \A v \in Workers : at'[v] # "idle" =>
          leased'[v] /\ job'[v] \in Jobs /\ task'[job'[v]] = "active" /\ attempt'[v] = retried'[job'[v]]
    BY <1>t, <2>2, <2>3, <2>4
  <2>6. /\ \A v \in Workers : leased'[v] => at'[v] # "idle"
        /\ \A u, v \in Workers : u # v /\ at'[u] # "idle" /\ at'[v] # "idle" => job'[u] # job'[v]
    BY <1>t, <2>2
  <2>7. \A j \in Jobs : task'[j] = "active" => \E v \in Workers : at'[v] # "idle" /\ job'[v] = j
    <3> SUFFICES ASSUME NEW j \in Jobs, task'[j] = "active"
                 PROVE  \E v \in Workers : at'[v] # "idle" /\ job'[v] = j
      OBVIOUS
    <3>1. j # job[w] /\ task[j] = "active"
      BY <2>4
    <3>2. PICK v \in Workers : at[v] # "idle" /\ job[v] = j
      BY <3>1
    <3> QED
      BY <1>t, <2>2, <3>1, <3>2
  <2> QED
    BY <2>2, <2>4, <2>5, <2>6, <2>7
<1>5. CASE WorkerNext /\ UNCHANGED submitVars
  BY <1>2, <1>3, <1>4, <1>5, WorkerShape, AttemptShape
<1>6. CASE UNCHANGED vars
  BY <1>6 DEF vars, storeVars, queueVars, submitVars, workerVars, localVars
<1> QED
  BY <1>1, <1>5, <1>6 DEF Next

LEMMA DeliveryInit == Init => DeliveryInv
BY DEF Init, StoreInit, SubmitInit, WorkerInit, DeliveryInv, Busy

-----------------------------------------------------------------------------
(***************************************************************************)
(* NoDuplicateChildren.  A line is there only once somebody inserts, and    *)
(* whoever inserts has the task to itself, starts from a list of its own    *)
(* and strikes each line off it; then the task is completed.               *)
(***************************************************************************)
ListedOnce(j, i) ==
  /\ children[j][i] <= 1
  /\ children[j][i] = 1 =>
       \/ task[j] = "completed"
       \/ \E w \in Workers : at[w] = "insert" /\ job[w] = j /\ i \notin todo[w]

ChildrenInv == \A j \in Jobs, i \in Items : ListedOnce(j, i)

LEMMA ChildrenKept ==
  ASSUME WorkersStayUp, Inv, DeliveryInv, ChildrenInv, [Next]_vars
  PROVE  ChildrenInv'
<1>t. /\ at \in [Workers -> Handling \cup Returned \cup {"idle"}]
      /\ job \in [Workers -> Jobs \cup {NoJob}]
      /\ todo \in [Workers -> SUBSET Items]
      /\ task \in [Jobs -> TaskStates]
      /\ children \in [Jobs -> [Items -> 0..Many]]
      /\ \A w \in Workers : at[w] # "idle" =>
           leased[w] /\ job[w] \in Jobs /\ task[job[w]] = "active"
      /\ \A w, v \in Workers : w # v /\ at[w] # "idle" /\ at[v] # "idle" => job[w] # job[v]
  BY DEF Inv, TypeOK, StoreTypeOK, WorkerTypeOK, DeliveryInv, Busy, Holds
<1>i. \A j \in Jobs, i \in Items : ListedOnce(j, i)
  BY DEF ChildrenInv
(* Nothing is listed for a busy worker's task but what it has struck off. *)
<1>n. ASSUME NEW w \in Workers, at[w] # "idle", NEW i \in Items, at[w] = "insert" => i \in todo[w]
      PROVE  children[job[w]][i] = 0
  <2>1. job[w] \in Jobs /\ task[job[w]] = "active"
    BY <1>n, <1>t
  <2>2. ListedOnce(job[w], i) /\ children[job[w]][i] \in 0..2
    BY <1>i, <1>t, <2>1 DEF Many
  <2>3. \A v \in Workers : ~(at[v] = "insert" /\ job[v] = job[w] /\ i \notin todo[v])
    BY <1>n, <1>t
  <2>4. children[job[w]][i] # 1
    BY <2>1, <2>2, <2>3 DEF ListedOnce
  <2> QED
    BY <2>2, <2>4 DEF ListedOnce
(* The other tasks keep their lines, their state and their workers. *)
<1>o. ASSUME NEW w \in Workers, at[w] # "idle", NEW j \in Jobs \ {job[w]}, NEW i \in Items,
             children'[j][i] = children[j][i], task'[j] = task[j],
             \A v \in Workers \ {w} : at'[v] = at[v] /\ job'[v] = job[v] /\ todo'[v] = todo[v]
      PROVE  ListedOnce(j, i)'
  BY <1>i, <1>o, <1>t DEF ListedOnce
<1>1. CASE SubmitNext /\ UNCHANGED workerVars
  BY <1>1, <1>i, SubmitShape DEF ChildrenInv, ListedOnce, workerVars, localVars
<1>2. ASSUME NEW w \in Workers, NEW j \in Jobs, Dequeue(w, j) PROVE ChildrenInv'
  <2>1. /\ at' = [at EXCEPT ![w] = "load"] /\ job' = [job EXCEPT ![w] = j]
        /\ task' = [task EXCEPT ![j] = "active"] /\ UNCHANGED <<todo, children>>
        /\ task[j] = "waiting" /\ at[w] = "idle"
    BY <1>2 DEF Dequeue, dbVars
  <2> QED
    BY <1>i, <1>t, <2>1 DEF ChildrenInv, ListedOnce
<1>3. ASSUME NEW w \in Workers, InsertMaterial(w) \/ InsertRecommendation(w) \/ InsertTag(w)
      PROVE  ChildrenInv'
  <2>1. /\ at[w] = "insert" /\ job[w] \in Jobs /\ leased[w]
        /\ UNCHANGED task
    BY <1>3, <1>t DEF InsertMaterial, InsertRecommendation, InsertTag, queueVars
  <2>2. PICK i \in todo[w] : \E o : (AddChild(job[w], i, o) \/ CreateJobTag(job[w], i, o)) /\ Inserted(w, i)
    BY <1>3 DEF InsertMaterial, InsertRecommendation, InsertTag
  <2>3. todo' = [todo EXCEPT ![w] = @ \ {i}] /\ UNCHANGED <<at, job>>
    BY <2>1, <2>2 DEF Inserted
  <2>4. i \in Items /\ children[job[w]][i] = 0
    BY <1>n, <1>t, <2>1, <2>2
  <2>5. children' = [children EXCEPT ![job[w]][i] = 1] \/ UNCHANGED children
    BY <1>t, <2>2, <2>4 DEF AddChild, CreateJobTag, Many
  <2> SUFFICES ASSUME NEW j \in Jobs, NEW k \in Items PROVE ListedOnce(j, k)'
    BY DEF ChildrenInv
  <2>6. CASE j # job[w]
    BY <1>o, <1>t, <2>1, <2>3, <2>5, <2>6
  <2>7. CASE j = job[w] /\ k # i
    <3>1. children'[j][k] = children[j][k]
      BY <1>t, <2>1, <2>5, <2>7
    <3> QED
      BY <1>i, <1>t, <2>1, <2>3, <2>7, <3>1 DEF ListedOnce
  <2>8. CASE j = job[w] /\ k = i
    <3>1. children'[j][k] \in {0, 1}
      BY <1>t, <2>1, <2>4, <2>5, <2>8
    <3>2. at'[w] = "insert" /\ job'[w] = j /\ k \notin todo'[w]
      BY <1>t, <2>1, <2>3, <2>8
    <3> QED
      BY <3>1, <3>2 DEF ListedOnce
  <2> QED
    BY <2>6, <2>7, <2>8
<1>4. ASSUME NEW w \in Workers, Succeed(w) PROVE ChildrenInv'
  <2>1. /\ task' = [task EXCEPT ![job[w]] = "completed"] /\ Release(w) /\ UNCHANGED children
        /\ at[w] = "insert" /\ job[w] \in Jobs
    BY <1>4, <1>t DEF Succeed, dbVars
  <2>2. \A v \in Workers \ {w} : at'[v] = at[v] /\ job'[v] = job[v] /\ todo'[v] = todo[v]
    BY <2>1 DEF Release
  <2> SUFFICES ASSUME NEW j \in Jobs, NEW k \in Items PROVE ListedOnce(j, k)'
    BY DEF ChildrenInv
  <2>3. CASE j # job[w]
    BY <1>o, <1>t, <2>1, <2>2, <2>3
  <2>4. CASE j = job[w]
    BY <1>i, <1>t, <2>1, <2>4 DEF ListedOnce
  <2> QED
    BY <2>3, <2>4
(* Before the inserts there is no line, and these steps add none. *)
<1>5. ASSUME NEW w \in Workers, at[w] \notin {"idle", "insert"}, UNCHANGED children,
             \A j \in Jobs \ {job[w]} : task'[j] = task[j],
             \A v \in Workers \ {w} : at'[v] = at[v] /\ job'[v] = job[v] /\ todo'[v] = todo[v]
      PROVE  ChildrenInv'
  <2> SUFFICES ASSUME NEW j \in Jobs, NEW k \in Items PROVE ListedOnce(j, k)'
    BY DEF ChildrenInv
  <2>1. CASE j # job[w]
    BY <1>o, <1>5, <2>1
  <2>2. CASE j = job[w]
    BY <1>n, <1>5, <2>2 DEF ListedOnce
  <2> QED
    BY <2>1, <2>2
<1>6. ASSUME NEW w \in Workers, AttemptStep(w), ~Succeed(w),
             ~(InsertMaterial(w) \/ InsertRecommendation(w) \/ InsertTag(w)), UNCHANGED submitVars
      PROVE  ChildrenInv'
  <2>1. at[w] \notin {"idle", "insert"} /\ UNCHANGED children
    BY <1>6 DEF AttemptStep, Load, MarkTranscribing, Download, Transcribe, StoreTranscript,
       MarkExtracting, Extract, Complete, HandleError, Settle, MarkIfLast, UpdateJobStatus,
       UpdateJobTranscript, UpdateJobPipeline, storeVars, dbVars
  <2>2. GoesOn(w) \/ Ends(w)
    BY <1>6, AttemptShape
  <2>3. CASE Ends(w)
    BY <1>5, <1>t, <2>1, <2>3 DEF Ends, Release
  <2>4. CASE GoesOn(w)
    <3>1. \A v \in Workers \ {w} : todo'[v] = todo[v]
      BY <1>t, <1>6, <2>1, <2>4 DEF AttemptStep, Load, MarkTranscribing, Download, Transcribe,
         StoreTranscript, MarkExtracting, Extract, Complete, HandleError, Settle, Proceed,
         Release, GoesOn, localVars
    <3> QED
      BY <1>5, <2>1, <2>4, <3>1 DEF GoesOn, queueVars
  <2> QED
    BY <2>2, <2>3, <2>4
<1>7. CASE WorkerNext /\ UNCHANGED submitVars
  BY <1>2, <1>3, <1>4, <1>6, <1>7, WorkerShape
<1>8. CASE UNCHANGED vars
  BY <1>8, <1>i DEF vars, storeVars, dbVars, queueVars, workerVars, localVars, ChildrenInv, ListedOnce
<1> QED
  BY <1>1, <1>7, <1>8 DEF Next

(* While workers stay up and keep their leases, a report lists no line      *)
(* twice, whatever calls fail or lie and however often the task is retried: *)
(* a line is inserted after the last step that can fail (saveResults).     *)
THEOREM NoDuplicates ==
  ASSUME WorkersStayUp
  PROVE  Spec => []NoDuplicateChildren
<1>1. Init => ChildrenInv
  BY DEF Init, StoreInit, ChildrenInv, ListedOnce
<1>2. Inv /\ DeliveryInv /\ ChildrenInv /\ [Next]_vars => DeliveryInv' /\ ChildrenInv'
  BY DeliveryKept, ChildrenKept
<1>3. ChildrenInv => NoDuplicateChildren
  BY DEF ChildrenInv, ListedOnce, NoDuplicateChildren
<1> QED
  BY <1>1, <1>2, <1>3, Invariance, DeliveryInit, PTL DEF Spec

-----------------------------------------------------------------------------
(***************************************************************************)
(* StatusFollowsPipeline.  The status of a row in the pipeline is known     *)
(* from where its request, its task and the worker on it are: nobody else   *)
(* writes it in between.                                                   *)
(***************************************************************************)
Working == {"queued", "transcribing", "transcribed", "extracting"}

(* Where an attempt at retry count n may be while the row says s. *)
Stage(a, s, n) ==
  /\ a \in {"load", "markTranscribing", "handleError"} => s \in Working
  /\ a \in {"download", "transcribe", "storeTranscript"} => s = "transcribing"
  /\ a = "markExtracting" => s = "transcribed"
  /\ a \in {"extract", "complete"} => s = "extracting"
  /\ a = "insert" => s = "completed"
  /\ a = "settle" => s \in Working \/ (s = "failed" /\ n = MaxRetry)

WorkerStage(w) == Stage(at[w], status[job[w]], attempt[w])

JobStage(j) ==
  /\ pc[j] \in {"idle", "audio", "photos", "insert"} => status[j] = "absent"
  /\ pc[j] \in {"enqueue", "unqueue"} => status[j] = "queued"
  /\ task[j] = "waiting" => status[j] \in Working
  /\ task[j] = "completed" => status[j] = "completed"

StageInv == (\A w \in Workers : WorkerStage(w)) /\ (\A j \in Jobs : JobStage(j))

(* A request moves the status of its own row, and only if it has no task. *)
LEMMA RequestStage ==
  ASSUME NeverLies("redis"), Inv, NEW j \in Jobs, AudioInv(j), JobStage(j),
         Receive(j) \/ Reject(j) \/ HandlerStep(j) \/ Disconnect(j)
  PROVE  /\ JobStage(j)' /\ Follows(status[j], status'[j])
         /\ task[j] # "none" => status'[j] = status[j]
<1> USE DEF Inv, TypeOK, StoreTypeOK, SubmitTypeOK, storeVars, dbVars, rowVars, queueVars,
            AudioInv, NotQueued, JobStage, Follows
<1>1. CASE Receive(j) \/ Reject(j) \/ Disconnect(j)
  BY <1>1 DEF Receive, Reject, Disconnect, InFlight
<1>2. CASE UploadAudio(j) \/ UploadPhoto(j) \/ UnreadablePhoto(j) \/ PhotosDone(j)
  BY <1>2 DEF UploadAudio, UploadPhoto, UnreadablePhoto, PhotosDone, Put, Goto
<1>3. CASE InsertJob(j)
  <2>1. PICK o : CreateJob(j, uploaded[j] \ {AudioKey}, o) /\ Goto(j, o, "enqueue", "refuse")
    BY <1>3 DEF InsertJob
  <2>2. status[j] = "absent" /\ task[j] = "none" /\ UNCHANGED task
    BY <1>3 DEF InsertJob
  <2>3. CASE Applied(o)
    BY <2>1, <2>2, <2>3 DEF CreateJob, Goto
  <2>4. CASE ~Applied(o)
    BY <2>1, <2>2, <2>4 DEF CreateJob, Goto, Applied
  <2> QED
    BY <2>3, <2>4
<1>4. CASE EnqueueTask(j)
  <2>1. PICK o \in {"ok", "err"} : Enqueue(j, o) /\ Goto(j, o, "accept", "unqueue")
    BY <1>4 DEF EnqueueTask, FreeOutcomes, NeverLies
  <2>2. status[j] = "queued" /\ task[j] = "none" /\ UNCHANGED status
    BY <1>4 DEF EnqueueTask
  <2> QED
    BY <2>1, <2>2 DEF Enqueue, Goto, Applied, Working
<1>5. CASE FailUnqueuedJob(j)
  <2>1. PICK o : NullJobURLsAndFail(j, o) /\ Goto(j, o, "refuse", "refuse")
    BY <1>5 DEF FailUnqueuedJob
  <2>2. status[j] = "queued" /\ task[j] = "none" /\ UNCHANGED task
    BY <1>5 DEF FailUnqueuedJob
  <2> QED
    BY <2>1, <2>2 DEF NullJobURLsAndFail, Goto
<1>6. CASE CleanupUpload(j) \/ Refuse(j) \/ Accept(j)
  BY <1>6 DEF CleanupUpload, Refuse, Accept, Answer, Goto
<1> QED
  BY <1>1, <1>2, <1>3, <1>4, <1>5, <1>6 DEF HandlerStep

LEMMA SubmitStage ==
  ASSUME NeverLies("redis"), Inv, \A j \in Jobs : AudioInv(j), \A j \in Jobs : JobStage(j),
         SubmitNext
  PROVE  \A j \in Jobs : /\ JobStage(j)' /\ Follows(status[j], status'[j])
                         /\ task[j] # "none" => status'[j] = status[j]
<1> SUFFICES ASSUME NEW j \in Jobs
             PROVE  /\ JobStage(j)' /\ Follows(status[j], status'[j])
                    /\ task[j] # "none" => status'[j] = status[j]
  OBVIOUS
<1>1. ASSUME NEW i \in Jobs, Receive(i) \/ Reject(i) \/ HandlerStep(i) \/ Disconnect(i), i # j
      PROVE  UNCHANGED <<pc[j], task[j], status[j]>>
  BY <1>1, OthersFiles
<1>2. CASE ApiCrash
  BY <1>2 DEF ApiCrash, InFlight, JobStage, Follows, storeVars, dbVars, rowVars, queueVars,
     Inv, TypeOK, SubmitTypeOK
<1> QED
  BY <1>1, <1>2, RequestStage DEF SubmitNext, JobStage, Follows

(* An attempt moves the status of its own row, one stage at a time. *)
LEMMA AttemptStage ==
  ASSUME NeverLies("db"), Inv, DeliveryInv, NEW w \in Workers, WorkerStage(w),
         AttemptStep(w), UNCHANGED submitVars
  PROVE  /\ \A j \in Jobs \ {job[w]} : status'[j] = status[j]
         /\ Follows(status[job[w]], status'[job[w]])
         /\ GoesOn(w) => WorkerStage(w)'
         /\ Succeed(w) => status'[job[w]] = "completed" /\ task' = [task EXCEPT ![job[w]] = "completed"]
         /\ Settle(w) =>
              \/ task' = [task EXCEPT ![job[w]] = "archived"]
              \/ task' = [task EXCEPT ![job[w]] = "waiting"] /\ status'[job[w]] \in Working
<1> DEFINE Goal == /\ \A j \in Jobs \ {job[w]} : status'[j] = status[j]
                   /\ Follows(status[job[w]], status'[job[w]])
                   /\ GoesOn(w) => WorkerStage(w)'
<1>t. /\ at \in [Workers -> Handling \cup Returned \cup {"idle"}]
      /\ status \in [Jobs -> PipelineStatus \cup {"absent"}]
      /\ attempt \in [Workers -> 0..MaxRetry] /\ retried \in [Jobs -> 0..MaxRetry]
      /\ Busy(w) => Holds(w)
      /\ Stage(at[w], status[job[w]], attempt[w])
  BY DEF Inv, TypeOK, StoreTypeOK, WorkerTypeOK, DeliveryInv, WorkerStage
<1>b. Busy(w) /\ Holds(w)
  BY <1>t DEF AttemptStep, Load, MarkTranscribing, Download, Transcribe, StoreTranscript,
     MarkExtracting, Extract, Complete, InsertMaterial, InsertRecommendation, InsertTag,
     Succeed, HandleError, Settle, Busy
<1>o. AttemptOutcomes(w, "db") \cup (AttemptOutcomes(w, "provider") \ {"lost"}) \subseteq {"ok", "err"}
  BY <1>b DEF AttemptOutcomes, NeverLies, Holds
<1>g. GoesOn(w) => UNCHANGED <<job, attempt>>
  BY DEF GoesOn
(* A call that sets the status on success, and the next step. *)
<1>u. ASSUME NEW a, NEW s \in PipelineStatus, NEW o \in {"ok", "err"},
             o = "ok" => status' = [status EXCEPT ![job[w]] = s],
             o = "err" => UNCHANGED status,
             at'[w] = IF o = "ok" THEN a ELSE "handleError",
             Follows(status[job[w]], s),
             Stage(a, s, attempt[w]),
             status[job[w]] \in Working
      PROVE  Goal
  <2>1. CASE o = "ok"
    BY <1>b, <1>g, <1>t, <1>u, <2>1 DEF WorkerStage, Holds, Follows
  <2>2. CASE o = "err"
    BY <1>b, <1>g, <1>t, <1>u, <2>2 DEF WorkerStage, Stage, Holds, Follows
  <2> QED
    BY <2>1, <2>2
<1>w. /\ {"transcribing", "transcribed", "extracting"} \subseteq Working
      /\ Working \cup {"completed", "failed"} \subseteq PipelineStatus
      /\ \A s \in Working : Follows(s, s) /\ Follows(s, "transcribing") /\ Follows(s, "failed")
  BY DEF Working, PipelineStatus, Follows
<1>1. CASE Load(w) \/ Download(w) \/ Transcribe(w) \/ Extract(w)
  <2>1. UNCHANGED status
    BY <1>1 DEF Load, Download, Transcribe, Extract, storeVars, dbVars, rowVars
  <2>2. GoesOn(w) => Stage(at'[w], status[job[w]], attempt[w])
    BY <1>1, <1>t, <1>w DEF Load, Download, Transcribe, Extract, Continue, Stage
  <2>3. Goal
    BY <1>g, <2>1, <2>2 DEF Follows, WorkerStage
  <2> QED
    BY <1>1, <2>3 DEF Load, Download, Transcribe, Extract, Succeed, Settle
<1>2. CASE MarkTranscribing(w)
  <2>1. PICK o \in {"ok", "err"} :
          UpdateJobStatus(job[w], "transcribing", o) /\ Proceed(w, o, "download")
    BY <1>2, <1>o DEF MarkTranscribing
  <2>2. at'[w] = IF o = "ok" THEN "download" ELSE "handleError"
    BY <1>b, <1>t, <2>1 DEF Proceed, Continue, Holds
  <2>3. /\ o = "ok" => status' = [status EXCEPT ![job[w]] = "transcribing"]
        /\ o = "err" => UNCHANGED status
    BY <2>1 DEF UpdateJobStatus, Applied, dbVars, rowVars
  <2>4. status[job[w]] \in Working
    BY <1>2, <1>t DEF MarkTranscribing, Stage
  <2>5. Goal
    BY <1>u, <1>w, <2>2, <2>3, <2>4 DEF Stage
  <2> QED
    BY <1>2, <2>5 DEF MarkTranscribing, Succeed, Settle
<1>3. CASE StoreTranscript(w)
  <2>1. PICK o \in {"ok", "err"} :
          UpdateJobTranscript(job[w], text[w], o) /\ Proceed(w, o, "markExtracting")
    BY <1>3, <1>o DEF StoreTranscript
  <2>2. at'[w] = IF o = "ok" THEN "markExtracting" ELSE "handleError"
    BY <1>b, <1>t, <2>1 DEF Proceed, Continue, Holds
  <2>3. /\ o = "ok" => status' = [status EXCEPT ![job[w]] = "transcribed"]
        /\ o = "err" => UNCHANGED status
    BY <2>1 DEF UpdateJobTranscript, Applied, dbVars, rowVars
  <2>4. status[job[w]] = "transcribing"
    BY <1>3, <1>t DEF StoreTranscript, Stage
  <2>5. Goal
    BY <1>u, <1>w, <2>2, <2>3, <2>4 DEF Stage, Follows
  <2> QED
    BY <1>3, <2>5 DEF StoreTranscript, Succeed, Settle
<1>4. CASE MarkExtracting(w)
  <2>1. PICK o \in {"ok", "err"} :
          UpdateJobStatus(job[w], "extracting", o) /\ Proceed(w, o, "extract")
    BY <1>4, <1>o DEF MarkExtracting
  <2>2. at'[w] = IF o = "ok" THEN "extract" ELSE "handleError"
    BY <1>b, <1>t, <2>1 DEF Proceed, Continue, Holds
  <2>3. /\ o = "ok" => status' = [status EXCEPT ![job[w]] = "extracting"]
        /\ o = "err" => UNCHANGED status
    BY <2>1 DEF UpdateJobStatus, Applied, dbVars, rowVars
  <2>4. status[job[w]] = "transcribed"
    BY <1>4, <1>t DEF MarkExtracting, Stage
  <2>5. Goal
    BY <1>u, <1>w, <2>2, <2>3, <2>4 DEF Stage, Follows
  <2> QED
    BY <1>4, <2>5 DEF MarkExtracting, Succeed, Settle
<1>5. CASE Complete(w)
  <2>1. PICK o \in {"ok", "err"} :
          UpdateJobPipeline(job[w], text[w], o) /\ Proceed(w, o, "insert")
    BY <1>5, <1>o DEF Complete
  <2>2. at'[w] = IF o = "ok" THEN "insert" ELSE "handleError"
    BY <1>b, <1>t, <2>1 DEF Proceed, Continue, Holds
  <2>3. /\ o = "ok" => status' = [status EXCEPT ![job[w]] = "completed"]
        /\ o = "err" => UNCHANGED status
    BY <2>1 DEF UpdateJobPipeline, Applied, dbVars, rowVars
  <2>4. status[job[w]] = "extracting"
    BY <1>5, <1>t DEF Complete, Stage
  <2>5. Goal
    BY <1>u, <1>w, <2>2, <2>3, <2>4 DEF Stage, Follows
  <2> QED
    BY <1>5, <2>5 DEF Complete, Succeed, Settle
<1>6. CASE InsertMaterial(w) \/ InsertRecommendation(w) \/ InsertTag(w)
  <2>1. UNCHANGED <<status, at>> /\ todo[w] # {} /\ at[w] = "insert"
    BY <1>6, <1>b DEF InsertMaterial, InsertRecommendation, InsertTag, AddChild, CreateJobTag,
       Inserted, rowVars, Holds
  <2> QED
    BY <1>g, <1>t, <2>1 DEF WorkerStage, Follows, Succeed, Settle
<1>7. CASE Succeed(w)
  <2>1. UNCHANGED status /\ at'[w] = "idle" /\ status[job[w]] = "completed" /\ at[w] = "insert"
    BY <1>7, <1>t DEF Succeed, Release, Stage, dbVars, rowVars
  <2> QED
    BY <1>7, <2>1 DEF Follows, GoesOn, Succeed, Settle
<1>8. CASE HandleError(w)
  <2>1. at'[w] = "settle" /\ status[job[w]] \in Working
    BY <1>8, <1>t DEF HandleError, Stage
  <2>2. \/ UNCHANGED status
        \/ attempt[w] = MaxRetry /\ status' = [status EXCEPT ![job[w]] = "failed"]
    <3>1. CASE attempt[w] < MaxRetry
      BY <1>8, <3>1 DEF HandleError, MarkIfLast, dbVars, rowVars
    <3>2. CASE ~(attempt[w] < MaxRetry)
      <4>1. PICK o : UpdateJobStatus(job[w], "failed", o)
        BY <1>8, <3>2 DEF HandleError, MarkIfLast
      <4>2. attempt[w] \in 0..MaxRetry
        BY <1>t
      <4>3. attempt[w] = MaxRetry
        BY <3>2, <4>2, StoreAssumption
      <4>4. UNCHANGED status \/ status' = [status EXCEPT ![job[w]] = "failed"]
        BY <4>1 DEF UpdateJobStatus, dbVars, rowVars
      <4> QED
        BY <4>3, <4>4
    <3> QED
      BY <3>1, <3>2
  <2>3. Goal
    BY <1>b, <1>g, <1>t, <1>w, <2>1, <2>2 DEF WorkerStage, Stage, Holds
  <2> QED
    BY <1>8, <2>3 DEF HandleError, Succeed, Settle
<1>9. CASE Settle(w)
  <2>1. UNCHANGED status /\ at'[w] = "idle" /\ RetryOrArchive(job[w], skip[w]) /\ at[w] = "settle"
    BY <1>9, <1>b, <1>t DEF Settle, Release, Holds, dbVars, rowVars
  <2>2. retried[job[w]] >= MaxRetry \/ status[job[w]] \in Working
    BY <1>b, <1>t, <2>1 DEF Stage, Holds
  <2> QED
    BY <2>1, <2>2 DEF Follows, GoesOn, Succeed, RetryOrArchive
<1> QED
  BY <1>1, <1>2, <1>3, <1>4, <1>5, <1>6, <1>7, <1>8, <1>9 DEF AttemptStep

LEMMA StageKept ==
  ASSUME WorkersStayUp, NeverLies("db"), NeverLies("redis"),
         Inv, DeliveryInv, \A j \in Jobs : AudioInv(j), StageInv, [Next]_vars
  PROVE  StageInv' /\ \A j \in Jobs : Follows(status[j], status'[j])
<1>t. /\ at \in [Workers -> Handling \cup Returned \cup {"idle"}]
      /\ job \in [Workers -> Jobs \cup {NoJob}]
      /\ attempt \in [Workers -> 0..MaxRetry]
      /\ task \in [Jobs -> TaskStates]
      /\ \A w \in Workers : at[w] # "idle" => job[w] \in Jobs /\ task[job[w]] = "active"
      /\ \A w, v \in Workers : w # v /\ at[w] # "idle" /\ at[v] # "idle" => job[w] # job[v]
  BY DEF Inv, TypeOK, StoreTypeOK, WorkerTypeOK, DeliveryInv, Busy, Holds
<1>i. /\ \A w \in Workers : WorkerStage(w)
      /\ \A j \in Jobs : JobStage(j)
  BY DEF StageInv
<1>f. \A s : Follows(s, s) /\ \A n : Stage("idle", s, n)
  BY DEF Follows, Stage
(* A worker stays at its stage while its row and the worker itself do. *)
<1>v. ASSUME NEW v \in Workers, UNCHANGED <<at[v], job[v], attempt[v]>>,
             at[v] # "idle" => status'[job[v]] = status[job[v]]
      PROVE  WorkerStage(v)'
  <2>1. CASE at[v] = "idle"
    BY <1>f, <1>v, <2>1 DEF WorkerStage
  <2>2. CASE at[v] # "idle"
    BY <1>i, <1>v, <2>2 DEF WorkerStage
  <2> QED
    BY <2>1, <2>2
<1>1. CASE SubmitNext /\ UNCHANGED workerVars
  <2>1. \A j \in Jobs : /\ JobStage(j)' /\ Follows(status[j], status'[j])
                        /\ task[j] # "none" => status'[j] = status[j]
    BY <1>1, <1>i, SubmitStage
  <2>2. \A v \in Workers : WorkerStage(v)'
    BY <1>1, <1>t, <1>v, <2>1 DEF workerVars, localVars
  <2> QED
    BY <2>1, <2>2 DEF StageInv
<1>2. ASSUME NEW w \in Workers, NEW j \in Jobs, Dequeue(w, j), UNCHANGED submitVars
      PROVE  StageInv' /\ \A i \in Jobs : Follows(status[i], status'[i])
  <2>1. /\ at' = [at EXCEPT ![w] = "load"] /\ job' = [job EXCEPT ![w] = j]
        /\ attempt' = [attempt EXCEPT ![w] = retried[j]]
        /\ task' = [task EXCEPT ![j] = "active"] /\ UNCHANGED <<status, pc>>
        /\ task[j] = "waiting"
    BY <1>2 DEF Dequeue, dbVars, rowVars, submitVars
  <2>2. \A v \in Workers \ {w} : WorkerStage(v)'
    BY <1>v, <2>1
  <2>3. status[j] \in Working
    BY <1>i, <2>1 DEF JobStage
  <2>4. WorkerStage(w)'
    BY <1>t, <2>1, <2>3 DEF WorkerStage, Stage
  <2>5. \A i \in Jobs : JobStage(i)'
    BY <1>i, <1>t, <2>1 DEF JobStage
  <2> QED
    BY <1>f, <2>1, <2>2, <2>4, <2>5 DEF StageInv
<1>3. ASSUME NEW w \in Workers, AttemptStep(w), UNCHANGED submitVars
      PROVE  StageInv' /\ \A i \in Jobs : Follows(status[i], status'[i])
  <2>1. (GoesOn(w) /\ ~Succeed(w) /\ ~Settle(w)) \/ (Ends(w) /\ (Succeed(w) \/ Settle(w)))
    BY <1>3, AttemptShape
  <2>2. /\ \A j \in Jobs \ {job[w]} : status'[j] = status[j]
        /\ Follows(status[job[w]], status'[job[w]])
        /\ GoesOn(w) => WorkerStage(w)'
        /\ Succeed(w) => status'[job[w]] = "completed" /\ task' = [task EXCEPT ![job[w]] = "completed"]
        /\ Settle(w) =>
             \/ task' = [task EXCEPT ![job[w]] = "archived"]
             \/ task' = [task EXCEPT ![job[w]] = "waiting"] /\ status'[job[w]] \in Working
    BY <1>3, <1>i, AttemptStage
  <2>3. \A i \in Jobs : Follows(status[i], status'[i])
    BY <1>f, <2>2
  <2>4. at[w] # "idle" /\ job[w] \in Jobs /\ task[job[w]] = "active"
    BY <1>t, <2>1 DEF GoesOn, Ends, Busy
  <2>5. \A v \in Workers \ {w} : UNCHANGED <<at[v], job[v], attempt[v]>>
    BY <1>t, <2>1 DEF GoesOn, Ends, Release
  <2>6. \A v \in Workers \ {w} : WorkerStage(v)'
    BY <1>t, <1>v, <2>2, <2>4, <2>5
  <2>7. WorkerStage(w)'
    <3>1. CASE Ends(w)
      <4>1. at'[w] = "idle"
        BY <1>t, <3>1 DEF Ends, Release
      <4> QED
        BY <1>f, <4>1 DEF WorkerStage
    <3> QED
      BY <2>1, <2>2, <3>1
  <2>8. ASSUME NEW i \in Jobs \ {job[w]} PROVE JobStage(i)'
    <3>1. task'[i] = task[i] /\ pc'[i] = pc[i]
      BY <1>3, <1>t, <2>1, <2>8 DEF GoesOn, Ends, queueVars, submitVars
    <3> QED
      BY <1>i, <2>2, <3>1 DEF JobStage
  <2>9. ASSUME NEW j \in Jobs, j = job[w] PROVE JobStage(j)'
    <3>1. pc'[j] \notin {"idle", "audio", "photos", "insert", "enqueue", "unqueue"}
      BY <1>3, <2>4, <2>9 DEF AudioInv, NotQueued, submitVars
    <3>2. \/ task'[j] \in {"active", "archived"}
          \/ task'[j] = "waiting" /\ status'[j] \in Working
          \/ task'[j] = "completed" /\ status'[j] = "completed"
      BY <1>t, <2>1, <2>2, <2>4, <2>9 DEF GoesOn, queueVars
    <3> QED
      BY <3>1, <3>2 DEF JobStage
  <2> QED
    BY <2>3, <2>6, <2>7, <2>8, <2>9 DEF StageInv
<1>4. CASE WorkerNext /\ UNCHANGED submitVars
  BY <1>2, <1>3, <1>4, WorkerShape
<1>5. CASE UNCHANGED vars
  BY <1>5, <1>f, <1>i DEF vars, storeVars, dbVars, rowVars, queueVars, submitVars, workerVars,
     localVars, StageInv, WorkerStage, JobStage
<1> QED
  BY <1>1, <1>4, <1>5 DEF Next

LEMMA StageInit == Init => StageInv
BY DEF Init, StoreInit, SubmitInit, WorkerInit, StageInv, WorkerStage, Stage, JobStage

(* While workers stay up and neither database nor queue loses a reply, the  *)
(* status of a job moves along the pipeline and its outcome is final: no    *)
(* retry and no error handler takes a "completed" or "failed" back.        *)
THEOREM StatusMoves ==
  ASSUME WorkersStayUp, NeverLies("db"), NeverLies("redis")
  PROVE  Spec => StatusFollowsPipeline
<1>1. Init => (\A j \in Jobs : AudioInv(j))
  BY DEF Init, StoreInit, SubmitInit, AudioInv
<1>2. Inv /\ DeliveryInv /\ (\A j \in Jobs : AudioInv(j)) /\ StageInv /\ [Next]_vars =>
        /\ DeliveryInv' /\ (\A j \in Jobs : AudioInv(j))' /\ StageInv'
        /\ [\A j \in Jobs : Follows(status[j], status'[j])]_vars
  BY DeliveryKept, AudioKept, StageKept
<1> QED
  BY <1>1, <1>2, Invariance, DeliveryInit, StageInit, PTL DEF Spec, StatusFollowsPipeline

-----------------------------------------------------------------------------
(***************************************************************************)
(* ArchivedIsFailed.  A task is archived after its last attempt, and by     *)
(* then the error handler has marked the job; a task finds its audio, so   *)
(* that no attempt asks to skip the rest.                                  *)
(***************************************************************************)
LastIsMarked(w) ==
  /\ ~skip[w]
  /\ at[w] = "settle" /\ attempt[w] = MaxRetry => status[job[w]] = "failed"

ArchiveInv == (\A w \in Workers : LastIsMarked(w)) /\ ArchivedIsFailed

(* A request leaves the row of a job alone that has a task, ... *)
LEMMA RowsOfTasks ==
  ASSUME Inv, \A j \in Jobs : AudioInv(j), SubmitNext
  PROVE  \A j \in Jobs : task[j] # "none" => status'[j] = status[j]
<1> SUFFICES ASSUME NEW j \in Jobs, task[j] # "none" PROVE status'[j] = status[j]
  OBVIOUS
<1>1. ASSUME NEW i \in Jobs, Receive(i) \/ Reject(i) \/ HandlerStep(i) \/ Disconnect(i)
      PROVE  status'[j] = status[j]
  <2>1. CASE i # j
    BY <1>1, <2>1, OthersFiles
  <2>2. CASE i = j
    <3>1. pc[j] \notin {"insert", "unqueue"}
      BY DEF AudioInv, NotQueued
    <3>2. ~InsertJob(j) /\ ~FailUnqueuedJob(j)
      BY <3>1 DEF InsertJob, FailUnqueuedJob
    <3> QED
      BY <1>1, <2>2, <3>2 DEF HandlerStep, Receive, Reject, Disconnect, UploadAudio, UploadPhoto,
         UnreadablePhoto, PhotosDone, EnqueueTask, CleanupUpload, Refuse, Accept, Answer,
         storeVars, dbVars, rowVars
  <2> QED
    BY <2>1, <2>2
<1>2. CASE ApiCrash
  BY <1>2 DEF ApiCrash, storeVars, dbVars, rowVars
<1> QED
  BY <1>1, <1>2 DEF SubmitNext

(* ... and an attempt every row but that of its own job. *)
LEMMA RowsOfOthers ==
  ASSUME Inv, DeliveryInv, NEW w \in Workers, AttemptStep(w)
  PROVE  /\ \A j \in Jobs \ {job[w]} : status'[j] = status[j]
         /\ \A v \in Workers \ {w} : skip'[v] = skip[v]
<1>t. skip \in [Workers -> BOOLEAN] /\ status \in [Jobs -> PipelineStatus \cup {"absent"}]
  BY DEF Inv, TypeOK, StoreTypeOK, WorkerTypeOK
<1> USE DEF storeVars, dbVars, rowVars, localVars, Release
<1>1. CASE Load(w) \/ Download(w) \/ Transcribe(w) \/ Extract(w) \/ Succeed(w) \/ Settle(w)
  BY <1>t, <1>1 DEF Load, Download, Transcribe, Extract, Succeed, Settle
<1>2. CASE MarkTranscribing(w) \/ StoreTranscript(w) \/ MarkExtracting(w) \/ Complete(w)
  BY <1>t, <1>2 DEF MarkTranscribing, StoreTranscript, MarkExtracting, Complete, UpdateJobStatus,
     UpdateJobTranscript, UpdateJobPipeline, Proceed
<1>3. CASE InsertMaterial(w) \/ InsertRecommendation(w) \/ InsertTag(w)
  BY <1>t, <1>3 DEF InsertMaterial, InsertRecommendation, InsertTag, AddChild, CreateJobTag, Inserted
<1>4. CASE HandleError(w)
  BY <1>t, <1>4 DEF HandleError, MarkIfLast, UpdateJobStatus
<1> QED
  BY <1>1, <1>2, <1>3, <1>4 DEF AttemptStep

LEMMA AttemptArchive ==
  ASSUME "db" \notin FailingCalls, Inv, DeliveryInv, \A j \in Jobs : AudioInv(j),
         NEW w \in Workers, LastIsMarked(w), AttemptStep(w), UNCHANGED submitVars
  PROVE  /\ GoesOn(w) => LastIsMarked(w)'
         /\ Settle(w) => task'[job[w]] = "waiting" \/ status'[job[w]] = "failed"
<1>t. /\ at \in [Workers -> Handling \cup Returned \cup {"idle"}]
      /\ status \in [Jobs -> PipelineStatus \cup {"absent"}] /\ task \in [Jobs -> TaskStates]
      /\ attempt \in [Workers -> 0..MaxRetry] /\ retried \in [Jobs -> 0..MaxRetry]
      /\ ~skip[w] /\ (Busy(w) => Holds(w))
      /\ MaxRetry \in Nat
  BY StoreAssumption DEF Inv, TypeOK, StoreTypeOK, WorkerTypeOK, DeliveryInv, LastIsMarked
<1>1. CASE Load(w)
  <2>1. at[w] = "load" /\ Holds(w)
    BY <1>1, <1>t DEF Load, Busy
  <2>2. audioUrl[job[w]]
    BY <2>1 DEF Holds, AudioInv
  <2>3. UNCHANGED skip /\ at'[w] \in {"markTranscribing", "handleError"}
    BY <1>1, <1>t, <2>2 DEF Load, Continue
  <2> QED
    BY <1>1, <1>t, <2>1, <2>3 DEF LastIsMarked, Settle
<1>2. CASE HandleError(w)
  <2>1. Holds(w) /\ at[w] = "handleError" /\ UNCHANGED <<attempt, skip, job>>
    BY <1>2, <1>t DEF HandleError, Busy, localVars
  <2>2. attempt[w] = MaxRetry => status'[job[w]] = "failed"
    <3>1. SUFFICES ASSUME attempt[w] = MaxRetry PROVE status'[job[w]] = "failed"
      OBVIOUS
    <3>2. ~(attempt[w] < MaxRetry)
      BY <1>t, <3>1
    <3>3. UpdateJobStatus(job[w], "failed", "ok")
      BY <1>2, <3>2 DEF HandleError, MarkIfLast
    <3> QED
      BY <1>t, <2>1, <3>3 DEF UpdateJobStatus, Applied, Holds
  <2> QED
    BY <1>t, <2>1, <2>2 DEF LastIsMarked, Settle
<1>3. CASE Settle(w)
  <2>1. at[w] = "settle" /\ Holds(w)
    BY <1>3, <1>t DEF Settle, Busy
  <2>2. UNCHANGED status /\ RetryOrArchive(job[w], skip[w]) /\ at'[w] = "idle"
    BY <1>3, <1>t, <2>1 DEF Settle, Release, Holds, dbVars, rowVars
  <2>3. CASE retried[job[w]] >= MaxRetry
    <3>1. attempt[w] = MaxRetry
      BY <1>t, <2>1, <2>3 DEF Holds
    <3> QED
      BY <2>1, <2>2, <3>1 DEF LastIsMarked, GoesOn
  <2>4. CASE ~(retried[job[w]] >= MaxRetry)
    BY <1>t, <2>1, <2>2, <2>4 DEF RetryOrArchive, Holds, GoesOn
  <2> QED
    BY <2>3, <2>4
<1>4. CASE ~Load(w) /\ ~HandleError(w) /\ ~Settle(w)
  <2>1. ASSUME GoesOn(w) PROVE UNCHANGED skip /\ at'[w] # "settle"
    <3>1. CASE Download(w) \/ Transcribe(w) \/ Extract(w)
      BY <1>t, <3>1 DEF Download, Transcribe, Extract, Continue, localVars
    <3>2. CASE MarkTranscribing(w) \/ StoreTranscript(w) \/ MarkExtracting(w) \/ Complete(w)
      BY <1>t, <2>1, <3>2 DEF MarkTranscribing, StoreTranscript, MarkExtracting, Complete, Proceed,
         Continue, Release, GoesOn, localVars
    <3>3. CASE InsertMaterial(w) \/ InsertRecommendation(w) \/ InsertTag(w)
      BY <1>t, <2>1, <3>3 DEF InsertMaterial, InsertRecommendation, InsertTag, Inserted, Release,
         GoesOn
    <3>4. CASE Succeed(w)
      BY <1>t, <2>1, <3>4 DEF Succeed, Release, GoesOn
    <3> QED
      BY <1>4, <3>1, <3>2, <3>3, <3>4 DEF AttemptStep
  <2> QED
    BY <1>4, <1>t, <2>1 DEF LastIsMarked
<1> QED
  BY <1>1, <1>2, <1>3, <1>4

LEMMA ArchiveKept ==
  ASSUME WorkersStayUp, NeverLies("redis"), "db" \notin FailingCalls,
         Inv, DeliveryInv, \A j \in Jobs : AudioInv(j), ArchiveInv, [Next]_vars
  PROVE  ArchiveInv'
<1>t. /\ at \in [Workers -> Handling \cup Returned \cup {"idle"}]
      /\ job \in [Workers -> Jobs \cup {NoJob}] /\ attempt \in [Workers -> 0..MaxRetry]
      /\ skip \in [Workers -> BOOLEAN] /\ task \in [Jobs -> TaskStates]
      /\ \A w \in Workers : at[w] # "idle" => job[w] \in Jobs /\ task[job[w]] = "active"
      /\ \A w, v \in Workers : w # v /\ at[w] # "idle" /\ at[v] # "idle" => job[w] # job[v]
  BY DEF Inv, TypeOK, StoreTypeOK, WorkerTypeOK, DeliveryInv, Busy, Holds
<1>i. /\ \A w \in Workers : LastIsMarked(w)
      /\ \A j \in Jobs : task[j] = "archived" => status[j] = "failed"
  BY DEF ArchiveInv, ArchivedIsFailed
<1>v. ASSUME NEW v \in Workers, UNCHANGED <<at[v], job[v], attempt[v], skip[v]>>,
             at[v] # "idle" => status'[job[v]] = status[job[v]]
      PROVE  LastIsMarked(v)'
  BY <1>i, <1>v DEF LastIsMarked
<1>1. CASE SubmitNext /\ UNCHANGED workerVars
  <2>1. \A j \in Jobs : task'[j] \in {task[j], "waiting"}
    BY <1>1, SubmitShape
  <2>2. ArchivedIsFailed'
    BY <1>1, <1>i, <2>1, RowsOfTasks DEF ArchivedIsFailed
  <2>3. \A v \in Workers : LastIsMarked(v)'
    BY <1>1, <1>t, <1>v, RowsOfTasks DEF workerVars, localVars
  <2> QED
    BY <2>2, <2>3 DEF ArchiveInv
<1>2. ASSUME NEW w \in Workers, NEW j \in Jobs, Dequeue(w, j) PROVE ArchiveInv'
  <2>1. /\ at' = [at EXCEPT ![w] = "load"] /\ job' = [job EXCEPT ![w] = j]
        /\ attempt' = [attempt EXCEPT ![w] = retried[j]]
        /\ task' = [task EXCEPT ![j] = "active"] /\ UNCHANGED <<status, skip>>
        /\ ~skip[w]
    BY <1>2, <1>i DEF Dequeue, dbVars, rowVars, LastIsMarked
  <2>2. \A v \in Workers \ {w} : LastIsMarked(v)'
    BY <1>v, <2>1
  <2>3. LastIsMarked(w)'
    <3>1. at'[w] = "load" /\ ~skip'[w]
      BY <1>t, <2>1
    <3> QED
      BY <3>1 DEF LastIsMarked
  <2>4. ArchivedIsFailed'
    BY <1>i, <1>t, <2>1 DEF ArchivedIsFailed
  <2> QED
    BY <2>2, <2>3, <2>4 DEF ArchiveInv
<1>3. ASSUME NEW w \in Workers, AttemptStep(w), UNCHANGED submitVars PROVE ArchiveInv'
  <2>1. (GoesOn(w) /\ ~Succeed(w) /\ ~Settle(w)) \/ (Ends(w) /\ (Succeed(w) \/ Settle(w)))
    BY <1>3, AttemptShape
  <2>2. at[w] # "idle" /\ job[w] \in Jobs /\ task[job[w]] = "active"
    BY <1>t, <2>1 DEF GoesOn, Ends, Busy
  <2>3. \A v \in Workers \ {w} : UNCHANGED <<at[v], job[v], attempt[v], skip[v]>>
    <3>1. \A v \in Workers \ {w} : UNCHANGED <<at[v], job[v], attempt[v]>>
      BY <1>t, <2>1 DEF GoesOn, Ends, Release
    <3> QED
      BY <1>3, <3>1, RowsOfOthers
  <2>4. \A v \in Workers \ {w} : LastIsMarked(v)'
    BY <1>3, <1>t, <1>v, <2>2, <2>3, RowsOfOthers
  <2>5. LastIsMarked(w)'
    <3>1. CASE Ends(w)
      <4>1. at'[w] = "idle" /\ ~skip'[w]
        BY <1>t, <3>1 DEF Ends, Release
      <4> QED
        BY <4>1 DEF LastIsMarked
    <3> QED
      BY <1>3, <1>i, <2>1, <3>1, AttemptArchive
  <2>6. ASSUME NEW j \in Jobs, task'[j] = "archived" PROVE status'[j] = "failed"
    <3>1. CASE j # job[w]
      <4>1. task'[j] = task[j]
        BY <1>t, <2>1, <3>1 DEF GoesOn, Ends, queueVars
      <4> QED
        BY <1>3, <1>i, <2>6, <3>1, <4>1, RowsOfOthers
    <3>2. CASE j = job[w]
      <4>1. Settle(w)
        BY <1>t, <2>1, <2>2, <2>6, <3>2 DEF GoesOn, Succeed, queueVars
      <4> QED
        BY <1>3, <1>i, <2>6, <3>2, <4>1, AttemptArchive
    <3> QED
      BY <3>1, <3>2
  <2> QED
    BY <2>4, <2>5, <2>6 DEF ArchiveInv, ArchivedIsFailed
<1>4. CASE WorkerNext /\ UNCHANGED submitVars
  BY <1>2, <1>3, <1>4, WorkerShape
<1>5. CASE UNCHANGED vars
  BY <1>5, <1>i DEF vars, storeVars, dbVars, rowVars, queueVars, workerVars,
     localVars, ArchiveInv, ArchivedIsFailed, LastIsMarked
<1> QED
  BY <1>1, <1>4, <1>5 DEF Next

(* While workers stay up, the queue loses no reply and no call of the       *)
(* database fails without effect, a task that asynq has given up on shows   *)
(* as "failed": makeErrorHandler counts retries as asynq does.  Calls of    *)
(* the database may still take effect and report an error.                 *)
THEOREM GivenUpIsFailed ==
  ASSUME WorkersStayUp, NeverLies("redis"), "db" \notin FailingCalls
  PROVE  Spec => []ArchivedIsFailed
<1>1. Init => (\A j \in Jobs : AudioInv(j)) /\ ArchiveInv
  BY DEF Init, StoreInit, SubmitInit, WorkerInit, AudioInv, ArchiveInv, ArchivedIsFailed, LastIsMarked
<1>2. Inv /\ DeliveryInv /\ (\A j \in Jobs : AudioInv(j)) /\ ArchiveInv /\ [Next]_vars =>
        DeliveryInv' /\ (\A j \in Jobs : AudioInv(j))' /\ ArchiveInv'
  BY DeliveryKept, AudioKept, ArchiveKept
<1>3. ArchiveInv => ArchivedIsFailed
  BY DEF ArchiveInv
<1> QED
  BY <1>1, <1>2, <1>3, Invariance, DeliveryInit, PTL DEF Spec

-----------------------------------------------------------------------------
(***************************************************************************)
(* ImplementsLifecycle.  Each step of the pipeline changes the life or the  *)
(* answer of one job as JobLifecycle allows it, or neither.  What has to be *)
(* known beyond the stage of each row is that an answer is decided late:    *)
(* a request that is going to be refused has no task, and no row or a      *)
(* failed one.                                                             *)
(***************************************************************************)
AnswerInv(j) ==
  /\ ~cancelled[j]
  /\ pc[j] = "refuse" => status[j] \in {"absent", "failed"}
  /\ pc[j] # "done" => reply[j] = "none"
  /\ reply[j] = "error" => task[j] = "none" /\ status[j] \in {"absent", "failed"}

(* Job j lives on as the lifecycle lets it. *)
LifeStep(j) ==
  \/ Life(status'[j]) = Life(status[j]) /\ reply'[j] = reply[j]
  \/ /\ Life(status[j]) = "absent" /\ reply[j] = "none"
     /\ Life(status'[j]) = "open" /\ reply'[j] = reply[j]
  \/ /\ Life(status[j]) = "open" /\ reply[j] # "error"
     /\ Life(status'[j]) = "completed" /\ reply'[j] = reply[j]
  \/ /\ Life(status[j]) = "open"
     /\ Life(status'[j]) = "failed" /\ reply'[j] = reply[j]
  \/ /\ reply[j] = "none" /\ Life(status[j]) # "absent"
     /\ Life(status'[j]) = Life(status[j]) /\ reply'[j] = "accepted"
  \/ /\ reply[j] = "none" /\ Life(status[j]) \in {"absent", "failed"}
     /\ Life(status'[j]) = Life(status[j]) /\ reply'[j] = "error"

Lives == [j \in Jobs |-> Life(status[j])]

LEMMA OneLifeSteps ==
  ASSUME TypeOK, TypeOK', NEW j \in Jobs, LifeStep(j),
         \A i \in Jobs \ {j} : status'[i] = status[i] /\ reply'[i] = reply[i]
  PROVE  Lifecycle!Next \/ (Lives' = Lives /\ reply' = reply)
<1>t. /\ reply \in [Jobs -> {"none", "accepted", "error"}]
      /\ reply' \in [Jobs -> {"none", "accepted", "error"}]
  BY DEF TypeOK, SubmitTypeOK
<1>l. Lives' = [Lives EXCEPT ![j] = Life(status'[j])]
  BY DEF Lives
<1>r. reply' = [reply EXCEPT ![j] = reply'[j]]
  BY <1>t
<1>j. Lives[j] = Life(status[j])
  BY DEF Lives
<1>1. CASE Life(status'[j]) = Life(status[j]) /\ reply'[j] = reply[j]
  BY <1>1, <1>t, <1>l, <1>r DEF Lives
<1>2. CASE reply'[j] = reply[j] /\ Life(status'[j]) # Life(status[j])
  <2>1. reply' = reply
    BY <1>2, <1>r, <1>t
  <2>2. \/ Lifecycle!Open(j) \/ Lifecycle!Complete(j) \/ Lifecycle!Fail(j)
    BY <1>2, <1>j, <1>l, <2>1 DEF LifeStep, Lifecycle!Open, Lifecycle!Complete, Lifecycle!Fail,
       Lifecycle!Become, Lives
  <2> QED
    BY <2>2 DEF Lifecycle!Next
<1>3. CASE reply'[j] # reply[j]
  <2>1. Life(status'[j]) = Life(status[j]) /\ reply[j] = "none"
    BY <1>3 DEF LifeStep
  <2>2. Lives' = Lives
    BY <1>l, <1>j, <2>1 DEF Lives
  <2>3. Lifecycle!Accept(j) \/ Lifecycle!Refuse(j)
    BY <1>3, <1>j, <1>r, <2>1, <2>2 DEF LifeStep, Lifecycle!Accept, Lifecycle!Refuse,
       Lifecycle!Tell, Lives
  <2> QED
    BY <2>3 DEF Lifecycle!Next
<1> QED
  BY <1>1, <1>2, <1>3

(* A request: its row is opened, or fails for good before it is refused. *)
LEMMA RequestLife ==
  ASSUME "disconnect" \notin Faults, NeverFails("db"), NeverLies("redis"),
         Inv, NEW j \in Jobs, AudioInv(j), JobStage(j), AnswerInv(j),
         Receive(j) \/ Reject(j) \/ HandlerStep(j) \/ Disconnect(j)
  PROVE  AnswerInv(j)' /\ LifeStep(j)
<1> USE DEF Inv, TypeOK, StoreTypeOK, SubmitTypeOK, storeVars, dbVars, rowVars, queueVars,
            AudioInv, NotQueued, JobStage, AnswerInv, LifeStep
<1>o. /\ \A s \in Services : \A o \in RequestOutcomes(j, s) : o # "cut"
      /\ \A s \in Services : \A o \in FreeOutcomes(s) : o # "cut"
      /\ \A o \in RequestOutcomes(j, "db") : o = "ok"
  BY DEF RequestOutcomes, FreeOutcomes, NeverFails
<1>s. {"put", "delete", "db", "redis"} \subseteq Services
  BY DEF Services
<1>1. CASE Receive(j) \/ Reject(j) \/ Disconnect(j)
  BY <1>1 DEF Receive, Reject, Disconnect, Life
<1>2. CASE UploadAudio(j) \/ UploadPhoto(j)
  <2>1. PICK o \in RequestOutcomes(j, "put") : Goto(j, o, "photos", "refuse")
    BY <1>2 DEF UploadAudio, UploadPhoto, Put
  <2>2. pc[j] \in {"audio", "photos"} /\ UNCHANGED <<reply, status, task>>
    BY <1>2 DEF UploadAudio, UploadPhoto
  <2>3. o # "cut"
    BY <1>o, <1>s
  <2> QED
    BY <2>1, <2>2, <2>3 DEF Goto
<1>3. CASE UnreadablePhoto(j) \/ PhotosDone(j)
  BY <1>3 DEF UnreadablePhoto, PhotosDone
<1>4. CASE InsertJob(j)
  <2>1. /\ CreateJob(j, uploaded[j] \ {AudioKey}, "ok") /\ Goto(j, "ok", "enqueue", "refuse")
        /\ pc[j] = "insert" /\ UNCHANGED <<reply, task>>
    BY <1>4, <1>o DEF InsertJob
  <2>2. status[j] = "absent" /\ status'[j] = "queued" /\ reply[j] = "none"
    BY <2>1 DEF CreateJob, Applied
  <2> QED
    BY <2>1, <2>2 DEF Goto, Life
<1>5. CASE EnqueueTask(j)
  <2>1. PICK o \in FreeOutcomes("redis") : Goto(j, o, "accept", "unqueue")
    BY <1>5 DEF EnqueueTask
  <2>2. pc[j] = "enqueue" /\ UNCHANGED <<reply, status>> /\ reply[j] = "none"
    BY <1>5 DEF EnqueueTask
  <2>3. o # "cut"
    BY <1>o, <1>s
  <2> QED
    BY <2>1, <2>2, <2>3 DEF Goto
<1>6. CASE FailUnqueuedJob(j)
  <2>1. /\ NullJobURLsAndFail(j, "ok") /\ Goto(j, "ok", "refuse", "refuse")
        /\ pc[j] = "unqueue" /\ UNCHANGED <<reply, task>>
    BY <1>6, <1>o DEF FailUnqueuedJob
  <2>2. status[j] = "queued" /\ status'[j] = "failed" /\ reply[j] = "none"
    BY <2>1 DEF NullJobURLsAndFail, Applied
  <2> QED
    BY <2>1, <2>2 DEF Goto, Life
<1>7. CASE CleanupUpload(j)
  <2>1. PICK o \in RequestOutcomes(j, "delete") : Goto(j, o, "refuse", "refuse")
    BY <1>7 DEF CleanupUpload
  <2>2. pc[j] = "refuse" /\ UNCHANGED <<reply, status, task>>
    BY <1>7 DEF CleanupUpload
  <2>3. o # "cut"
    BY <1>o, <1>s
  <2> QED
    BY <2>1, <2>2, <2>3 DEF Goto
<1>8. CASE Refuse(j)
  BY <1>8 DEF Refuse, Answer, Life
<1>9. CASE Accept(j)
  <2>1. /\ pc[j] = "accept" /\ pc'[j] = "done" /\ reply'[j] = "accepted"
        /\ UNCHANGED <<cancelled, status, task>>
    BY <1>9 DEF Accept, Answer
  <2>2. status[j] # "absent" /\ reply[j] = "none"
    BY <2>1 DEF RequestInv
  <2> QED
    BY <2>1, <2>2 DEF Life
<1> QED
  BY <1>1, <1>2, <1>3, <1>4, <1>5, <1>6, <1>7, <1>8, <1>9 DEF HandlerStep

LEMMA StepLives ==
  ASSUME WorkersStayUp, "disconnect" \notin Faults, NeverFails("db"), NeverLies("redis"),
         Inv, DeliveryInv, \A j \in Jobs : AudioInv(j), StageInv, \A j \in Jobs : AnswerInv(j),
         [Next]_vars
  PROVE  /\ \A j \in Jobs : AnswerInv(j)'
         /\ Lifecycle!Next \/ (Lives' = Lives /\ reply' = reply)
<1>t. TypeOK /\ TypeOK'
  BY NextInv DEF Inv
<1>i. /\ \A j \in Jobs : JobStage(j)
      /\ \A w \in Workers : WorkerStage(w)
      /\ NeverLies("db")
  BY DEF StageInv, NeverFails, NeverLies
<1>1. ASSUME NEW j \in Jobs, Receive(j) \/ Reject(j) \/ HandlerStep(j) \/ Disconnect(j)
      PROVE  /\ \A i \in Jobs : AnswerInv(i)'
             /\ Lifecycle!Next \/ (Lives' = Lives /\ reply' = reply)
  <2>1. AnswerInv(j)' /\ LifeStep(j)
    BY <1>1, <1>i, RequestLife
  <2>2. ASSUME NEW i \in Jobs \ {j}
        PROVE  AnswerInv(i)' /\ status'[i] = status[i] /\ reply'[i] = reply[i]
    <3>1. UNCHANGED <<pc[i], reply[i], cancelled[i], task[i], status[i]>>
      BY <1>1, OthersFiles
    <3> QED
      BY <3>1 DEF AnswerInv
  <2> QED
    BY <1>t, <2>1, <2>2, OneLifeSteps
<1>2. CASE ApiCrash
  <2>1. \A j \in Jobs : AnswerInv(j)'
    BY <1>2, <1>t DEF ApiCrash, AnswerInv, InFlight, TypeOK, SubmitTypeOK, storeVars, dbVars,
       rowVars, queueVars
  <2> QED
    BY <1>2, <2>1 DEF ApiCrash, Lives, storeVars, dbVars, rowVars
<1>3. ASSUME NEW w \in Workers, AttemptStep(w), UNCHANGED submitVars
      PROVE  /\ \A i \in Jobs : AnswerInv(i)'
             /\ Lifecycle!Next \/ (Lives' = Lives /\ reply' = reply)
  <2>1. /\ \A j \in Jobs \ {job[w]} : status'[j] = status[j]
        /\ Follows(status[job[w]], status'[job[w]])
    BY <1>3, <1>i, AttemptStage
  <2>2. PICK j \in Jobs : j = job[w] /\ task[j] = "active"
    BY <1>3, AttemptShape DEF GoesOn, Ends, DeliveryInv, Holds
  <2>3. status[j] # "absent" /\ reply[j] # "error" /\ UNCHANGED <<pc, reply, cancelled>>
    BY <1>3, <2>2 DEF Inv, RequestInv, AnswerInv, submitVars
  <2>4. LifeStep(j)
    BY <2>1, <2>2, <2>3 DEF Follows, LifeStep, Life
  <2>5. pc[j] # "refuse"
    BY <2>2 DEF AudioInv, NotQueued
  <2>6. ASSUME NEW i \in Jobs \ {j} PROVE status'[i] = status[i] /\ task'[i] = task[i]
    <3>1. GoesOn(w) \/ Ends(w)
      BY <1>3, AttemptShape
    <3> QED
      BY <1>t, <2>1, <2>2, <3>1 DEF GoesOn, Ends, queueVars, TypeOK, StoreTypeOK
  <2>7. \A i \in Jobs : AnswerInv(i)'
    BY <2>3, <2>5, <2>6 DEF AnswerInv
  <2> QED
    BY <1>t, <2>3, <2>4, <2>6, <2>7, OneLifeSteps
<1>4. ASSUME NEW w \in Workers, NEW j \in Jobs, Dequeue(w, j), UNCHANGED submitVars
      PROVE  /\ \A i \in Jobs : AnswerInv(i)'
             /\ Lifecycle!Next \/ (Lives' = Lives /\ reply' = reply)
  <2>1. /\ UNCHANGED <<pc, reply, cancelled, status>> /\ task[j] # "none"
        /\ task' = [task EXCEPT ![j] = "active"]
    BY <1>4 DEF Dequeue, submitVars, dbVars, rowVars
  <2>2. \A i \in Jobs : AnswerInv(i)'
    BY <1>t, <2>1 DEF AnswerInv, TypeOK, StoreTypeOK
  <2> QED
    BY <2>1, <2>2 DEF Lives
<1>5. CASE WorkerNext /\ UNCHANGED submitVars
  BY <1>3, <1>4, <1>5, WorkerShape
<1>6. CASE UNCHANGED vars
  BY <1>6 DEF vars, storeVars, dbVars, rowVars, queueVars, submitVars, AnswerInv, Lives
<1> QED
  BY <1>1, <1>2, <1>5, <1>6 DEF Next, SubmitNext

(* While clients wait for their answer, workers stay up, the database works *)
(* and the queue loses no reply, the pipeline implements JobLifecycle: the  *)
(* outcome of a job is decided once, and a submission that CreateHandler    *)
(* has answered with 500 never becomes a report.  Uploads, deletes,         *)
(* downloads and the providers may fail in every way, and the API process   *)
(* may die.                                                                *)
THEOREM Refinement ==
  ASSUME WorkersStayUp, "disconnect" \notin Faults, NeverFails("db"), NeverLies("redis")
  PROVE  Spec => ImplementsLifecycle
<1>1. Init => (\A j \in Jobs : AudioInv(j)) /\ (\A j \in Jobs : AnswerInv(j)) /\ Lifecycle!Init
  BY DEF Init, StoreInit, SubmitInit, AudioInv, AnswerInv, Lifecycle!Init, Life
<1>2. NeverLies("db")
  BY DEF NeverFails, NeverLies
<1>3. Inv /\ DeliveryInv /\ (\A j \in Jobs : AudioInv(j)) /\ StageInv
        /\ (\A j \in Jobs : AnswerInv(j)) /\ [Next]_vars =>
        /\ DeliveryInv' /\ (\A j \in Jobs : AudioInv(j))' /\ StageInv'
        /\ (\A j \in Jobs : AnswerInv(j))'
        /\ [Lifecycle!Next]_(Lifecycle!vars)
  BY <1>2, DeliveryKept, AudioKept, StageKept, StepLives DEF Lifecycle!vars, Lives
<1> QED
  BY <1>1, <1>3, Invariance, DeliveryInit, StageInit, PTL
     DEF Spec, ImplementsLifecycle, Lifecycle!Spec

=============================================================================
