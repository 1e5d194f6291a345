-------------------------- MODULE JobStorageProofs --------------------------
(***************************************************************************)
(* Proofs about what JobPipeline keeps in R2 and refers to from a row.     *)
(* Each needs that one service does what it is told: that is an assumption *)
(* of the theorem, and everything else may fail in every way.              *)
(***************************************************************************)
EXTENDS JobPipelineProofs

(* No call of the service fails, or none takes effect and reports an error. *)
NeverFails(service) == service \notin FailingCalls \cup LostReplies
NeverLies(service) == service \notin LostReplies

-----------------------------------------------------------------------------
(* The worker side leaves alone what the submission side has stored. *)
LEMMA OnlySubmissionsStore ==
  ASSUME Inv, [Next]_vars, ~SubmitNext
  PROVE  /\ UNCHANGED <<submitVars, audioUrl, photoUrls, objects>>
         /\ \A j \in Jobs : task[j] # "none" <=> task'[j] # "none"
<1>1. CASE WorkerNext /\ UNCHANGED submitVars
  BY <1>1, WorkerLeavesSubmissions DEF Inv
<1>2. CASE UNCHANGED vars
  BY <1>2 DEF vars, storeVars, dbVars, rowVars, queueVars, submitVars
<1> QED
  BY <1>1, <1>2 DEF Next

(* A step of one request leaves the files, row and task of another alone. *)
LEMMA OthersFiles ==
  ASSUME Inv, NEW i \in Jobs, NEW j \in Jobs \ {i},
         Receive(i) \/ Reject(i) \/ HandlerStep(i) \/ Disconnect(i)
  PROVE  /\ pc'[j] = pc[j] /\ reply'[j] = reply[j] /\ uploaded'[j] = uploaded[j]
         /\ cancelled'[j] = cancelled[j] /\ objects'[j] = objects[j] /\ task'[j] = task[j]
         /\ audioUrl'[j] = audioUrl[j] /\ photoUrls'[j] = photoUrls[j] /\ status'[j] = status[j]
<1> USE DEF Inv, TypeOK, StoreTypeOK, SubmitTypeOK, storeVars, dbVars, rowVars, queueVars
<1>1. CASE Receive(i) \/ Reject(i) \/ Disconnect(i)
  BY <1>1 DEF Receive, Reject, Disconnect
<1>2. CASE UploadAudio(i) \/ UploadPhoto(i) \/ UnreadablePhoto(i) \/ PhotosDone(i)
  BY <1>2 DEF UploadAudio, UploadPhoto, UnreadablePhoto, PhotosDone, Put, Upload, Track, Goto
<1>3. CASE InsertJob(i) \/ EnqueueTask(i) \/ FailUnqueuedJob(i)
  BY <1>3 DEF InsertJob, EnqueueTask, FailUnqueuedJob, CreateJob, Enqueue, NullJobURLsAndFail, Goto
<1>4. CASE CleanupUpload(i) \/ Refuse(i) \/ Accept(i)
  BY <1>4 DEF CleanupUpload, Refuse, Accept, Answer, Delete, Goto
<1> QED
  BY <1>1, <1>2, <1>3, <1>4 DEF HandlerStep

-----------------------------------------------------------------------------
(***************************************************************************)
(* NoDanglingKeys, with a database that works.  The files of a row are     *)
(* deleted at "refuse" only, and whoever gets there has no row, or has     *)
(* nulled its keys, or has lost its client: then no delete is carried out. *)
(***************************************************************************)
Unlisted(j) == ~audioUrl[j] /\ photoUrls[j] = {}

KeysInv(j) ==
  /\ pc[j] \in {"idle", "audio", "photos", "insert"} => Unlisted(j)
  /\ pc[j] = "refuse" => Unlisted(j) \/ cancelled[j]
  /\ audioUrl[j] => AudioKey \in objects[j]
  /\ photoUrls[j] \subseteq objects[j]

LEMMA KeysStep ==
  ASSUME NeverFails("db"), Inv, NEW j \in Jobs, KeysInv(j),
         Receive(j) \/ Reject(j) \/ HandlerStep(j) \/ Disconnect(j)
  PROVE  KeysInv(j)'
<1> USE DEF Inv, TypeOK, StoreTypeOK, SubmitTypeOK, storeVars, dbVars, rowVars, queueVars,
            KeysInv, Unlisted
<1>o. \A o \in RequestOutcomes(j, "db") : o = "ok" \/ (o = "cut" /\ ~cancelled[j]) \/ (o = "err" /\ cancelled[j])
  BY DEF RequestOutcomes, FreeOutcomes, NeverFails
<1>1. CASE Receive(j) \/ Reject(j)
  BY <1>1 DEF Receive, Reject
<1>2. CASE UploadAudio(j) \/ UploadPhoto(j)
  BY <1>2 DEF UploadAudio, UploadPhoto, Put, Upload, Track, Goto
<1>3. CASE UnreadablePhoto(j) \/ PhotosDone(j)
  BY <1>3 DEF UnreadablePhoto, PhotosDone
<1>4. CASE InsertJob(j)
  <2>1. PICK o \in RequestOutcomes(j, "db") :
          CreateJob(j, uploaded[j] \ {AudioKey}, o) /\ Goto(j, o, "enqueue", "refuse")
    BY <1>4 DEF InsertJob
  <2>2. /\ pc[j] = "insert" /\ UNCHANGED objects
        /\ uploaded[j] \subseteq objects[j] /\ AudioKey \in uploaded[j]
    BY <1>4 DEF InsertJob, RequestInv, AllUploaded
  <2>3. CASE o = "err"
    BY <1>o, <2>1, <2>2, <2>3 DEF CreateJob, Goto, Applied
  <2>4. CASE o # "err"
    BY <1>o, <2>1, <2>2, <2>4 DEF CreateJob, Goto, Applied
  <2> QED
    BY <2>3, <2>4
<1>5. CASE EnqueueTask(j)
  BY <1>5 DEF EnqueueTask, Goto
<1>6. CASE FailUnqueuedJob(j)
  BY <1>o, <1>6 DEF FailUnqueuedJob, NullJobURLsAndFail, Goto, Applied
<1>7. CASE CleanupUpload(j)
  <2>1. CASE cancelled[j]
    BY <1>7, <2>1 DEF CleanupUpload, RequestOutcomes, Delete, Goto, Applied
  <2>2. CASE ~cancelled[j]
    BY <1>7, <2>2 DEF CleanupUpload, Delete, Goto
  <2> QED
    BY <2>1, <2>2
<1>8. CASE Refuse(j) \/ Accept(j)
  BY <1>8 DEF Refuse, Accept, Answer
<1>9. CASE Disconnect(j)
  BY <1>9 DEF Disconnect
<1> QED
  BY <1>1, <1>2, <1>3, <1>4, <1>5, <1>6, <1>7, <1>8, <1>9 DEF HandlerStep

LEMMA KeysKept ==
  ASSUME NeverFails("db"), Inv, \A j \in Jobs : KeysInv(j), [Next]_vars
  PROVE  \A j \in Jobs : KeysInv(j)'
<1> SUFFICES ASSUME NEW j \in Jobs PROVE KeysInv(j)'
  OBVIOUS
<1>1. ASSUME NEW i \in Jobs, Receive(i) \/ Reject(i) \/ HandlerStep(i) \/ Disconnect(i)
      PROVE  KeysInv(j)'
  <2>1. CASE i = j
    BY <1>1, <2>1, KeysStep
  <2>2. CASE i # j
    BY <1>1, <2>2, OthersFiles DEF KeysInv, Unlisted
  <2> QED
    BY <2>1, <2>2
<1>2. CASE ApiCrash
  BY <1>2 DEF ApiCrash, InFlight, KeysInv, Unlisted, storeVars, dbVars, rowVars, Inv, TypeOK, SubmitTypeOK
<1>3. CASE ~SubmitNext
  BY <1>3, OnlySubmissionsStore DEF submitVars, KeysInv, Unlisted
<1> QED
  BY <1>1, <1>2, <1>3 DEF SubmitNext

(* With a database that works, a row never names a file that is not in R2,  *)
(* not even for a moment, whatever becomes of uploads, deletes, the client, *)
(* the queue and both processes (cleanupUploads after NullJobURLsAndFail).  *)
THEOREM KeysResolve ==
  ASSUME NeverFails("db")
  PROVE  Spec => []NoDanglingKeys
<1>1. Init => \A j \in Jobs : KeysInv(j)
  BY DEF Init, StoreInit, SubmitInit, KeysInv, Unlisted
<1>2. Inv /\ (\A j \in Jobs : KeysInv(j)) /\ [Next]_vars => (\A j \in Jobs : KeysInv(j))'
  BY KeysKept
<1>3. (\A j \in Jobs : KeysInv(j)) => NoDanglingKeys
  BY DEF KeysInv, NoDanglingKeys
<1> QED
  BY <1>1, <1>2, <1>3, Invariance, PTL DEF Spec

-----------------------------------------------------------------------------
(***************************************************************************)
(* TaskHasAudio, with a queue that does not lose a reply.  A handler that   *)
(* nulls keys and deletes files was told that Enqueue failed, and then      *)
(* there is no task.                                                       *)
(***************************************************************************)
(* The handler has not enqueued the task, or was told that this failed. *)
NotQueued == {"idle", "audio", "photos", "insert", "enqueue", "unqueue", "refuse"}

AudioInv(j) ==
  /\ pc[j] \in NotQueued => task[j] = "none"
  /\ task[j] # "none" => audioUrl[j] /\ AudioKey \in objects[j]

LEMMA AudioStep ==
  ASSUME NeverLies("redis"), Inv, NEW j \in Jobs, AudioInv(j),
         Receive(j) \/ Reject(j) \/ HandlerStep(j) \/ Disconnect(j)
  PROVE  AudioInv(j)'
<1> USE DEF Inv, TypeOK, StoreTypeOK, SubmitTypeOK, storeVars, dbVars, rowVars, queueVars,
            AudioInv, NotQueued
<1>1. CASE Receive(j) \/ Reject(j) \/ Disconnect(j)
  BY <1>1 DEF Receive, Reject, Disconnect
<1>2. CASE UploadAudio(j) \/ UploadPhoto(j) \/ UnreadablePhoto(j) \/ PhotosDone(j)
  BY <1>2 DEF UploadAudio, UploadPhoto, UnreadablePhoto, PhotosDone, Put, Upload, Track, Goto
<1>3. CASE InsertJob(j) \/ FailUnqueuedJob(j)
  BY <1>3 DEF InsertJob, FailUnqueuedJob, Goto
<1>4. CASE EnqueueTask(j)
  <2>1. PICK o \in {"ok", "err"} : Enqueue(j, o) /\ Goto(j, o, "accept", "unqueue")
    BY <1>4 DEF EnqueueTask, FreeOutcomes, NeverLies
  <2>2. /\ pc[j] = "enqueue" /\ UNCHANGED <<audioUrl, objects>>
        /\ audioUrl[j] /\ AudioKey \in objects[j]
    BY <1>4 DEF EnqueueTask, RequestInv, Listed, AllUploaded
  <2> QED
    BY <2>1, <2>2 DEF Enqueue, Goto, Applied
<1>5. CASE CleanupUpload(j)
  BY <1>5 DEF CleanupUpload, Goto
<1>6. CASE Refuse(j) \/ Accept(j)
  BY <1>6 DEF Refuse, Accept, Answer
<1> QED
  BY <1>1, <1>2, <1>3, <1>4, <1>5, <1>6 DEF HandlerStep

LEMMA AudioKept ==
  ASSUME NeverLies("redis"), Inv, \A j \in Jobs : AudioInv(j), [Next]_vars
  PROVE  \A j \in Jobs : AudioInv(j)'
<1> SUFFICES ASSUME NEW j \in Jobs PROVE AudioInv(j)'
  OBVIOUS
<1>t. pc \in [Jobs -> SubmitPC] /\ task \in [Jobs -> TaskStates]
  BY DEF Inv, TypeOK, StoreTypeOK, SubmitTypeOK
<1>1. ASSUME NEW i \in Jobs, Receive(i) \/ Reject(i) \/ HandlerStep(i) \/ Disconnect(i)
      PROVE  AudioInv(j)'
  <2>1. CASE i = j
    BY <1>1, <2>1, AudioStep
  <2>2. CASE i # j
    BY <1>1, <2>2, OthersFiles DEF AudioInv
  <2> QED
    BY <2>1, <2>2
<1>2. CASE ApiCrash
  BY <1>t, <1>2 DEF ApiCrash, InFlight, AudioInv, NotQueued, storeVars, dbVars, rowVars, queueVars
<1>3. CASE ~SubmitNext
  BY <1>3, OnlySubmissionsStore DEF submitVars, AudioInv
<1> QED
  BY <1>1, <1>2, <1>3 DEF SubmitNext

(* With a queue that loses no reply, a queued task finds its audio: neither *)
(* cleanupUploads nor NullJobURLsAndFail reaches the job of a task.        *)
THEOREM TaskAudio ==
  ASSUME NeverLies("redis")
  PROVE  Spec => []TaskHasAudio
<1>1. Init => \A j \in Jobs : AudioInv(j)
  BY DEF Init, StoreInit, SubmitInit, AudioInv
<1>2. Inv /\ (\A j \in Jobs : AudioInv(j)) /\ [Next]_vars => (\A j \in Jobs : AudioInv(j))'
  BY AudioKept
<1>3. (\A j \in Jobs : AudioInv(j)) => TaskHasAudio
  BY DEF AudioInv, TaskHasAudio
<1> QED
  BY <1>1, <1>2, <1>3, Invariance, PTL DEF Spec

-----------------------------------------------------------------------------
(***************************************************************************)
(* FailedRequestLeavesNoObject, with a client that stays, uploads that do   *)
(* not succeed and report an error, and deletes that work: what is in R2   *)
(* is then what the handler has tracked, up to its answer.                 *)
(***************************************************************************)
CleanInv(j) ==
  /\ ~cancelled[j]
  /\ pc[j] \in {"idle"} \cup InFlight => objects[j] \subseteq uploaded[j]
  /\ reply[j] = "error" => pc[j] = "done" /\ objects[j] = {}

LEMMA CleanStep ==
  ASSUME "disconnect" \notin Faults, NeverLies("put"), "delete" \notin FailingCalls,
         Inv, NEW j \in Jobs, CleanInv(j),
         Receive(j) \/ Reject(j) \/ HandlerStep(j) \/ Disconnect(j)
  PROVE  CleanInv(j)'
<1> USE DEF Inv, TypeOK, StoreTypeOK, SubmitTypeOK, storeVars, dbVars, rowVars, queueVars,
            CleanInv, InFlight
<1>o. /\ \A s \in Services : \A o \in RequestOutcomes(j, s) : o # "cut"
      /\ \A s \in Services : \A o \in FreeOutcomes(s) : o # "cut"
      /\ \A o \in RequestOutcomes(j, "put") : o \in {"ok", "err"}
      /\ \A o \in RequestOutcomes(j, "delete") : Applied(o)
  BY DEF RequestOutcomes, FreeOutcomes, NeverLies, Applied
<1>s. {"put", "delete", "db", "redis"} \subseteq Services
  BY DEF Services
<1>1. CASE Receive(j) \/ Reject(j)
  BY <1>1 DEF Receive, Reject, RequestInv
<1>2. CASE UploadAudio(j) \/ UploadPhoto(j)
  <2>p. PICK k : Put(j, k)
    BY <1>2 DEF UploadAudio, UploadPhoto
  <2>1. PICK o \in {"ok", "err"} :
          Upload(j, k, o) /\ Track(j, k, o) /\ Goto(j, o, "photos", "refuse")
    BY <1>o, <2>p DEF Put
  <2>2. pc[j] \in {"audio", "photos"} /\ UNCHANGED reply
    BY <1>2 DEF UploadAudio, UploadPhoto
  <2> QED
    BY <2>1, <2>2 DEF Upload, Track, Goto, Applied
<1>3. CASE UnreadablePhoto(j) \/ PhotosDone(j)
  BY <1>3 DEF UnreadablePhoto, PhotosDone
<1>4. CASE InsertJob(j) \/ FailUnqueuedJob(j)
  BY <1>o, <1>s, <1>4 DEF InsertJob, FailUnqueuedJob, Goto
<1>5. CASE EnqueueTask(j)
  BY <1>o, <1>s, <1>5 DEF EnqueueTask, Goto
<1>6. CASE CleanupUpload(j)
  <2>1. PICK k \in uploaded[j], o \in RequestOutcomes(j, "delete") :
          /\ Delete(j, k, o) /\ Goto(j, o, "refuse", "refuse")
          /\ uploaded' = [uploaded EXCEPT ![j] = @ \ {k}]
    BY <1>6 DEF CleanupUpload
  <2>2. pc[j] = "refuse" /\ UNCHANGED reply /\ Applied(o) /\ o # "cut"
    BY <1>o, <1>s, <1>6 DEF CleanupUpload
  <2> QED
    BY <2>1, <2>2 DEF Delete, Goto
<1>7. CASE Refuse(j) \/ Accept(j)
  BY <1>7 DEF Refuse, Accept, Answer
<1>8. CASE Disconnect(j)
  BY <1>8 DEF Disconnect
<1> QED
  BY <1>1, <1>2, <1>3, <1>4, <1>5, <1>6, <1>7, <1>8 DEF HandlerStep

LEMMA CleanKept ==
  ASSUME "disconnect" \notin Faults, NeverLies("put"), "delete" \notin FailingCalls,
         Inv, \A j \in Jobs : CleanInv(j), [Next]_vars
  PROVE  \A j \in Jobs : CleanInv(j)'
<1> SUFFICES ASSUME NEW j \in Jobs PROVE CleanInv(j)'
  OBVIOUS
<1>t. pc \in [Jobs -> SubmitPC]
  BY DEF Inv, TypeOK, SubmitTypeOK
<1>1. ASSUME NEW i \in Jobs, Receive(i) \/ Reject(i) \/ HandlerStep(i) \/ Disconnect(i)
      PROVE  CleanInv(j)'
  <2>1. CASE i = j
    BY <1>1, <2>1, CleanStep
  <2>2. CASE i # j
    BY <1>1, <2>2, OthersFiles DEF CleanInv
  <2> QED
    BY <2>1, <2>2
<1>2. CASE ApiCrash
  BY <1>t, <1>2 DEF ApiCrash, InFlight, CleanInv, storeVars
<1>3. CASE ~SubmitNext
  BY <1>3, OnlySubmissionsStore DEF submitVars, CleanInv
<1> QED
  BY <1>1, <1>2, <1>3 DEF SubmitNext

(* While the client stays, uploads are reported as they end and deletes     *)
(* work, a request that is answered with an error leaves nothing in R2, as  *)
(* the comment at uploadedKeys has it, whatever becomes of database, queue  *)
(* and both processes.                                                     *)
THEOREM FailedRequestClean ==
  ASSUME "disconnect" \notin Faults, NeverLies("put"), "delete" \notin FailingCalls
  PROVE  Spec => []FailedRequestLeavesNoObject
<1>1. Init => \A j \in Jobs : CleanInv(j)
  BY DEF Init, StoreInit, SubmitInit, CleanInv
<1>2. Inv /\ (\A j \in Jobs : CleanInv(j)) /\ [Next]_vars => (\A j \in Jobs : CleanInv(j))'
  BY CleanKept
<1>3. (\A j \in Jobs : CleanInv(j)) => FailedRequestLeavesNoObject
  BY DEF CleanInv, FailedRequestLeavesNoObject
<1> QED
  BY <1>1, <1>2, <1>3, Invariance, PTL DEF Spec

=============================================================================
