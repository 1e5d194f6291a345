------------------------------ MODULE JobSubmit ------------------------------
(***************************************************************************)
(* POST /v1/jobs: CreateHandler in api/internal/jobs/handler.go.           *)
(*                                                                         *)
(* One request per member of Jobs.  The handler is a sequence of remote    *)
(* calls; each is one step here, because the worker, the client and a      *)
(* crash of the API process can all act between two of them.  Calls to R2  *)
(* and to the database carry the request's context, so once the client has *)
(* hung up they fail without being tried: that goes for the calls that     *)
(* clean up after a failure too.  Enqueue takes no context.                *)
(***************************************************************************)
EXTENDS JobStore

VARIABLES
  pc,         \* where the handler of the request is
  reply,      \* the answer the handler has written, if any
  nphotos,    \* number of photos in the form
  uploaded,   \* the handler's uploadedKeys
  cancelled   \* is the request's context cancelled (the client hung up)?

submitVars == <<pc, reply, nphotos, uploaded, cancelled>>

InFlight == {"audio", "photos", "insert", "enqueue", "unqueue", "refuse", "accept"}
SubmitPC == InFlight \cup {"idle", "done", "dead"}

SubmitTypeOK ==
  /\ pc \in [Jobs -> SubmitPC]
  /\ reply \in [Jobs -> {"none", "accepted", "error"}]
  /\ nphotos \in [Jobs -> 0..MaxPhotos]
  /\ uploaded \in [Jobs -> SUBSET Keys]
  /\ cancelled \in [Jobs -> BOOLEAN]

SubmitInit ==
  /\ pc = [j \in Jobs |-> "idle"]
  /\ reply = [j \in Jobs |-> "none"]
  /\ nphotos = [j \in Jobs |-> 0]
  /\ uploaded = [j \in Jobs |-> {}]
  /\ cancelled = [j \in Jobs |-> FALSE]

-----------------------------------------------------------------------------
(* The outcomes of a call that carries no context, ... *)
FreeOutcomes(service) ==
  {"ok"} \cup (IF service \in FailingCalls THEN {"err"} ELSE {})
         \cup (IF service \in LostReplies THEN {"lost"} ELSE {})

(* ... and of one that carries the context of request j. *)
RequestOutcomes(j, service) ==
  IF cancelled[j]
  THEN {"err"}
  ELSE FreeOutcomes(service) \cup (IF "disconnect" \in Faults THEN {"cut"} ELSE {})

(* The handler goes on at `next` if the call succeeded, at `onError` if not. *)
Goto(j, o, next, onError) ==
  /\ pc' = [pc EXCEPT ![j] = IF o = "ok" THEN next ELSE onError]
  /\ cancelled' = IF o = "cut" THEN [cancelled EXCEPT ![j] = TRUE] ELSE cancelled

(* Mutant of Track: only the photos are cleaned up. *)
TrackPhotosOnly(j, k, o) ==
  uploaded' = IF o = "ok" THEN [uploaded EXCEPT ![j] = @ \cup ({k} \ {AudioKey})] ELSE uploaded

(* uploadedKeys = append(uploadedKeys, key), after a successful upload. *)
Track(j, k, o) ==
  uploaded' = IF o = "ok" THEN [uploaded EXCEPT ![j] = @ \cup {k}] ELSE uploaded

-----------------------------------------------------------------------------
(* The form is valid: the handler sets off with its audio file and photos. *)
Receive(j) ==
  /\ pc[j] = "idle"
  /\ \E n \in 0..MaxPhotos : nphotos' = [nphotos EXCEPT ![j] = n]
  /\ pc' = [pc EXCEPT ![j] = "audio"]
  /\ UNCHANGED <<reply, uploaded, cancelled, storeVars>>

(* 400 or 401 for an invalid form or token, before anything is stored. *)
Reject(j) ==
  /\ pc[j] = "idle"
  /\ pc' = [pc EXCEPT ![j] = "done"]
  /\ reply' = [reply EXCEPT ![j] = "error"]
  /\ UNCHANGED <<nphotos, uploaded, cancelled, storeVars>>

(* Mutant of Put: the error of the upload is ignored. *)
PutUnchecked(j, k) ==
  \E o \in RequestOutcomes(j, "put") :
    /\ Upload(j, k, o)
    /\ Track(j, k, "ok")
    /\ Goto(j, "ok", "photos", "refuse")

(* One file goes to R2; its key is tracked once the upload has succeeded. *)
Put(j, k) ==
  \E o \in RequestOutcomes(j, "put") :
    /\ Upload(j, k, o)
    /\ Track(j, k, o)
    /\ Goto(j, o, "photos", "refuse")

UploadAudio(j) ==
  /\ pc[j] = "audio"
  /\ Put(j, AudioKey)
  /\ UNCHANGED <<reply, nphotos, dbVars, queueVars>>

(* Photos are uploaded one by one, in form order. *)
Pending(j) == (1..nphotos[j]) \ uploaded[j]

UploadPhoto(j) ==
  /\ pc[j] = "photos"
  /\ \E k \in Pending(j) : (\A m \in Pending(j) : k <= m) /\ Put(j, k)
  /\ UNCHANGED <<reply, nphotos, dbVars, queueVars>>

(* fh.Open() fails on the next photo. *)
UnreadablePhoto(j) ==
  /\ pc[j] = "photos"
  /\ Pending(j) # {}
  /\ pc' = [pc EXCEPT ![j] = "refuse"]
  /\ UNCHANGED <<reply, nphotos, uploaded, cancelled, storeVars>>

PhotosDone(j) ==
  /\ pc[j] = "photos"
  /\ Pending(j) = {}
  /\ pc' = [pc EXCEPT ![j] = "insert"]
  /\ UNCHANGED <<reply, nphotos, uploaded, cancelled, storeVars>>

(* Mutant of InsertJob: the error of the insert is only logged. *)
InsertJobUnchecked(j) ==
  /\ pc[j] = "insert"
  /\ \E o \in RequestOutcomes(j, "db") :
       /\ CreateJob(j, uploaded[j] \ {AudioKey}, o)
       /\ Goto(j, o, "enqueue", "enqueue")
  /\ UNCHANGED <<reply, nphotos, uploaded, objects, queueVars>>

(* After the insert the handler encodes the id and the payload, which       *)
(* cannot fail for an id the database generated.                           *)
InsertJob(j) ==
  /\ pc[j] = "insert"
  /\ \E o \in RequestOutcomes(j, "db") :
       /\ CreateJob(j, uploaded[j] \ {AudioKey}, o)
       /\ Goto(j, o, "enqueue", "refuse")
  /\ UNCHANGED <<reply, nphotos, uploaded, objects, queueVars>>

(* Mutant of EnqueueTask: it is repeated until it succeeds. *)
EnqueueTaskAgain(j) ==
  /\ pc[j] = "enqueue"
  /\ \E o \in FreeOutcomes("redis") :
       /\ Enqueue(j, o)
       /\ Goto(j, o, "accept", "enqueue")
  /\ UNCHANGED <<reply, nphotos, uploaded, dbVars, objects>>

(* Mutant of EnqueueTask: a failed enqueue leaves the row as it is. *)
EnqueueTaskOrGiveUp(j) ==
  /\ pc[j] = "enqueue"
  /\ \E o \in FreeOutcomes("redis") :
       /\ Enqueue(j, o)
       /\ Goto(j, o, "accept", "refuse")
  /\ UNCHANGED <<reply, nphotos, uploaded, dbVars, objects>>

EnqueueTask(j) ==
  /\ pc[j] = "enqueue"
  /\ \E o \in FreeOutcomes("redis") :
       /\ Enqueue(j, o)
       /\ Goto(j, o, "accept", "unqueue")
  /\ UNCHANGED <<reply, nphotos, uploaded, dbVars, objects>>

(* The enqueue failed: mark the row as failed and forget its keys.  An      *)
(* error of this call is only logged.                                      *)
FailUnqueuedJob(j) ==
  /\ pc[j] = "unqueue"
  /\ \E o \in RequestOutcomes(j, "db") :
       /\ NullJobURLsAndFail(j, o)
       /\ Goto(j, o, "refuse", "refuse")
  /\ UNCHANGED <<reply, nphotos, uploaded, objects, queueVars>>

(* cleanupUploads deletes the keys in upload order; an error is only logged. *)
CleanupUpload(j) ==
  /\ pc[j] = "refuse"
  /\ \E k \in uploaded[j], o \in RequestOutcomes(j, "delete") :
       /\ \A m \in uploaded[j] : k <= m
       /\ Delete(j, k, o)
       /\ Goto(j, o, "refuse", "refuse")
       /\ uploaded' = [uploaded EXCEPT ![j] = @ \ {k}]
  /\ UNCHANGED <<reply, nphotos, dbVars, queueVars>>

Answer(j, answer) ==
  /\ pc' = [pc EXCEPT ![j] = "done"]
  /\ reply' = [reply EXCEPT ![j] = answer]
  /\ UNCHANGED <<nphotos, uploaded, cancelled, storeVars>>

(* 400 or 500, once cleanupUploads is through its list. *)
Refuse(j) == pc[j] = "refuse" /\ uploaded[j] = {} /\ Answer(j, "error")

(* Mutant of Accept: the cleanup is deferred and runs on success too. *)
AcceptAndCleanUp(j) ==
  /\ pc[j] = "accept"
  /\ pc' = [pc EXCEPT ![j] = "refuse"]
  /\ UNCHANGED <<reply, nphotos, uploaded, cancelled, storeVars>>

(* 202 with the job's id. *)
Accept(j) == pc[j] = "accept" /\ Answer(j, "accepted")

-----------------------------------------------------------------------------
(* The client hangs up: net/http cancels the request's context. *)
Disconnect(j) ==
  /\ "disconnect" \in Faults
  /\ pc[j] \in InFlight /\ ~cancelled[j]
  /\ cancelled' = [cancelled EXCEPT ![j] = TRUE]
  /\ UNCHANGED <<pc, reply, nphotos, uploaded, storeVars>>

(* The API process dies, or exits because the requests in flight outlast    *)
(* shutdownTimeout: none of them is ever answered.                         *)
ApiCrash ==
  /\ "apiCrash" \in Faults
  /\ \E j \in Jobs : pc[j] \in InFlight
  /\ pc' = [j \in Jobs |-> IF pc[j] \in InFlight THEN "dead" ELSE pc[j]]
  /\ UNCHANGED <<reply, nphotos, uploaded, cancelled, storeVars>>

(* The steps of the handler itself, which the Go scheduler sees through. *)
HandlerStep(j) ==
  \/ UploadAudio(j)
  \/ UploadPhoto(j)
  \/ UnreadablePhoto(j)
  \/ PhotosDone(j)
  \/ InsertJob(j)
  \/ EnqueueTask(j)
  \/ FailUnqueuedJob(j)
  \/ CleanupUpload(j)
  \/ Refuse(j)
  \/ Accept(j)

SubmitNext ==
  \/ \E j \in Jobs : Receive(j) \/ Reject(j) \/ HandlerStep(j) \/ Disconnect(j)
  \/ ApiCrash

=============================================================================
