---------------------------- MODULE Transcription ----------------------------
(***************************************************************************)
(* One call of transcribeAudio (process_job.go): a goroutine writes the    *)
(* multipart form into an io.Pipe while it reads the audio from R2, the    *)
(* HTTP transport reads the pipe and sends the form to Groq, and the       *)
(* caller waits for the answer.  ProcessTask closes the audio when the     *)
(* attempt is over.                                                        *)
(*                                                                         *)
(* The form has Chunks + 2 parts: the head of the file field, the audio as *)
(* io.Copy cuts it, and the two other fields with the closing boundary.    *)
(* The pipe has no buffer: a part is written when the transport takes it.  *)
(***************************************************************************)
EXTENDS Naturals

CONSTANT Chunks  \* how many pieces io.Copy makes of the audio

ASSUME ChunksAssumption == Chunks \in Nat

VARIABLES
  call,        \* the caller: "request", "do", "body"; returned: "text", "error"
  writer,      \* the goroutine: offers "head", "chunk", "tail"; "read", "close", "ended"
  got,         \* pieces of the audio read from R2
  failed,      \* does the goroutine's function return an error?
  pipe,        \* the write end: "open", or what it was closed with, "eof" or "error"
  readerOpen,  \* is the read end, the body of the request, open?
  audioOpen,   \* is the body of R2's answer open?
  conn,        \* the request on its way: "none", "open", "ended" (all of it sent), "broken"
  sent,        \* parts the transport has taken
  reply        \* Groq: "none", "refused" (any status but 200), "transcribed"

transcriptionVars ==
  <<call, writer, got, failed, pipe, readerOpen, audioOpen, conn, sent, reply>>

Parts == Chunks + 2
Returned == call \in {"text", "error"}
Offering == writer \in {"head", "chunk", "tail"}

TranscriptionInit ==
  /\ call = "request" /\ writer = "head" /\ got = 0 /\ failed = FALSE
  /\ pipe = "open" /\ readerOpen = TRUE /\ audioOpen = TRUE
  /\ conn = "none" /\ sent = 0 /\ reply = "none"

-----------------------------------------------------------------------------
(* The goroutine. *)

(* io.Copy reads the audio.  R2 announces its length, so a body that ends   *)
(* early is an error, and so is a read after audioReader.Close.            *)
Copy ==
  /\ writer = "read"
  /\ \/ /\ audioOpen /\ got < Chunks
        /\ got' = got + 1 /\ writer' = "chunk"
        /\ UNCHANGED failed
     \/ /\ audioOpen /\ got = Chunks
        /\ writer' = "tail"
        /\ UNCHANGED <<got, failed>>
     \/ /\ failed' = TRUE /\ writer' = "close"
        /\ UNCHANGED got
  /\ UNCHANGED <<call, pipe, readerOpen, audioOpen, conn, sent, reply>>

(* A write to a pipe whose reader is closed. *)
WriteFails ==
  /\ Offering /\ ~readerOpen
  /\ failed' = TRUE /\ writer' = "close"
  /\ UNCHANGED <<call, got, pipe, readerOpen, audioOpen, conn, sent, reply>>

(* Mutant of CloseWriter: pw.Close(), whatever went wrong before. *)
CloseWriterPlainly ==
  /\ writer = "close"
  /\ writer' = "ended" /\ pipe' = "eof"
  /\ UNCHANGED <<call, got, failed, readerOpen, audioOpen, conn, sent, reply>>

(* pw.CloseWithError(err): the reader sees the error, or the end. *)
CloseWriter ==
  /\ writer = "close"
  /\ writer' = "ended"
  /\ pipe' = IF failed THEN "error" ELSE "eof"
  /\ UNCHANGED <<call, got, failed, readerOpen, audioOpen, conn, sent, reply>>

-----------------------------------------------------------------------------
(* The transport (net/http) and Groq. *)

(* The connection is made, and the head of the request sent. *)
Connect ==
  /\ call = "do" /\ conn = "none"
  /\ conn' = "open"
  /\ UNCHANGED <<call, writer, got, failed, pipe, readerOpen, audioOpen, sent, reply>>

(* The transport reads the part that is offered and sends it. *)
Take ==
  /\ Offering /\ readerOpen /\ conn = "open"
  /\ sent' = sent + 1
  /\ writer' = IF writer = "tail" THEN "close" ELSE "read"
  /\ UNCHANGED <<call, got, failed, pipe, readerOpen, audioOpen, conn, reply>>

(* The end of the pipe ends the body, an error in it aborts the request. *)
SendEnd ==
  /\ readerOpen /\ conn = "open" /\ pipe # "open"
  /\ conn' = IF pipe = "eof" THEN "ended" ELSE "broken"
  /\ UNCHANGED <<call, writer, got, failed, pipe, readerOpen, audioOpen, sent, reply>>

(* The connection cannot be made, or breaks. *)
Drop ==
  /\ call \in {"do", "body"} /\ conn # "broken"
  /\ conn' = "broken"
  /\ UNCHANGED <<call, writer, got, failed, pipe, readerOpen, audioOpen, sent, reply>>

(* Groq refuses as soon as it likes, and transcribes what it has whole. *)
GroqAnswers ==
  /\ reply = "none"
  /\ \/ conn \in {"open", "ended"} /\ reply' = "refused"
     \/ conn = "ended" /\ reply' = "transcribed"
  /\ UNCHANGED <<call, writer, got, failed, pipe, readerOpen, audioOpen, conn, sent>>

(* "The Request Body, if non-nil, will be closed by the underlying          *)
(* Transport, even on errors", which may be after Do has returned.         *)
ReleasePipe ==
  /\ readerOpen
  /\ conn \in {"ended", "broken"} \/ reply # "none"
  /\ readerOpen' = FALSE
  /\ UNCHANGED <<call, writer, got, failed, pipe, audioOpen, conn, sent, reply>>

-----------------------------------------------------------------------------
(* The caller. *)

(* NewRequestWithContext, which fails for a URL that does not parse: the    *)
(* goroutine is already running then, and pr.CloseWithError releases it.   *)
MakeRequest ==
  /\ call = "request"
  /\ \/ call' = "do" /\ UNCHANGED readerOpen
     \/ call' = "error" /\ readerOpen' = FALSE
  /\ UNCHANGED <<writer, got, failed, pipe, audioOpen, conn, sent, reply>>

(* httpClient.Do *)
Do ==
  /\ call = "do"
  /\ \/ reply # "none" /\ call' = "body"
     \/ conn = "broken" /\ call' = "error"
  /\ UNCHANGED <<writer, got, failed, pipe, readerOpen, audioOpen, conn, sent, reply>>

(* io.ReadAll and the check of the status. *)
ReadAll ==
  /\ call = "body"
  /\ call' = IF reply = "transcribed" /\ conn # "broken" THEN "text" ELSE "error"
  /\ UNCHANGED <<writer, got, failed, pipe, readerOpen, audioOpen, conn, sent, reply>>

(* Mutant of Expire: the timeout ends with the header of the answer. *)
ExpireBeforeBody ==
  /\ call = "do"
  /\ call' = "error" /\ conn' = "broken"
  /\ UNCHANGED <<writer, got, failed, pipe, readerOpen, audioOpen, sent, reply>>

(* httpClient.Timeout (defaultGroqTimeout) runs until the answer is read;   *)
(* asynq cancels the context of an attempt it gives up.                    *)
Expire ==
  /\ call \in {"do", "body"}
  /\ call' = "error" /\ conn' = "broken"
  /\ UNCHANGED <<writer, got, failed, pipe, readerOpen, audioOpen, sent, reply>>

(* The deferred audioReader.Close. *)
CloseAudio ==
  /\ Returned /\ audioOpen
  /\ audioOpen' = FALSE
  /\ UNCHANGED <<call, writer, got, failed, pipe, readerOpen, conn, sent, reply>>

TranscribeStep ==
  \/ Copy \/ WriteFails \/ CloseWriter
  \/ Connect \/ Take \/ SendEnd \/ Drop \/ GroqAnswers \/ ReleasePipe
  \/ MakeRequest \/ Do \/ ReadAll \/ Expire

TranscriptionNext == TranscribeStep \/ CloseAudio

TranscriptionSpec == TranscriptionInit /\ [][TranscriptionNext]_transcriptionVars

(* What the runtime and the timeouts of the program make happen.  Nothing   *)
(* is assumed of R2, of Groq or of the network: each may stall for ever.   *)
TranscriptionFairness ==
  /\ WF_transcriptionVars(MakeRequest)
  /\ WF_transcriptionVars(WriteFails)
  /\ WF_transcriptionVars(CloseWriter)
  /\ WF_transcriptionVars(ReleasePipe)
  /\ WF_transcriptionVars(Expire)
  /\ WF_transcriptionVars(~audioOpen /\ Copy)

-----------------------------------------------------------------------------
TranscriptionTypeOK ==
  /\ call \in {"request", "do", "body", "text", "error"}
  /\ writer \in {"head", "read", "chunk", "tail", "close", "ended"}
  /\ got \in 0..Chunks /\ sent \in 0..Parts
  /\ failed \in BOOLEAN /\ readerOpen \in BOOLEAN /\ audioOpen \in BOOLEAN
  /\ pipe \in {"open", "eof", "error"}
  /\ conn \in {"none", "open", "ended", "broken"}
  /\ reply \in {"none", "refused", "transcribed"}

(* Groq never transcribes a part of a memo: what it answers 200 to is the   *)
(* form with all of the audio, although R2, the network or the goroutine   *)
(* may fail at any point of it (process_job.go:263-283).                   *)
WholeAudioTranscribed == reply = "transcribed" => got = Chunks /\ sent = Parts

=============================================================================
