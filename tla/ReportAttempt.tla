---------------------------- MODULE ReportAttempt ----------------------------
(***************************************************************************)
(* What an attempt of ProcessTask does once it has the audio: it is        *)
(* transcribed (Transcription), a report is extracted from the transcript  *)
(* and stored (Extraction), and the audio is closed.  How attempts follow  *)
(* each other, and the rows they write between the two, is JobWorker.      *)
(***************************************************************************)
EXTENDS Transcription, Extraction

vars == <<transcriptionVars, extractionVars>>

Init == TranscriptionInit /\ ExtractionInit

Transcribe == TranscribeStep /\ UNCHANGED extractionVars

(* The transcript is stored, the status is set to extracting and llmCtx is  *)
(* made; an update that fails ends the attempt.                            *)
BeginExtraction ==
  /\ call = "text" /\ at = "waiting"
  /\ at' \in {"groq", "failed"}
  /\ UNCHANGED <<transcriptionVars, elapsed, answer, modelUsed, row>>

Extract == ExtractionStep /\ UNCHANGED transcriptionVars

(* ProcessTask returns. *)
EndAttempt ==
  /\ call = "error" \/ Ended
  /\ CloseAudio
  /\ UNCHANGED extractionVars

Done == ~audioOpen /\ writer = "ended" /\ ~readerOpen

(* The worker goes on to other tasks. *)
AfterAttempt == ~audioOpen /\ UNCHANGED vars

Next ==
  \/ Transcribe \/ BeginExtraction \/ Extract \/ EndAttempt
  \/ AfterAttempt

Spec == Init /\ [][Next]_vars

FairSpec ==
  /\ Spec /\ TranscriptionFairness /\ ExtractionFairness
  /\ WF_vars(BeginExtraction) /\ WF_vars(EndAttempt)

-----------------------------------------------------------------------------
TypeOK ==
  /\ TranscriptionTypeOK
  /\ at \in {"waiting", "groq", "gemini", "store", "completed", "rejected", "failed", "timeout"}
  /\ elapsed \in Nat /\ answer \in Answers \cup {NoAnswer}
  /\ modelUsed \in {"groq", "gemini"} /\ row.model \in {"groq", "gemini", Null}

(* An attempt comes to an end and lets go of everything it holds (the worker*)
(* slot, the audio, the goroutine with its pipe) although R2, Groq, Gemini *)
(* and the network may stall at any point (process_job.go:33-38, 117, 282).*)
AttemptEnds == <>[]Done

=============================================================================
