------------------------- MODULE ReportAttemptProofs -------------------------
(***************************************************************************)
(* Proofs about Transcription, for audio of any length, and about what an  *)
(* attempt (ReportAttempt) makes of it and of a model's answer.            *)
(***************************************************************************)
EXTENDS ReportAttempt, FiniteSetTheorems, WellFoundedInduction, TLAPS

(* How far the goroutine is tells how many parts the transport has taken,   *)
(* and only a goroutine that did not fail closes the pipe with EOF.        *)
WriterInv ==
  /\ writer = "head" => got = 0 /\ sent = 0
  /\ writer = "read" => sent = got + 1
  /\ writer = "chunk" => got > 0 /\ sent = got
  /\ writer = "tail" => got = Chunks /\ sent = got + 1
  /\ writer \in {"close", "ended"} /\ ~failed => got = Chunks /\ sent = Parts
  /\ pipe = "eof" => writer = "ended" /\ ~failed
  /\ pipe # "open" => writer = "ended"
  /\ failed => writer \in {"close", "ended"}

(* What is complete on the wire, and what Groq transcribed, is the form. *)
WholeInv ==
  conn = "ended" \/ reply = "transcribed" => writer = "ended" /\ ~failed

Inv == TranscriptionTypeOK /\ WriterInv /\ WholeInv

(* The properties need nothing beyond the invariant. *)
LEMMA InvImplies == Inv => WholeAudioTranscribed
  BY DEF Inv, TranscriptionTypeOK, WriterInv, WholeInv, WholeAudioTranscribed

LEMMA InitInv == TranscriptionInit => Inv
<1> SUFFICES ASSUME TranscriptionInit PROVE Inv
  OBVIOUS
<1> USE DEF TranscriptionInit
<1>1. 0 \in 0..Chunks /\ 0 \in 0..Parts
  BY ChunksAssumption DEF Parts
<1>2. TranscriptionTypeOK
  BY <1>1 DEF TranscriptionTypeOK
<1>3. WriterInv
  BY DEF WriterInv
<1>4. WholeInv
  BY DEF WholeInv
<1> QED BY <1>2, <1>3, <1>4 DEF Inv

(* The steps of the goroutine. *)
LEMMA GoroutineStep ==
  ASSUME Inv, Copy \/ WriteFails \/ CloseWriter PROVE Inv'
<1> USE ChunksAssumption DEF Inv, TranscriptionTypeOK, WriterInv, WholeInv, Parts
<1>1. CASE Copy
  <2>1. /\ writer = "read" /\ sent = got + 1 /\ pipe = "open" /\ ~failed
        /\ UNCHANGED <<call, pipe, readerOpen, audioOpen, conn, sent, reply>>
    BY <1>1 DEF Copy
  <2>2. CASE got < Chunks /\ got' = got + 1 /\ writer' = "chunk" /\ UNCHANGED failed
    BY <2>1, <2>2
  <2>3. CASE got = Chunks /\ writer' = "tail" /\ UNCHANGED <<got, failed>>
    BY <2>1, <2>3
  <2>4. CASE failed' = TRUE /\ writer' = "close" /\ UNCHANGED got
    BY <2>1, <2>4
  <2> QED BY <1>1, <2>2, <2>3, <2>4 DEF Copy
<1>2. CASE WriteFails
  BY <1>2 DEF WriteFails, Offering
<1>3. CASE CloseWriter
  BY <1>3 DEF CloseWriter
<1> QED BY <1>1, <1>2, <1>3

(* The steps of the transport and of Groq. *)
LEMMA TransportStep ==
  ASSUME Inv, Connect \/ Take \/ SendEnd \/ Drop \/ GroqAnswers \/ ReleasePipe PROVE Inv'
<1> USE ChunksAssumption DEF Inv, TranscriptionTypeOK, WriterInv, WholeInv, Parts
<1>1. CASE Connect
  BY <1>1 DEF Connect
<1>2. CASE Take
  <2>1. sent' = sent + 1 /\ sent \in 0..(Chunks + 1) /\ ~failed
    BY <1>2 DEF Take, Offering
  <2> QED BY <1>2, <2>1 DEF Take, Offering
<1>3. CASE SendEnd
  BY <1>3 DEF SendEnd
<1>4. CASE Drop
  BY <1>4 DEF Drop
<1>5. CASE GroqAnswers
  BY <1>5 DEF GroqAnswers
<1>6. CASE ReleasePipe
  <2>1. /\ readerOpen' = FALSE
        /\ UNCHANGED <<call, writer, got, failed, pipe, audioOpen, conn, sent, reply>>
    BY <1>6 DEF ReleasePipe
  <2>2. TranscriptionTypeOK'
    BY <2>1
  <2>3. WriterInv' /\ WholeInv'
    BY <2>1
  <2> QED BY <2>2, <2>3
<1> QED BY <1>1, <1>2, <1>3, <1>4, <1>5, <1>6

(* The steps of the caller, which touch neither the form nor the pipe. *)
LEMMA CallerStep ==
  ASSUME Inv, MakeRequest \/ Do \/ ReadAll \/ Expire \/ CloseAudio PROVE Inv'
<1> USE ChunksAssumption DEF Inv, TranscriptionTypeOK, WriterInv, WholeInv, Parts
<1>1. CASE MakeRequest
  BY <1>1 DEF MakeRequest
<1>2. CASE Do
  BY <1>2 DEF Do
<1>3. CASE ReadAll
  BY <1>3 DEF ReadAll
<1>4. CASE Expire
  BY <1>4 DEF Expire
<1>5. CASE CloseAudio
  <2>1. /\ audioOpen' = FALSE
        /\ UNCHANGED <<call, writer, got, failed, pipe, readerOpen, conn, sent, reply>>
    BY <1>5 DEF CloseAudio
  <2>2. TranscriptionTypeOK'
    BY <2>1
  <2>3. WriterInv' /\ WholeInv'
    BY <2>1
  <2> QED BY <2>2, <2>3
<1> QED BY <1>1, <1>2, <1>3, <1>4, <1>5

LEMMA NextInv == Inv /\ [TranscriptionNext]_transcriptionVars => Inv'
<1> SUFFICES ASSUME Inv, [TranscriptionNext]_transcriptionVars PROVE Inv'
  OBVIOUS
<1>1. CASE UNCHANGED transcriptionVars
  BY <1>1 DEF transcriptionVars, Inv, TranscriptionTypeOK, WriterInv, WholeInv, Parts
<1>2. CASE TranscriptionNext
  BY <1>2, GoroutineStep, TransportStep, CallerStep DEF TranscriptionNext, TranscribeStep
<1> QED BY <1>1, <1>2

(* Groq never transcribes a part of a memo, however long the memo is and    *)
(* wherever R2, the network or the goroutine fails (WholeAudioTranscribed; *)
(* process_job.go:263-283).                                                *)
THEOREM WholeAudio == TranscriptionSpec => []WholeAudioTranscribed
<1>1. TranscriptionSpec => []Inv
  BY InitInv, NextInv, PTL DEF TranscriptionSpec
<1> QED BY <1>1, InvImplies, PTL

-----------------------------------------------------------------------------
(* What an attempt does is a step of the transcription or leaves it alone. *)
LEMMA AttemptTranscribes == [Next]_vars => [TranscriptionNext]_transcriptionVars
<1>1. Transcribe => TranscriptionNext
  BY DEF Transcribe, TranscriptionNext
<1>2. EndAttempt => TranscriptionNext
  BY DEF EndAttempt, TranscriptionNext
<1>3. BeginExtraction \/ Extract \/ AfterAttempt \/ UNCHANGED vars => UNCHANGED transcriptionVars
  BY DEF BeginExtraction, Extract, AfterAttempt, vars
<1> QED
  BY <1>1, <1>2, <1>3 DEF Next

(* A whole attempt implements the transcription: the steps of the           *)
(* extraction, and ProcessTask's return at any of its errors, do nothing   *)
(* that transcribeAudio's goroutine or the transport could notice.         *)
THEOREM AttemptImplementsTranscription == Spec => TranscriptionSpec
BY AttemptTranscribes, PTL DEF Spec, Init, TranscriptionSpec

(* So an attempt never puts into a report what Groq heard of a part of the  *)
(* memo (WholeAudioTranscribed in ReportAttempt; process_job.go:263-283).  *)
THEOREM AttemptHearsAll == Spec => []WholeAudioTranscribed
BY AttemptImplementsTranscription, WholeAudio, PTL

-----------------------------------------------------------------------------
(***************************************************************************)
(* RowIsAdmissible.  Whatever was answered, the row of a completed job is  *)
(* what Store has made of that answer: nothing touches either afterwards.  *)
(***************************************************************************)
Estimates == Hours \cup {Null}

(* A known word or the default: strings.ToLower makes no other text of it. *)
LEMMA SanitizeIsKnown ==
  ASSUME NEW text, NEW known, NEW default \in known
  PROVE  /\ Sanitize(text, known, default) \in known
         /\ Column(text, known, default) \in known \cup {Null}
BY DEF Sanitize, Column

LEMMA UrgenciesAreKnown ==
  ASSUME NEW list
  PROVE  ToSet(StoredRecommendations(list)) \subseteq Urgencies
BY SanitizeIsKnown DEF ToSet, StoredRecommendations, Urgencies

(* Rounding to tenths goes to the nearest one, and from the middle either   *)
(* way.                                                                    *)
LEMMA RoundingIsClose ==
  ASSUME NEW h \in Int, NEW tenths \in Tenths(h)
  PROVE  tenths \in Int /\ 10 * tenths - h \in -5..5
<1>1. h # Null
  BY ExtractionAssumption
<1>2. tenths = (h + 4) \div 10 \/ tenths = (h + 5) \div 10
  BY <1>1 DEF Tenths
<1> QED
  BY <1>2

(* What Store writes for an estimate when it does not refuse the rounded    *)
(* number.                                                                 *)
LEMMA HoursFit ==
  ASSUME NEW h \in Estimates, NEW tenths \in Tenths(h), Fits(tenths)
  PROVE  /\ tenths = Null <=> h = Null
         /\ tenths # Null => tenths \in -MaxHours..MaxHours /\ 10 * tenths - h \in -5..5
<1>1. CASE h = Null
  BY <1>1 DEF Tenths
<1>2. CASE h # Null
  <2>1. h \in Int /\ Null \notin Int
    BY <1>2, ExtractionAssumption DEF Estimates
  <2>2. tenths \in Int /\ 10 * tenths - h \in -5..5
    BY <2>1, RoundingIsClose
  <2>3. tenths \in -MaxHours..MaxHours
    BY <2>1, <2>2 DEF Fits
  <2> QED
    BY <1>2, <2>1, <2>2, <2>3
<1> QED
  BY <1>1, <1>2

(* The model estimates hours or leaves them out. *)
LEMMA AnswersEstimate == \A a \in Answers \cup {NoAnswer} : a.hours \in Estimates
BY DEF Answers, NoAnswer, Estimates

RowInv ==
  /\ answer \in Answers \cup {NoAnswer}
  /\ RowIsAdmissible

LEMMA RowKept == RowInv /\ [Next]_vars => RowInv'
<1> SUFFICES ASSUME RowInv, [Next]_vars PROVE RowInv'
  OBVIOUS
<1>1. ASSUME UNCHANGED <<answer, row>>, at' # "completed" \/ at' = at PROVE RowInv'
  BY <1>1 DEF RowInv, RowIsAdmissible
<1>2. ASSUME Reply PROVE answer' \in Answers \cup {NoAnswer} /\ at' # "completed"
  BY <1>2 DEF Reply, RowInv
<1>3. CASE ExtractionStep
  <2>1. CASE CallGroq
    <3>1. answer' \in Answers \cup {NoAnswer} /\ at' # "completed"
      BY <1>2, <2>1 DEF CallGroq, RowInv
    <3> QED
      BY <3>1 DEF RowInv, RowIsAdmissible
  <2>2. CASE CallGemini
    <3>1. answer' \in Answers \cup {NoAnswer} /\ at' # "completed"
      BY <1>2, <2>2 DEF CallGemini
    <3> QED
      BY <3>1 DEF RowInv, RowIsAdmissible
  <2>3. CASE Tick \/ DeadlineExceeded
    BY <1>1, <2>3 DEF Tick, DeadlineExceeded
  <2>4. CASE Store
    <3>1. UNCHANGED answer
      BY <2>4 DEF Store
    <3>2. PICK tenths \in Tenths(answer.hours) :
            \/ /\ Fits(tenths)
               /\ row'.category = Column(answer.category, Categories, "other")
               /\ row'.sentiment = Column(answer.sentiment, Sentiments, "unavailable")
               /\ row'.hours = tenths
               /\ row'.recommendations = StoredRecommendations(answer.recommendations)
            \/ at' = "rejected" /\ UNCHANGED row
      BY <2>4 DEF Store
    <3>3. CASE at' = "rejected" /\ UNCHANGED row
      BY <1>1, <3>1, <3>3
    <3>4. CASE ~ (at' = "rejected" /\ UNCHANGED row)
      <4>1. /\ Fits(tenths)
            /\ row'.category = Column(answer.category, Categories, "other")
            /\ row'.sentiment = Column(answer.sentiment, Sentiments, "unavailable")
            /\ row'.hours = tenths
            /\ row'.recommendations = StoredRecommendations(answer.recommendations)
        BY <3>2, <3>4
      <4>2. row'.category \in Categories \cup {Null} /\ row'.sentiment \in Sentiments \cup {Null}
        BY <4>1, SanitizeIsKnown DEF Categories, Sentiments
      <4>3. answer.hours \in Estimates
        BY AnswersEstimate DEF RowInv
      <4> QED
        BY <3>1, <4>1, <4>2, <4>3, HoursFit, UrgenciesAreKnown DEF RowInv, RowIsAdmissible
    <3> QED
      BY <3>3, <3>4
  <2> QED
    BY <1>3, <2>1, <2>2, <2>3, <2>4 DEF ExtractionStep
<1>4. CASE Transcribe \/ BeginExtraction \/ EndAttempt \/ AfterAttempt \/ UNCHANGED vars
  BY <1>1, <1>4 DEF Transcribe, BeginExtraction, EndAttempt, AfterAttempt, vars, extractionVars
<1> QED
  BY <1>3, <1>4 DEF Next, Extract

(* Whatever the language model answers, what is stored of it meets the      *)
(* constraints of its columns: sanitizeCategory and its like know no way    *)
(* around their lists, and an estimate, negative or not, that the column    *)
(* cannot hold once it is rounded is refused and not cut off.              *)
THEOREM RowFits == Spec => []RowIsAdmissible
<1>1. Init => RowInv
  BY DEF Init, ExtractionInit, RowInv, RowIsAdmissible
<1>2. RowInv => RowIsAdmissible
  BY DEF RowInv
<1> QED
  BY <1>1, <1>2, RowKept, PTL DEF Spec

-----------------------------------------------------------------------------
(***************************************************************************)
(* TypeOK.  The part of the transcription is in its own invariant; the     *)
(* rest is the extraction's.                                               *)
(***************************************************************************)
ExtractionInv ==
  /\ at \in {"waiting", "groq", "gemini", "store", "completed", "rejected", "failed", "timeout"}
  /\ elapsed \in Nat /\ answer \in Answers \cup {NoAnswer}
  /\ modelUsed \in {"groq", "gemini"} /\ row.model \in {"groq", "gemini", Null}

LEMMA ExtractionKept == ExtractionInv /\ [Next]_vars => ExtractionInv'
<1> SUFFICES ASSUME ExtractionInv, [Next]_vars PROVE ExtractionInv'
  OBVIOUS
<1>1. CASE CallGroq
  BY <1>1 DEF CallGroq, Reply, ExtractionInv
<1>2. CASE CallGemini
  BY <1>2 DEF CallGemini, Reply, ExtractionInv
<1>3. CASE Tick
  BY <1>3 DEF Tick, ExtractionInv
<1>4. CASE DeadlineExceeded
  BY <1>4 DEF DeadlineExceeded, ExtractionInv
<1>5. CASE Store
  <2>1. row' = row \/ row'.model = modelUsed
    BY <1>5 DEF Store
  <2> QED
    BY <1>5, <2>1 DEF Store, ExtractionInv
<1>6. CASE BeginExtraction
  BY <1>6 DEF BeginExtraction, ExtractionInv
<1>7. CASE Transcribe \/ EndAttempt \/ AfterAttempt \/ UNCHANGED vars
  BY <1>7 DEF Transcribe, EndAttempt, AfterAttempt, vars, extractionVars, ExtractionInv
<1> QED
  BY <1>1, <1>2, <1>3, <1>4, <1>5, <1>6, <1>7 DEF Next, Extract, ExtractionStep

(* The variables of an attempt keep their types; the row of a job names     *)
(* Groq's model or Gemini's, or none (process_job.go:203).                  *)
THEOREM TypeCorrect == Spec => []TypeOK
<1>1. TranscriptionSpec => []TranscriptionTypeOK
  <2>1. Inv => TranscriptionTypeOK
    BY DEF Inv
  <2> QED
    BY <2>1, InitInv, NextInv, PTL DEF TranscriptionSpec
<1>2. Init => ExtractionInv
  BY DEF Init, ExtractionInit, ExtractionInv, NoRow
<1>3. TranscriptionTypeOK /\ ExtractionInv => TypeOK
  BY DEF TypeOK, ExtractionInv
<1> QED
  BY <1>1, <1>2, <1>3, ExtractionKept, AttemptImplementsTranscription, PTL DEF Spec

-----------------------------------------------------------------------------
(***************************************************************************)
(* TagsAsNamed.  The tags stored are what the loop of normalizeTags leaves *)
(* after its last round, so the proof is an induction over its rounds:     *)
(* every set of natural numbers that holds 0, and n + 1 with n, holds all  *)
(* of them.                                                                *)
(***************************************************************************)
LEMMA LessThanIsWellFounded == IsWellFoundedOn({p \in Nat \X Nat : p[1] < p[2]}, Nat)
<1>1. OpToRel(<, Nat) = {p \in Nat \X Nat : p[1] < p[2]}
  BY Zenon DEF OpToRel
<1> QED
  BY NatLessThanWellFounded, <1>1, Zenon

LEMMA LeastNatural ==
  ASSUME NEW S \in SUBSET Nat, S # {}
  PROVE  \E x \in S : \A y \in S : x <= y
<1> DEFINE R == {p \in Nat \X Nat : p[1] < p[2]}
<1>1. IsWellFoundedOn(R, Nat)
  BY LessThanIsWellFounded
<1> HIDE DEF R
<1>2. PICK x \in S : \A y \in S : <<y, x>> \notin R
  BY <1>1, WFMin
<1>3. \A y \in S : ~ (y < x)
  BY <1>2 DEF R
<1> QED
  BY <1>3

LEMMA AllRounds ==
  ASSUME NEW S, 0 \in S, \A n \in Nat : n \in S => n + 1 \in S
  PROVE  Nat \subseteq S
<1> SUFFICES ASSUME Nat \ S # {} PROVE FALSE
  OBVIOUS
<1>1. PICK x \in Nat \ S : \A y \in Nat \ S : x <= y
  BY LeastNatural
<1>2. x # 0 /\ x - 1 \in Nat
  BY <1>1
<1>3. x - 1 \in S
  BY <1>1, <1>2
<1> QED
  BY <1>1, <1>2, <1>3

LEMMA MinimumOfSome ==
  ASSUME NEW S \in SUBSET Nat, S # {}
  PROVE  Min(S) \in S /\ \A y \in S : Min(S) <= y
<1>1. \E x \in S : \A y \in S : x <= y
  BY LeastNatural
<1> QED
  BY <1>1, Zenon DEF Min

(* The result is a list of the vocabulary as long as each round was run on  *)
(* the result of the one before it.                                        *)
IsLoop(tags, kept, rounds) ==
  kept = [i \in 0..rounds |->
            IF i = 0 THEN <<>> ELSE KeepTag(kept[i - 1], tags[i].word)]

LEMMA LoopRuns ==
  ASSUME NEW tags, NEW rounds \in Nat
  PROVE  \E kept : IsLoop(tags, kept, rounds)
<1> DEFINE S == {n \in Nat : \E kept : IsLoop(tags, kept, n)}
<1>1. 0 \in S
  <2> DEFINE none == [i \in 0..0 |-> <<>>]
  <2>1. none = [i \in 0..0 |-> IF i = 0 THEN <<>> ELSE KeepTag(none[i - 1], tags[i].word)]
    OBVIOUS
  <2>2. IsLoop(tags, none, 0)
    BY <2>1, Zenon DEF IsLoop
  <2> QED
    BY <2>2
<1>2. ASSUME NEW n \in Nat, n \in S PROVE n + 1 \in S
  <2>1. PICK kept : IsLoop(tags, kept, n)
    BY <1>2
  <2> DEFINE more == [i \in 0..(n + 1) |->
                        IF i = n + 1 THEN KeepTag(kept[n], tags[n + 1].word) ELSE kept[i]]
  <2>2. ASSUME NEW i \in 0..(n + 1)
        PROVE  more[i] = IF i = 0 THEN <<>> ELSE KeepTag(more[i - 1], tags[i].word)
    <3>1. CASE i = n + 1
      BY <3>1
    <3>2. CASE i \in 0..n
      <4>1. kept[i] = IF i = 0 THEN <<>> ELSE KeepTag(kept[i - 1], tags[i].word)
        BY <2>1, <3>2, Zenon DEF IsLoop
      <4>2. more[i] = kept[i] /\ (i # 0 => more[i - 1] = kept[i - 1])
        BY <3>2
      <4> QED
        BY <4>1, <4>2
    <3> QED
      BY <3>1, <3>2
  <2>3. IsLoop(tags, more, n + 1)
    <3> HIDE DEF more
    <3>1. DOMAIN more = 0..(n + 1) /\ more = [i \in DOMAIN more |-> more[i]]
      BY DEF more
    <3> QED
      BY <2>2, <3>1, Zenon DEF IsLoop
  <2> QED
    BY <2>3
<1>3. Nat \subseteq S
  <2> HIDE DEF S
  <2> QED
    BY <1>1, <1>2, AllRounds
<1> QED
  BY <1>3

LEMMA NormalizeTagsLoops ==
  ASSUME NEW tags \in Seq(Text(Vocabulary))
  PROVE  \E kept : IsLoop(tags, kept, Len(tags)) /\ NormalizeTags(tags) = kept[Len(tags)]
<1> DEFINE kept == CHOOSE g : IsLoop(tags, g, Len(tags))
<1>1. IsLoop(tags, kept, Len(tags))
  <2>1. Len(tags) \in Nat
    OBVIOUS
  <2> QED
    BY <2>1, LoopRuns, Zenon
<1>2. NormalizeTags(tags) = kept[Len(tags)]
  BY Zenon DEF NormalizeTags, IsLoop
<1> QED
  BY <1>1, <1>2

(* Where a word is first named. *)
Places(tags, w) == {i \in 1..Len(tags) : tags[i].word = w}
First(tags, w) == Min(Places(tags, w))

LEMMA FirstIsNamed ==
  ASSUME NEW tags \in Seq(Text(Vocabulary)), NEW k \in 1..Len(tags)
  PROVE  /\ First(tags, tags[k].word) \in 1..k
         /\ tags[First(tags, tags[k].word)].word = tags[k].word
<1> DEFINE P == Places(tags, tags[k].word)
<1>1. P \in SUBSET Nat /\ k \in P
  BY DEF Places
<1>2. Min(P) \in P /\ Min(P) <= k
  <2> HIDE DEF P
  <2> QED
    BY <1>1, MinimumOfSome
<1> QED
  BY <1>2 DEF Places, First

(* After n rounds: the result is of the words named so far, in the order in *)
(* which each is first named, and what it lacks of them was named later    *)
(* than all of a result that is long enough.                               *)
RoundInv(tags, n, kept) ==
  /\ kept \in Seq(Vocabulary) /\ Len(kept) <= MaxTags
  /\ \A i \in 1..Len(kept) : \E k \in 1..n : tags[k].word = kept[i]
  /\ \A i, j \in 1..Len(kept) : i < j => First(tags, kept[i]) < First(tags, kept[j])
  /\ \A k \in 1..n :
       tags[k].word \in Vocabulary \ ToSet(kept) =>
         /\ Len(kept) = MaxTags
         /\ \A i \in 1..Len(kept) : First(tags, kept[i]) < First(tags, tags[k].word)

LEMMA ARound ==
  ASSUME NEW tags \in Seq(Text(Vocabulary)), NEW n \in Nat, n + 1 <= Len(tags),
         NEW kept, RoundInv(tags, n, kept)
  PROVE  RoundInv(tags, n + 1, KeepTag(kept, tags[n + 1].word))
<1> DEFINE w == tags[n + 1].word
           next == KeepTag(kept, w)
<1> USE ExtractionAssumption
<1>1. /\ kept \in Seq(Vocabulary) /\ Len(kept) \in Nat /\ Len(kept) <= MaxTags
      /\ n + 1 \in 1..Len(tags)
  BY DEF RoundInv
<1>2. ASSUME NEW i \in 1..Len(kept) PROVE First(tags, kept[i]) \in 1..n
  <2>1. PICK k \in 1..n : tags[k].word = kept[i]
    BY <1>2 DEF RoundInv
  <2>2. k \in 1..Len(tags)
    BY <1>1
  <2>3. First(tags, tags[k].word) \in 1..k
    BY <2>2, FirstIsNamed
  <2> QED
    BY <2>1, <2>3
<1>3. First(tags, w) \in 1..(n + 1) /\ tags[First(tags, w)].word = w
  BY <1>1, FirstIsNamed
<1>4. CASE Len(kept) >= MaxTags \/ w \notin Vocabulary \/ w \in ToSet(kept)
  <2>1. next = kept
    BY <1>4 DEF KeepTag
  <2>2. ASSUME w \in Vocabulary \ ToSet(kept)
        PROVE  /\ Len(kept) = MaxTags
               /\ \A i \in 1..Len(kept) : First(tags, kept[i]) < First(tags, w)
    <3>1. CASE First(tags, w) \in 1..n
      BY <1>3, <2>2, <3>1 DEF RoundInv
    <3>2. CASE First(tags, w) = n + 1
      <4>1. \A i \in 1..Len(kept) : First(tags, kept[i]) < n + 1
        BY <1>2
      <4>2. Len(kept) = MaxTags
        BY <1>1, <1>4, <2>2
      <4> QED
        BY <3>2, <4>1, <4>2
    <3> QED
      BY <1>3, <3>1, <3>2
  <2>3. ASSUME NEW k \in 1..(n + 1), tags[k].word \in Vocabulary \ ToSet(kept)
        PROVE  /\ Len(kept) = MaxTags
               /\ \A i \in 1..Len(kept) : First(tags, kept[i]) < First(tags, tags[k].word)
    <3>1. CASE k \in 1..n
      BY <2>3, <3>1 DEF RoundInv
    <3>2. CASE k = n + 1
      BY <2>2, <2>3, <3>2
    <3> QED
      BY <3>1, <3>2
  <2>4. \A i \in 1..Len(kept) : \E k \in 1..(n + 1) : tags[k].word = kept[i]
    <3>1. \A i \in 1..Len(kept) : \E k \in 1..n : tags[k].word = kept[i]
      BY DEF RoundInv
    <3> QED
      BY <3>1
  <2>5. RoundInv(tags, n + 1, kept)
    BY <1>1, <2>3, <2>4 DEF RoundInv
  <2> QED
    BY <2>1, <2>5
<1>5. CASE Len(kept) < MaxTags /\ w \in Vocabulary /\ w \notin ToSet(kept)
  <2>1. next = Append(kept, w)
    BY <1>1, <1>5 DEF KeepTag
  <2>2. /\ next \in Seq(Vocabulary) /\ Len(next) = Len(kept) + 1 /\ Len(next) <= MaxTags
        /\ \A i \in 1..Len(kept) : next[i] = kept[i]
        /\ next[Len(kept) + 1] = w
    BY <1>1, <1>5, <2>1
  <2>3. First(tags, w) = n + 1
    <3> SUFFICES ASSUME First(tags, w) \in 1..n PROVE FALSE
      BY <1>3
    <3>1. Len(kept) = MaxTags
      BY <1>3, <1>5 DEF RoundInv
    <3> QED
      BY <1>1, <1>5, <3>1
  <2>4. \A k \in 1..n : tags[k].word \in Vocabulary => tags[k].word \in ToSet(kept)
    <3>1. ~ (Len(kept) = MaxTags)
      BY <1>1, <1>5
    <3> QED
      BY <3>1 DEF RoundInv
  <2>5. ToSet(kept) \subseteq ToSet(next) /\ w \in ToSet(next)
    BY <1>1, <2>2 DEF ToSet
  <2>6. \A k \in 1..(n + 1) : tags[k].word \in Vocabulary => tags[k].word \in ToSet(next)
    <3>1. \A k \in 1..(n + 1) : k \in 1..n \/ k = n + 1
      OBVIOUS
    <3> QED
      BY <2>4, <2>5, <3>1
  <2>7. ASSUME NEW i \in 1..Len(next) PROVE \E k \in 1..(n + 1) : tags[k].word = next[i]
    <3>1. CASE i \in 1..Len(kept)
      <4>1. PICK k \in 1..n : tags[k].word = kept[i]
        BY <3>1 DEF RoundInv
      <4>2. k \in 1..(n + 1)
        BY <4>1
      <4>3. next[i] = kept[i]
        BY <2>2, <3>1
      <4> QED
        BY <4>1, <4>2, <4>3
    <3>2. CASE i = Len(kept) + 1
      BY <2>2, <3>2
    <3> QED
      BY <1>1, <2>2, <3>1, <3>2
  <2>8. ASSUME NEW i \in 1..Len(next), NEW j \in 1..Len(next), i < j
        PROVE  First(tags, next[i]) < First(tags, next[j])
    <3>1. i \in 1..Len(kept) /\ next[i] = kept[i]
      BY <1>1, <2>2, <2>8
    <3>2. CASE j \in 1..Len(kept)
      BY <2>2, <2>8, <3>1, <3>2 DEF RoundInv
    <3>3. CASE j = Len(kept) + 1
      <4>1. First(tags, kept[i]) < n + 1
        BY <1>2, <3>1
      <4> QED
        BY <2>2, <2>3, <3>1, <3>3, <4>1
    <3> QED
      BY <1>1, <2>2, <3>2, <3>3
  <2> HIDE DEF next, w
  <2>9. RoundInv(tags, n + 1, next)
    BY <2>2, <2>6, <2>7, <2>8 DEF RoundInv
  <2> QED
    BY <2>9 DEF next, w
<1> QED
  BY <1>1, <1>4, <1>5

LEMMA NormalizeTagsInv ==
  ASSUME NEW tags \in Seq(Text(Vocabulary))
  PROVE  RoundInv(tags, Len(tags), NormalizeTags(tags))
<1>1. PICK kept : IsLoop(tags, kept, Len(tags)) /\ NormalizeTags(tags) = kept[Len(tags)]
  BY NormalizeTagsLoops
<1>2. Len(tags) \in Nat
  OBVIOUS
<1>3. ASSUME NEW i \in 0..Len(tags)
      PROVE  kept[i] = IF i = 0 THEN <<>> ELSE KeepTag(kept[i - 1], tags[i].word)
  BY <1>1, Zenon DEF IsLoop
<1> DEFINE S == {n \in Nat : n <= Len(tags) => RoundInv(tags, n, kept[n])}
<1>4. 0 \in S
  <2>1. kept[0] = <<>>
    BY <1>2, <1>3
  <2>2. RoundInv(tags, 0, <<>>)
    BY ExtractionAssumption DEF RoundInv
  <2> QED
    BY <2>1, <2>2
<1>5. ASSUME NEW n \in Nat, n \in S PROVE n + 1 \in S
  <2> SUFFICES ASSUME n + 1 <= Len(tags) PROVE RoundInv(tags, n + 1, kept[n + 1])
    OBVIOUS
  <2>1. RoundInv(tags, n, kept[n])
    BY <1>2, <1>5
  <2>2. kept[n + 1] = KeepTag(kept[n], tags[n + 1].word)
    BY <1>2, <1>3
  <2> QED
    BY <2>1, <2>2, ARound
<1>6. Nat \subseteq S
  <2> HIDE DEF S
  <2> QED
    BY <1>4, <1>5, AllRounds
<1> QED
  BY <1>1, <1>2, <1>6

Named(tags) == {w \in Vocabulary : \E i \in 1..Len(tags) : tags[i].word = w}

LEMMA MinOfTwo ==
  ASSUME NEW m \in Nat, NEW n \in Nat
  PROVE  Min({m, n}) = IF m <= n THEN m ELSE n
<1>1. {m, n} \in SUBSET Nat /\ {m, n} # {}
  OBVIOUS
<1>2. Min({m, n}) \in {m, n} /\ \A y \in {m, n} : Min({m, n}) <= y
  BY <1>1, MinimumOfSome
<1> QED
  BY <1>2

LEMMA CountTo ==
  ASSUME NEW n \in Nat
  PROVE  Cardinality(1..n) = n
<1>1. 1 \in Int /\ n \in Int
  OBVIOUS
<1>2. Cardinality(1..n) = IF 1 > n THEN 0 ELSE (n - 1) + 1
  BY <1>1, FS_Interval, Zenon
<1> QED
  BY <1>2

LEMMA NamedIsFinite ==
  ASSUME NEW tags \in Seq(Text(Vocabulary))
  PROVE  IsFiniteSet(Named(tags)) /\ Cardinality(Named(tags)) \in Nat
<1> DEFINE Words == {tags[i].word : i \in 1..Len(tags)}
           f == [i \in 1..Len(tags) |-> tags[i].word]
<1>1. IsFiniteSet(1..Len(tags))
  BY FS_Interval
<1>2. f \in Surjection(1..Len(tags), Words)
  BY DEF Surjection
<1>3. IsFiniteSet(Words)
  <2> HIDE DEF f, Words
  <2> QED
    BY <1>1, <1>2, FS_Surjection
<1>4. Named(tags) \in SUBSET Words
  BY DEF Named
<1> HIDE DEF Words
<1>5. IsFiniteSet(Named(tags))
  BY <1>3, <1>4, FS_Subset
<1> QED
  BY <1>5, FS_CardinalityType

(* As many tags are kept as the vocabulary has of those named, at most      *)
(* maxTags: the result holds each of them once, and lacks one only when it *)
(* is long enough.                                                         *)
LEMMA AsManyAsNamed ==
  ASSUME NEW tags \in Seq(Text(Vocabulary)), NEW kept, RoundInv(tags, Len(tags), kept)
  PROVE  /\ ToSet(kept) \subseteq Named(tags)
         /\ Len(kept) = Min({MaxTags, Cardinality(Named(tags))})
<1>1. /\ kept \in Seq(Vocabulary) /\ Len(kept) \in Nat /\ Len(kept) <= MaxTags
      /\ MaxTags \in Nat
  BY ExtractionAssumption DEF RoundInv
<1>2. \A i \in 1..Len(kept) : kept[i] \in Named(tags)
  BY <1>1 DEF RoundInv, Named
<1>3. \A i, j \in 1..Len(kept) : kept[i] = kept[j] => i = j
  <2> SUFFICES ASSUME NEW i \in 1..Len(kept), NEW j \in 1..Len(kept), i < j, kept[i] = kept[j]
               PROVE  FALSE
    BY <1>1
  <2>1. First(tags, kept[i]) < First(tags, kept[j])
    BY DEF RoundInv
  <2>2. First(tags, kept[i]) \in Nat
    <3>1. PICK k \in 1..Len(tags) : tags[k].word = kept[i]
      BY DEF RoundInv
    <3> QED
      BY <3>1, FirstIsNamed
  <2> QED
    BY <2>1, <2>2
<1>4. kept \in Injection(1..Len(kept), Named(tags))
  <2>1. kept \in [1..Len(kept) -> Named(tags)]
    BY <1>1, <1>2
  <2> QED
    BY <1>3, <2>1 DEF Injection, IsInjective
<1>5. IsFiniteSet(Named(tags)) /\ Cardinality(Named(tags)) \in Nat
  BY NamedIsFinite
<1>6. Cardinality(1..Len(kept)) = Len(kept)
  BY <1>1, CountTo
<1>7. /\ Len(kept) <= Cardinality(Named(tags))
      /\ Len(kept) = Cardinality(Named(tags)) <=> kept \in Surjection(1..Len(kept), Named(tags))
  BY <1>4, <1>5, <1>6, FS_Injection
<1>8. ToSet(kept) \subseteq Named(tags)
  BY <1>1, <1>2 DEF ToSet
<1>9. CASE Len(kept) = MaxTags
  BY <1>1, <1>5, <1>7, <1>8, <1>9, MinOfTwo
<1>10. CASE Len(kept) # MaxTags
  <2>1. ASSUME NEW w \in Named(tags) PROVE \E i \in 1..Len(kept) : kept[i] = w
    <3>1. PICK k \in 1..Len(tags) : tags[k].word = w /\ w \in Vocabulary
      BY DEF Named
    <3>2. w \in ToSet(kept)
      BY <1>10, <3>1 DEF RoundInv
    <3> QED
      BY <1>1, <3>2 DEF ToSet
  <2>2. kept \in Surjection(1..Len(kept), Named(tags))
    BY <1>4, <2>1 DEF Injection, Surjection
  <2> QED
    BY <1>1, <1>5, <1>7, <1>8, <2>2, MinOfTwo
<1> QED
  BY <1>9, <1>10

(* What TagsAsNamed says of the answer, of any list of texts. *)
LEMMA TagsOfAnyAnswer ==
  ASSUME NEW tags \in Seq(Text(Vocabulary)), NEW kept, kept = NormalizeTags(tags)
  PROVE  /\ Len(kept) = Min({MaxTags, Cardinality(Named(tags))})
         /\ ToSet(kept) \subseteq Named(tags)
         /\ \A i, j \in 1..Len(kept) : i < j => First(tags, kept[i]) < First(tags, kept[j])
         /\ \A i \in 1..Len(kept), w \in Named(tags) \ ToSet(kept) :
              First(tags, kept[i]) < First(tags, w)
<1>1. RoundInv(tags, Len(tags), kept)
  BY NormalizeTagsInv
<1>2. ASSUME NEW i \in 1..Len(kept), NEW w \in Named(tags) \ ToSet(kept)
      PROVE  First(tags, kept[i]) < First(tags, w)
  <2>1. PICK k \in 1..Len(tags) : tags[k].word = w /\ w \in Vocabulary
    BY DEF Named
  <2> QED
    BY <1>1, <2>1 DEF RoundInv
<1>3. \A i, j \in 1..Len(kept) : i < j => First(tags, kept[i]) < First(tags, kept[j])
  BY <1>1 DEF RoundInv
<1> QED
  BY <1>1, <1>2, <1>3, AsManyAsNamed

(* The tags of an answer are a list of texts. *)
LEMMA AnswersName == \A a \in Answers \cup {NoAnswer} : a.tags \in Seq(Text(Vocabulary))
<1>1. \A t \in BoundedSeq(Text(Vocabulary), MaxRaw) : t \in Seq(Text(Vocabulary))
  BY ExtractionAssumption DEF BoundedSeq, SeqOf
<1>2. NoAnswer.tags = <<>> /\ <<>> \in Seq(Text(Vocabulary))
  BY DEF NoAnswer
<1> QED
  BY <1>1, <1>2 DEF Answers, NoAnswer

TagsInv ==
  /\ answer \in Answers \cup {NoAnswer}
  /\ at = "completed" => row.tags = NormalizeTags(answer.tags)

LEMMA TagsKept == TagsInv /\ [Next]_vars => TagsInv'
<1> SUFFICES ASSUME TagsInv, [Next]_vars PROVE TagsInv'
  OBVIOUS
<1>1. ASSUME UNCHANGED <<answer, row>>, at' # "completed" \/ at' = at PROVE TagsInv'
  BY <1>1 DEF TagsInv
<1>2. ASSUME Reply PROVE answer' \in Answers \cup {NoAnswer} /\ at' # "completed"
  BY <1>2 DEF Reply, TagsInv
<1>3. CASE CallGroq
  <2>1. answer' \in Answers \cup {NoAnswer} /\ at' # "completed"
    BY <1>2, <1>3 DEF CallGroq, TagsInv
  <2> QED
    BY <2>1 DEF TagsInv
<1>4. CASE CallGemini
  <2>1. answer' \in Answers \cup {NoAnswer} /\ at' # "completed"
    BY <1>2, <1>4 DEF CallGemini
  <2> QED
    BY <2>1 DEF TagsInv
<1>5. CASE Tick \/ DeadlineExceeded
  BY <1>1, <1>5 DEF Tick, DeadlineExceeded
<1>6. CASE Store
  <2>1. UNCHANGED answer
    BY <1>6 DEF Store
  <2>2. (at' = "rejected" /\ UNCHANGED row) \/ row'.tags = NormalizeTags(answer.tags)
    BY <1>6 DEF Store
  <2>3. CASE at' = "rejected" /\ UNCHANGED row
    BY <1>1, <2>1, <2>3
  <2>4. CASE row'.tags = NormalizeTags(answer.tags)
    <3>1. NormalizeTags(answer.tags)' = NormalizeTags(answer.tags)
      BY <2>1 DEF NormalizeTags
    <3> QED
      BY <2>1, <2>4, <3>1 DEF TagsInv
  <2> QED
    BY <2>2, <2>3, <2>4
<1>7. CASE Transcribe \/ BeginExtraction \/ EndAttempt \/ AfterAttempt \/ UNCHANGED vars
  BY <1>1, <1>7 DEF Transcribe, BeginExtraction, EndAttempt, AfterAttempt, vars, extractionVars
<1> QED
  BY <1>3, <1>4, <1>5, <1>6, <1>7 DEF Next, Extract, ExtractionStep

(* Whatever list of tags the model answers, of any length and however they  *)
(* are spelled, the tags stored are the first of those that the vocabulary *)
(* allows, in the order in which they are first named, each once (what     *)
(* UNIQUE (job_id, tag) asks of the inserts) and as many as there are up to*)
(* maxTags (extract.go:369-392).                                           *)
THEOREM TagsAreTheFirstNamed == Spec => []TagsAsNamed
<1>1. Init => TagsInv
  BY DEF Init, ExtractionInit, TagsInv
<1>2. TagsInv => TagsAsNamed
  <2> SUFFICES ASSUME TagsInv, at = "completed" PROVE TagsAsNamed
    BY DEF TagsAsNamed
  <2>1. answer.tags \in Seq(Text(Vocabulary)) /\ row.tags = NormalizeTags(answer.tags)
    BY AnswersName DEF TagsInv
  <2>2. Found = Named(answer.tags) /\ \A w : FirstAt(w) = First(answer.tags, w)
    BY DEF Found, Named, FirstAt, First, Places
  <2> QED
    BY <2>1, <2>2, TagsOfAnyAnswer DEF TagsAsNamed
<1> QED
  BY <1>1, <1>2, TagsKept, PTL DEF Spec

=============================================================================
