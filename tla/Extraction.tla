----------------------------- MODULE Extraction -----------------------------
(***************************************************************************)
(* One call of extractJobData (extract.go) and what ProcessTask makes of   *)
(* its result (process_job.go): Groq is asked for a report, Gemini if Groq *)
(* is rate limited, and the answer is made fit for the columns of jobs,    *)
(* job_tags, job_materials and job_recommendations.                        *)
(*                                                                         *)
(* The answer is free text of a language model.  A string is a record of   *)
(* the word it stands for and how it is spelled: plainly, with capitals    *)
(* (which strings.ToLower undoes) or with spaces around it (TrimSpace).    *)
(* Labour hours are given in hundredths.                                   *)
(***************************************************************************)
EXTENDS Integers, FiniteSets, SequencesExt

CONSTANTS
  Vocabulary,     \* allowedTagsList
  Foreign,        \* words outside of every list
  Blank,          \* the empty string; spaced, spaces alone
  MaxTags,        \* maxTags
  MaxRaw,         \* how many tags the model may return
  HasGeminiKey,   \* is GEMINI_API_KEY configured?
  LLMTimeout,     \* defaultLLMTimeout
  Hours,          \* labour hours the model may estimate, in hundredths, negative ones too
  Null,           \* null in the answer, NULL in the row
  MaxHours        \* the largest value of DECIMAL(4,1), in tenths

ASSUME ExtractionAssumption ==
  /\ MaxTags \in Nat \ {0} /\ MaxRaw \in Nat /\ LLMTimeout \in Nat \ {0}
  /\ HasGeminiKey \in BOOLEAN
  /\ Hours \subseteq Int /\ Null \notin Int /\ MaxHours \in Nat

Urgencies == {"immediate", "within_30_days", "when_convenient"}
Sentiments == {"positive", "neutral", "negative", "unavailable"}
Categories ==
  {"electrical", "plumbing", "hvac", "cleaning", "landscaping", "general", "other"}

Spellings == {"plain", "capital", "spaced"}
Text(words) == [word: words \cup Foreign \cup {Blank}, spelling: Spellings]
NoText == [word |-> Blank, spelling |-> "plain"]
IsEmpty(text) == text = NoText

(* llmExtractionResult: the fields that are changed on the way to the       *)
(* database.  A material is its name.                                      *)
NoAnswer ==
  [tags |-> <<>>, category |-> NoText, sentiment |-> NoText, hours |-> Null,
   materials |-> <<>>, recommendations |-> <<>>]

Recommendations ==
  [description: {NoText, [word |-> "description", spelling |-> "plain"]}, urgency: Text(Urgencies)]

(* The parts of an answer do not influence each other, so each varies alone.*)
Answers ==
  {[NoAnswer EXCEPT !.tags = t] : t \in BoundedSeq(Text(Vocabulary), MaxRaw)}
    \cup {[NoAnswer EXCEPT !.category = c] : c \in Text(Categories)}
    \cup {[NoAnswer EXCEPT !.sentiment = s] : s \in Text(Sentiments)}
    \cup {[NoAnswer EXCEPT !.hours = h] : h \in Hours}
    \cup {[NoAnswer EXCEPT !.materials = l] : l \in BoundedSeq(Text({"pipe"}), 2)}
    \cup {[NoAnswer EXCEPT !.recommendations = r] : r \in BoundedSeq(Recommendations, 2)}

VARIABLES
  at,         \* "waiting", "groq", "gemini", "store"; ended: "completed", "rejected", "failed", "timeout"
  elapsed,    \* since llmCtx was made
  answer,     \* the answer of the language model
  modelUsed,  \* who has given it
  row         \* what is stored of it

extractionVars == <<at, elapsed, answer, modelUsed, row>>

(* The columns of the job before its report is there. *)
NoRow ==
  [tags |-> <<>>, category |-> Null, sentiment |-> Null, hours |-> Null,
   materials |-> <<>>, recommendations |-> <<>>, model |-> Null]

ExtractionInit ==
  /\ at = "waiting" /\ elapsed = 0
  /\ answer = NoAnswer /\ modelUsed = "groq"
  /\ row = NoRow

-----------------------------------------------------------------------------
(* Mutant of Sanitize: the text is returned as it is spelled. *)
SanitizeAsSpelled(text, known, default) ==
  IF text.word \notin known \/ text.spelling = "spaced" THEN default
  ELSE IF text.spelling = "capital" THEN "as spelled" ELSE text.word

(* sanitizeUrgency, sanitizeSentiment and sanitizeCategory: a known word in *)
(* any case, but not with spaces around it.                                *)
Sanitize(text, known, default) ==
  IF text.word \in known /\ text.spelling # "spaced" THEN text.word ELSE default

(* An empty field is stored as NULL. *)
Column(text, known, default) ==
  IF IsEmpty(text) THEN Null ELSE Sanitize(text, known, default)

(* Mutant of NormalizeTags: duplicates are looked for before lowercasing. *)
NormalizeTagsLate(tags) ==
  LET keep(result, t) ==
        IF Len(result) >= MaxTags \/ t.word \notin Vocabulary \/ t \in ToSet(result)
        THEN result ELSE Append(result, t)
      kept == FoldLeft(keep, <<>>, tags)
  IN [i \in 1..Len(kept) |-> kept[i].word]

(* One round of the loop of normalizeTags, with allowedTagsSet, which holds *)
(* no blank tag; the loop ends when the result is long enough.             *)
KeepTag(result, word) ==
  IF Len(result) >= MaxTags \/ word \notin Vocabulary \/ word \in ToSet(result)
  THEN result ELSE Append(result, word)

(* normalizeTags with maxTags: the result after as many rounds as there are *)
(* tags.                                                                   *)
NormalizeTags(tags) ==
  LET kept[i \in 0..Len(tags)] ==
        IF i = 0 THEN <<>> ELSE KeepTag(kept[i - 1], tags[i].word)
  IN kept[Len(tags)]

(* What strconv.FormatFloat(hours, 'f', 1, 64) may give.  It rounds the      *)
(* binary number next to the estimate, and a tie of that to even, so the   *)
(* middle between two tenths may go to either: 0.25 and 2.55 go down, 0.75 *)
(* goes up.  Everything else goes to the nearest tenth.                    *)
Tenths(hours) ==
  IF hours = Null THEN {Null} ELSE {(hours + 4) \div 10, (hours + 5) \div 10}

(* Does DECIMAL(4,1) hold the rounded number? *)
Fits(tenths) == tenths = Null \/ tenths \in -MaxHours..MaxHours

(* The loops over materials_used and recommendations skip what has no name  *)
(* or no description.                                                      *)
StoredMaterials(materials) == SelectSeq(materials, LAMBDA name : ~IsEmpty(name))

StoredRecommendations(recommendations) ==
  LET described == SelectSeq(recommendations, LAMBDA r : ~IsEmpty(r.description))
  IN [i \in 1..Len(described) |-> Sanitize(described[i].urgency, Urgencies, "when_convenient")]

-----------------------------------------------------------------------------
(* llmCtx is made once, before the first call. *)
Deadline == LLMTimeout

Asking == at \in {"groq", "gemini"}
Ended == at \in {"completed", "rejected", "failed", "timeout"}

(* The content of a chat completion, or a reason to give up: another        *)
(* status, a body that cannot be read or parsed, no choices, bad JSON.     *)
Reply ==
  \/ answer' \in Answers /\ at' = "store"
  \/ at' = "failed" /\ UNCHANGED answer

(* Groq answers, with 429 (and the key configured) Gemini is asked. *)
CallGroq ==
  /\ at = "groq" /\ elapsed < Deadline
  /\ \/ Reply /\ UNCHANGED modelUsed
     \/ /\ HasGeminiKey
        /\ at' = "gemini" /\ modelUsed' = "gemini"
        /\ UNCHANGED answer
  /\ UNCHANGED <<elapsed, row>>

CallGemini ==
  /\ at = "gemini" /\ elapsed < Deadline
  /\ Reply
  /\ UNCHANGED <<elapsed, modelUsed, row>>

Tick ==
  /\ Asking /\ elapsed < Deadline
  /\ elapsed' = elapsed + 1
  /\ UNCHANGED <<at, answer, modelUsed, row>>

(* llmCtx expires, and with it the call that is under way. *)
DeadlineExceeded ==
  /\ Asking /\ elapsed = Deadline
  /\ at' = "timeout"
  /\ UNCHANGED <<elapsed, answer, modelUsed, row>>

(* UpdateJobPipeline, which PostgreSQL refuses if a number is too large for *)
(* its column, and what is handed to CreateJobMaterial,                    *)
(* CreateJobRecommendation and CreateJobTag; that any of these inserts may *)
(* fail, and is then only logged, is in JobWorker.                         *)
Store ==
  /\ at = "store"
  /\ \E tenths \in Tenths(answer.hours) :
       \/ /\ Fits(tenths)
          /\ row' = [tags |-> NormalizeTags(answer.tags),
                     category |-> Column(answer.category, Categories, "other"),
                     sentiment |-> Column(answer.sentiment, Sentiments, "unavailable"),
                     hours |-> tenths,
                     materials |-> StoredMaterials(answer.materials),
                     recommendations |-> StoredRecommendations(answer.recommendations),
                     model |-> modelUsed]
          /\ at' = "completed"
       \/ ~Fits(tenths) /\ at' = "rejected" /\ UNCHANGED row
  /\ UNCHANGED <<elapsed, answer, modelUsed>>

ExtractionStep == CallGroq \/ CallGemini \/ Tick \/ DeadlineExceeded \/ Store

(* Time passes, and PostgreSQL answers; a provider may stall for ever. *)
ExtractionFairness ==
  /\ WF_extractionVars(Tick)
  /\ WF_extractionVars(DeadlineExceeded)
  /\ WF_extractionVars(Store)

-----------------------------------------------------------------------------
Found == {w \in Vocabulary : \E i \in 1..Len(answer.tags) : answer.tags[i].word = w}
FirstAt(w) == Min({i \in 1..Len(answer.tags) : answer.tags[i].word = w})

(* Reference for normalizeTags: the tags stored are the first of those that *)
(* the vocabulary allows, in the order in which the model first names them,*)
(* as many as there are up to maxTags, however they are spelled.           *)
TagsAsNamed ==
  at = "completed" =>
    /\ Len(row.tags) = Min({MaxTags, Cardinality(Found)})
    /\ ToSet(row.tags) \subseteq Found
    /\ \A i, j \in 1..Len(row.tags) : i < j => FirstAt(row.tags[i]) < FirstAt(row.tags[j])
    /\ \A i \in 1..Len(row.tags), w \in Found \ ToSet(row.tags) : FirstAt(row.tags[i]) < FirstAt(w)

(* Whatever the model answers, what is stored meets the constraints of its  *)
(* columns (the CHECK on urgency, DECIMAL(4,1) of ai_labor_hours; UNIQUE   *)
(* (job_id, tag) of job_tags is a part of TagsAsNamed), category and       *)
(* sentiment are of the lists the prompt gives, and the hours, which may be *)
(* negative, are within half a tenth of the estimate.                      *)
RowIsAdmissible ==
  at = "completed" =>
    /\ row.category \in Categories \cup {Null}
    /\ row.sentiment \in Sentiments \cup {Null}
    /\ ToSet(row.recommendations) \subseteq Urgencies
    /\ row.hours = Null <=> answer.hours = Null
    /\ row.hours # Null =>
         row.hours \in -MaxHours..MaxHours /\ 10 * row.hours - answer.hours \in -5..5

=============================================================================
