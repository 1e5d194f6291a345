\* An audio of two pieces; all lists of up to three tags, three of them
\* allowed, two of them kept.
SPECIFICATION FairSpec
CONSTANTS
  Chunks = 2
  Vocabulary = {"leak_repair", "grounding", "mulching"}
  Foreign = {"roofing"}
  Blank = ""
  MaxTags = 2
  MaxRaw = 3
  HasGeminiKey = TRUE
  LLMTimeout = 2
  Hours <- SomeHours
  Null = Null
  MaxHours = 9999
INVARIANTS
  WholeAudioTranscribed
  TagsAsNamed
  RowIsAdmissible
PROPERTIES
  AttemptEnds
