\* Any call fails, but worker processes stay up and the queue never loses a reply.
SPECIFICATION Spec
CONSTANTS
  j1 = j1  j2 = j2  w1 = w1  w2 = w2  m1 = m1  r1 = r1  t1 = t1
  NoJob = NoJob
  Jobs <- OneJob
  Workers <- TwoWorkers
  MaxPhotos = 2
  Materials <- OneMaterial
  Recommendations <- OneRecommendation
  Tags <- OneTag
  Extractions <- AllOrNothing
  MaxRetry = 3
  FailingCalls = {"db", "put", "get", "delete", "redis", "provider"}
  LostReplies = {"db", "put", "delete"}
  Faults = {"disconnect", "apiCrash"}
SYMMETRY WorkersAlike
INVARIANTS
  TaskHasAudio
  NoDuplicateChildren
