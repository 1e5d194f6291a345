\* A healthy database, everything else fails.
SPECIFICATION Spec
CONSTANTS
  j1 = j1  j2 = j2  w1 = w1  w2 = w2  m1 = m1  r1 = r1  t1 = t1
  NoJob = NoJob
  Jobs <- OneJob
  Workers <- OneWorker
  MaxPhotos = 2
  Materials <- OneMaterial
  Recommendations <- OneRecommendation
  Tags <- OneTag
  Extractions <- MaterialOnly
  MaxRetry = 1
  FailingCalls = {"put", "get", "delete", "redis", "provider"}
  LostReplies = {"put", "delete", "redis"}
  Faults = {"disconnect", "apiCrash", "workerCrash", "leaseLoss", "timeout", "shutdown"}
INVARIANTS
  AcceptedIsDurable
  NoDanglingKeys
