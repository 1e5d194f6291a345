\* Workers crash and lose leases while the database, R2, the queue and the providers fail.
SPECIFICATION FairSpec
CONSTANTS
  j1 = j1  j2 = j2  w1 = w1  w2 = w2  m1 = m1  r1 = r1  t1 = t1
  NoJob = NoJob
  Jobs <- OneJob
  Workers <- TwoWorkers
  MaxPhotos = 0
  Materials <- OneMaterial
  Recommendations <- OneRecommendation
  Tags <- OneTag
  Extractions <- MaterialOnly
  MaxRetry = 1
  FailingCalls = {"db", "get", "redis", "provider"}
  LostReplies = {"db", "redis"}
  Faults = {"apiCrash", "workerCrash", "leaseLoss", "timeout"}
INVARIANTS
  TypeOK
  TaskHasRow
  TranscriptUsable
PROPERTIES
  ImplementsTaskQueue
  EveryTaskSettles
