\* Two jobs share a worker, with a healthy database: the pipeline implements JobLifecycle.
SPECIFICATION FairSpec
CONSTANTS
  j1 = j1  j2 = j2  w1 = w1  w2 = w2  m1 = m1  r1 = r1  t1 = t1
  NoJob = NoJob
  Jobs <- TwoJobs
  Workers <- OneWorker
  MaxPhotos = 1
  Materials <- OneMaterial
  Recommendations <- OneRecommendation
  Tags <- OneTag
  Extractions <- MaterialOnly
  MaxRetry = 1
  FailingCalls = {"put", "get", "redis", "provider"}
  LostReplies = {}
  Faults = {"apiCrash"}
INVARIANTS
  ArchivedIsFailed
  FailedRequestLeavesNoObject
PROPERTIES
  StatusFollowsPipeline
  ImplementsLifecycle
  AcceptedIsResolved
