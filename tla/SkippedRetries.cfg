\* The reply to Enqueue is lost, and the worker finds a row without audio.
SPECIFICATION Spec
CONSTANTS
  j1 = j1  j2 = j2  w1 = w1  w2 = w2  m1 = m1  r1 = r1  t1 = t1
  NoJob = NoJob
  Jobs <- OneJob
  Workers <- OneWorker
  MaxPhotos = 0
  Materials <- OneMaterial
  Recommendations <- OneRecommendation
  Tags <- OneTag
  Extractions <- MaterialOnly
  MaxRetry = 3
  FailingCalls = {}
  LostReplies = {"redis"}
  Faults = {}
INVARIANT ArchivedIsFailed
