\* One address, two requests at a time: what eviction may change.
SPECIFICATION WindowSpec
CONSTANTS
  ip1 = ip1  r1 = r1  r2 = r2  b1 = b1  b2 = b2  b3 = b3
  None = None
  IPs <- OneAddress
  Requests <- TwoRequests
  Buckets <- ThreeBuckets
  Period = 2
  Burst = 2
  IdleTimeout = 4
  CleanupInterval = 2
  Slack = 1
  MaxTime = 8
SYMMETRY Alike
INVARIANTS
  EntriesAreRecent
  AdmittedInWindow
PROPERTY ImplementsTokenBucket
