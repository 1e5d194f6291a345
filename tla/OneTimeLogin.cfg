\* Three requests for one link and two connections; calls fail, the API process dies
\* or is stopped, the link expires.
SPECIFICATION FairSpec
CONSTANTS
  r1 = r1  r2 = r2  r3 = r3
  Tokens = {1}
  Requests <- ThreeRequests
  Unknown = 0
  TTL = 1
  MaxTime = 2
  PoolSize = 2
  Flaky = TRUE
  Crashes = TRUE
INVARIANTS
  OneSessionPerToken
  ConsumedAfterLookup
  UnauthorizedIsFinal
PROPERTIES
  ImplementsOneTimeToken
  EveryVerifyIsAnswered
  StopEnds
