\* Two tasks, one retry, the process is stopped twice.
SPECIFICATION Spec
CONSTANTS
  Unset = Unset
  Empty = Empty
  Junk = Junk
  Refused = Refused
  Environments <- SomeEnvironments
  Tasks = {"t1", "t2"}
  MaxRetry = 1
  MaxStops = 2
INVARIANTS
  AttemptsAreEquipped
PROPERTIES
  ProcessEnds
  EveryTaskEnds
