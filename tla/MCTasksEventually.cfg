SPECIFICATION FairSpec
CONSTANTS
  none = none
  s1 = s1
  s2 = s2
  m1 = m1
  q1 = q1
  None = none
  Slots = {s1}
  Manual = {}
  Requests = {q1}
  Kind = "oneshot"
  Redis = FALSE
  Generations = TRUE
  MaxRevision = 2
  MaxStream = 1
  MaxFailures = 1
  MaxCrashes = 0
INVARIANTS TypeOK
PROPERTIES RetiresOnlyItself EnabledRuns
CHECK_DEADLOCK FALSE
