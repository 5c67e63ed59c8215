SPECIFICATION Spec
CONSTANTS
  none = none
  s1 = s1
  s2 = s2
  m1 = m1
  q1 = q1
  None = none
  Slots = {s1, s2}
  Manual = {m1}
  Requests = {q1}
  Kind = "oneshot"
  Redis = TRUE
  Generations = FALSE
  MaxRevision = 1
  MaxStream = 1
  MaxFailures = 0
  MaxCrashes = 1
INVARIANTS NoOverlap NoRetiredRuns
PROPERTIES OneShotOnce
CHECK_DEADLOCK FALSE
