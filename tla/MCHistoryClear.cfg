SPECIFICATION Spec
CONSTANTS
  none = none
  t1 = t1
  t2 = t2
  i1 = i1
  None = none
  Turns = {t1, t2}
  Injections = {}
  MaxObject = 4
  MaxNudges = 0
  MaxCrashes = 0
  Modes <- SwitchedOff
  Allowed = {"overlap", "clear"}
INVARIANT ClearedStaysCleared
