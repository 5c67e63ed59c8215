SPECIFICATION Spec
CONSTANTS
  none = none
  t1 = t1
  t2 = t2
  i1 = i1
  None = none
  Turns = {t1, t2}
  Injections = {i1}
  MaxObject = 3
  MaxNudges = 1
  MaxCrashes = 1
  Modes <- CompressThenMemory
  Allowed = {"clear"}
INVARIANTS TypeOK HistoryRetained NoPromptLeft
PROPERTY CompactionEnds
