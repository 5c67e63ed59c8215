SPECIFICATION Spec
CONSTANTS
  CommandDrafts = {c1}
  AutosendDrafts = {}
  ReviewedDrafts = {w1}
  NoDraft = NoDraft
  Requests = {r1, r2}
  Bypass = TRUE
PROPERTIES ImplementsDurableDrafts EveryRequestEnds
