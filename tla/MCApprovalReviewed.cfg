SPECIFICATION Spec
CONSTANTS
  CommandDrafts = {c1}
  AutosendDrafts = {}
  ReviewedDrafts = {w1}
  NoDraft = NoDraft
  Requests = {r1, r2, r3}
  Bypass = FALSE
INVARIANTS TypeOK SingleShot RefusalIsFinal Consent
PROPERTY DiskNeverRegresses
