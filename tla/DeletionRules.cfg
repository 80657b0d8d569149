SPECIFICATION Spec
CONSTANTS
  Keys = {k1, k2}
  Protection = 2
  Spacing = 1
  Span = 2
  ExplicitDelay = 1
  MinBulk = 2
  BulkPercent = 20
  Recalibrate = 10
  BackoffBase = 1
  AuthCooldown = 10
  MaxNow = 6
  MaxCrash = 0
  MaxReload = 1
  MaxFail = 0
  MaxApprove = 1
SYMMETRY Symmetry
VIEW RulesView
INVARIANTS TypeOK
PROPERTIES EvidenceBeforeDeletion BulkNeedsApproval
