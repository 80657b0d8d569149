SPECIFICATION Spec
CONSTANTS
  Keys = {k1, k2}
  Protection = 2
  Spacing = 1
  Span = 2
  ExplicitDelay = 1
  MinBulk = 2
  BulkPercent = 20
  Recalibrate = 10
  BackoffBase = 1
  AuthCooldown = 10
  MaxNow = 4
  MaxCrash = 1
  MaxReload = 0
  MaxFail = 1
  MaxApprove = 0
SYMMETRY Symmetry
VIEW RestartView
INVARIANTS KnownIsLive
PROPERTIES QuietAfterTrouble
