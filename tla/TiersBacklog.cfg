SPECIFICATION Spec
CONSTANTS
  Series = {s1}
  Hour = 2
  SealAge = 2
  RawAge = 6
  SummaryAge = 7
  Limit = 1
  MaxNow = 6
  MaxEpoch = 1
  MaxCorrupt = 0
SYMMETRY Symmetry
INVARIANTS SummaryNotLost
