SPECIFICATION Spec
CONSTANTS
  Series = {s1}
  Hour = 2
  SealAge = 2
  RawAge = 3
  SummaryAge = 4
  Limit = 6
  MaxNow = 7
  MaxEpoch = 1
  MaxCorrupt = 2
SYMMETRY Symmetry
INVARIANTS TypeOK SummaryOnce SummaryKept
PROPERTIES SealedBeforeExpiry
