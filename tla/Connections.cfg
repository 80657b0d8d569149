SPECIFICATION Spec
CONSTANTS
  Request = {r1, r2}
  Conn = {c1, c2}
  Address = {a1, a2}
  NoAddress = NoAddress
  Session = {u1}
  MaxConfirm = 2
SYMMETRY Symmetry
INVARIANTS TypeOK OwnedRuns NoneMissed PurgeConfirmed SequentialExact
PROPERTIES ShortenedOnlyConfirmed
CHECK_DEADLOCK FALSE
