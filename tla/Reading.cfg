SPECIFICATION ReadSpec
CONSTANTS
  Series = {g}
  Global = g
  Window = 1
  SealDelay = 0
  RawAge = 2
  MaxSpan = 1
  MaxQueue = 2
  SealLimit = 1
  CleanupLimit = 1
  MaxNow = 4
  MaxSeq = 2
  MaxEpoch = 1
INVARIANTS TypeOK StoredOnce QueueConsistent ReadComplete
PROPERTIES ImplementsHistory
