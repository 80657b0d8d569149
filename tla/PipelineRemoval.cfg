SPECIFICATION FairSpec
CONSTANTS
  Series = {g, s1}
  Global = g
  Window = 2
  SealDelay = 0
  RawAge = 4
  MaxSpan = 1
  MaxQueue = 2
  SealLimit = 1
  CleanupLimit = 1
  MaxNow = 4
  MaxSeq = 1
  MaxEpoch = 1
INVARIANTS NoResurrection 
PROPERTIES RemovedIsCleaned
