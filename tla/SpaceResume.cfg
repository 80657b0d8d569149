SPECIFICATION FairSpec
CONSTANTS
  Small = 10
  Large = 14
  SmallStop = 3
  LargeStop = 4
  FlushEvery = 2
  CleanEvery = 2
  CleanupLimit = 1
  Vacuum = 1
  MaxQueued = 1
  MaxWal = 4
  MaxChange = 1
PROPERTIES PauseResumes
