SPECIFICATION Spec
CONSTANTS
  StepMS = 2
  Minute = 4
  Window = 8
  Hour = 12
  Day = 24
  TailSpan = 12
  Half = 2
  Cols = 2
  Shapes <- MCShapes
  Readings <- MCReadings
  Peers <- MCPeers
  MaxSamples = 4
  MaxRows = 3
  CurveLength = 14
  Budgets = {6, 12}
  MaxSpan = 12
  MaxOdd = 3
INVARIANTS BucketsExact DeltasExact SealedAsWhole LinesBreak FlatHonest OverviewHonest StatsExact CodecExact 
CHECK_DEADLOCK FALSE
