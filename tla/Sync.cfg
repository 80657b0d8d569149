SPECIFICATION FairSpec
CONSTANTS
  Key = {k1, k2}
  Field = {up, uploaded}
  Hidden = {up}
  MaxValue = 1
  MaxChange = 3
  MaxFault = 2
INVARIANTS TypeOK ListExact ValuesExact TotalExact
PROPERTIES CatchesUp
