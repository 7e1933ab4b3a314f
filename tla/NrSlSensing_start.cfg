SPECIFICATION Spec
CONSTANTS
  SensWindow = 3
  Tproc0 = 1
  T1 = 1
  T2 = 2
  ResvPeriod = 3
  TotalSubCh = 2
  MaxThres = 2
  ResPercentage = 60
  Scis <- MCScis
  MaxPerSlot = 2
INVARIANT SensedAreKept
