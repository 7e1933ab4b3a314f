SPECIFICATION FairSpec
CONSTANTS
  Dsts = {d1}
  NoDst = NoDst
  NumSidelinkProcess = 4
  ResvPeriod = 2
  T1 = 1
  T2 = 2
  PhyPool <- EverySlot
  PoolLen = 1
  ReselCounters = {1}
  CReselFactor = 3
  TotalTx = {1}
  SlProbResourceKeep = 0
  EnableSensing = FALSE
  AssertsEnabled = FALSE
  MaxTxBuffer = 1
  SaturatedTraffic = FALSE
PROPERTY DataIsSent
