SPECIFICATION FairSpec
CONSTANTS
  Dsts = {d1, d2}
  NoDst = NoDst
  NumSidelinkProcess = 2
  ResvPeriod = 4
  T1 = 1
  T2 = 4
  PhyPool <- ThreeOfFour
  PoolLen = 4
  ReselCounters = {1}
  CReselFactor = 3
  TotalTx = {1, 2}
  SlProbResourceKeep = 0
  EnableSensing = FALSE
  AssertsEnabled = FALSE
  MaxTxBuffer = 1
  SaturatedTraffic = TRUE
INVARIANTS ServedInv NoHarqIdLeak NeverStops CounterMeansResources AllocationsInPool
PROPERTY SaturatedIsServed
