SPECIFICATION Spec
SYMMETRY Symmetry
CONSTANTS
  Dsts = {d1, d2}
  NoDst = NoDst
  NumSidelinkProcess = 2
  ResvPeriod = 3
  T1 = 1
  T2 = 2
  PhyPool <- EverySlot
  PoolLen = 1
  ReselCounters = {1}
  CReselFactor = 3
  TotalTx = {1, 2}
  SlProbResourceKeep = 50
  EnableSensing = TRUE
  AssertsEnabled = FALSE
  MaxTxBuffer = 1
  SaturatedTraffic = FALSE
INVARIANTS OneTbPerSlot RetxHoldsHarqId BufferedTbHasGrant CReselCoversAllocations NoLostWakeup NoMissedSlot ServiceInv
PROPERTY AnnouncedTransmission
