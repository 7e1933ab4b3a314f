SPECIFICATION Spec
CONSTANTS
  Streams = {s1, s2, s3}
  Rntis = {r1, r2}
  RntiOf <- SentByAll
  HarqIds = {h0}
  MaxNumPerReserve = 3
  Window = 4
  TotalTx = {1, 3, 4}
  MaxRxGrants = 4
INVARIANTS NeverAborts RxInv
PROPERTY InTurnIsExpected
