SPECIFICATION Spec
CONSTANTS
  Streams = {s1}
  Rntis = {r1}
  RntiOf <- SentByAll
  HarqIds = {h0, h1}
  MaxNumPerReserve = 1
  Window = 2
  TotalTx = {2}
  MaxRxGrants = 0
PROPERTY NoStaleSoftBits
