SPECIFICATION Spec
CONSTANTS
  T1 = 2
  T2 = 4
  TotalSubCh = 2
  Gamma10 = 5
  Tables <- ShortTables
  MaxTx = 1
  Nows = {97}
  Heard <- MCHeard
  Occupancies = {{}}
  Edges = {2}
  Loads <- OReLoads
INVARIANT TriesRows
