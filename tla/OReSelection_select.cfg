SPECIFICATION FairSpec
CONSTANTS
  T1 = 2
  T2 = 6
  TotalSubCh = 2
  Gamma10 = 5
  Tables <- MCTables
  MaxTx = 3
  Nows = {95}
  Heard <- MCHeard
  Occupancies <- MCOccupancies
  Edges = {2}
  Loads <- MCLoads
INVARIANTS EdgeSplits EnoughLeft OverwritesFar DrawnAreFree AnnouncesRest ChoiceInv
PROPERTY SelectionEnds
