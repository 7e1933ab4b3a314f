SPECIFICATION Spec
CONSTANTS
  Ues = {u1, u2}
  NoUe = NoUe
  EdgeUes = {}
  NumPasses = 2
  MaxPackets = 1
  Scenarios <- Idle
CHECK_DEADLOCK FALSE
INVARIANT ControllerNeverFails
