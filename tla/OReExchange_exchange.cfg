SPECIFICATION FairSpec
CONSTANTS
  Ues = {u1, u2}
  NoUe = NoUe
  EdgeUes = {u2}
  NumPasses = 3
  MaxPackets = 1
  Scenarios <- Calm
INVARIANTS ExInv ControllerNeverFails AnswerIsOwn
PROPERTIES AskIsACall AskIsAnswered
