SPECIFICATION OperatorSpec
CONSTANTS
  MaxEvents = 4
  HighDepth = 1
  None = None
  PromptLoop = TRUE
  MaxLost = 1
  MaxBoots = 1
  MaxResets = 1
  MaxSpent = 2
  Figures = {0, 1, 2}
  Hash = Hash
  Blank = Blank
  States = {"WAIT_EMPLOYEE", "WAIT_OPERATION", "QUANTITY_INPUT"}
  NoState = NoState
  ErrorPasses = 2
  MaxRare = 2
INVARIANTS
  BookedForItsSession
  ShownIsHeld ErrorGoesAway
PROPERTIES NoSessionDiscarded
CHECK_DEADLOCK FALSE
