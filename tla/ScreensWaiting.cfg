SPECIFICATION ScreensSpec
CONSTANTS
  Figures = {0, 1, 2}
  Hash = Hash
  Blank = Blank
  States = {"WAIT_EMPLOYEE", "WAIT_OPERATION", "QUANTITY_INPUT"}
  NoState = NoState
  ErrorPasses = 2
  MaxRare = 1
INVARIANTS WaitingMeansNoSnapshot
CHECK_DEADLOCK FALSE
