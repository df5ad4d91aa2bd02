SPECIFICATION Spec
CONSTANTS
  HighDepth = 2
  LowDepth = 1
  None = None
  PromptLoop = TRUE
  MaxEvents = 2
  Scenarios = {"resync"}
  Budgets <- MCBudgets
PROPERTIES ResyncEnds
CHECK_DEADLOCK FALSE
