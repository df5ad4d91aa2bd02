SPECIFICATION Spec
CONSTANTS
  HighDepth = 2
  LowDepth = 1
  None = None
  PromptLoop = TRUE
  MaxEvents = 2
  Scenarios = {"delivery"}
  Budgets <- MCBudgets
INVARIANTS ReplayIsUnderWay
PROPERTIES EventuallySettled DecisionIsFinal
CHECK_DEADLOCK FALSE
