SPECIFICATION Spec
CONSTANTS
  HighDepth = 2
  LowDepth = 1
  None = None
  PromptLoop = FALSE
  MaxEvents = 2
  Scenarios = {"faults", "mixing"}
  Budgets <- MCBudgets
INVARIANTS TypeOK JournaledBeforeSent SettledAsDecided
PROPERTIES ProjectionNeverRegresses
CHECK_DEADLOCK FALSE
