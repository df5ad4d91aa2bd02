SPECIFICATION Spec
CONSTANTS
  MaxEvents = 3
  HighDepth = 1
  None = None
  PromptLoop = TRUE
  MaxLost = 1
  MaxBoots = 2
  MaxResets = 1
  MaxSpent = 4
INVARIANTS EntryOfThisSession
CHECK_DEADLOCK FALSE
