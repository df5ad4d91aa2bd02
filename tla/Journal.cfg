SPECIFICATION JournalSpec
CONSTANTS
  MaxEvents = 3
  Capacity = 4
  MaxFrames = 5
  Retention = 1
  RecordsPerTick = 1
  Written = {"IN_FLIGHT", "ACKED"}
  Blocking = TRUE
  Faults = {}
INVARIANTS
  TypeOK
  OwedIsOnFlashOnce
  SwapIsValidated SpaceIsAccounted IndexMatchesFlash
PROPERTIES
  ImplementsDurableLog
  OnlyTheSwapForgets CompactionEnds
CHECK_DEADLOCK FALSE
