SPECIFICATION Spec
CONSTANTS
  MaxEvents = 3
  Capacity = 6
  MaxFrames = 6
  Retention = 1
  RecordsPerTick = 2
  Written = {"ACKED"}
  Blocking = FALSE
  Faults = {}
PROPERTIES PendingNeverEvicted
CHECK_DEADLOCK FALSE
