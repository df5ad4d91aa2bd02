SPECIFICATION Spec
CONSTANTS
  MaxEvents = 3
  Capacity = 4
  MaxFrames = 4
  Retention = 1
  RecordsPerTick = 2
  Written = {"IN_FLIGHT"}
  Blocking = FALSE
  Faults = {"cut"}
PROPERTIES RebootResumesPending
CHECK_DEADLOCK FALSE
