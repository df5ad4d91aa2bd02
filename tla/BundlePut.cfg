SPECIFICATION FailingPutSpec
CONSTANTS
  Versions = {1, 2}
  NoBundle = NoBundle
  BundleFaults = {"file", "lastGood"}
  MaxFaults = 2
  MaxPublished = 1
INVARIANTS ActiveSlotIntact
CHECK_DEADLOCK FALSE
