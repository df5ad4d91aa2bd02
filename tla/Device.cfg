SPECIFICATION DeviceSpec
CONSTANTS
  HighDepth = 2
  LowDepth = 1
  None = None
  PromptLoop = FALSE
  High = {h1, h2, h3}
  Low = {l1, l2}
  Versions = {1, 2}
  NoBundle = NoBundle
  BundleFaults = {"power", "file", "key", "fetch", "slot", "mount"}
  MaxFaults = 2
  MaxPublished = 2
  BlockSize = 3
  MaxNumber = 15
  SafeModeThreshold = 3
  Patience = 2
  ChecksPerTick = 3
  StallTicks = 2
  MaxMishaps = 2
  RingSize = 3
  MaxRecorded = 7
  Key = {k1, k2}
  Open = Open
  Many = Many
  StablePolls = 1
  ReleasePolls = 2
  I2cErrorLimit = 2
  MaxPadFaults = 2
  Net = {n1, n2}
  NoNet = NoNet
  Mixed = Mixed
  MaxTrouble = 2
  Star = star
  Digits = {"1", "3", "4", "5", "6"}
  NoKey = NoKey
  MenuHold = 1
  SetupHold = 2
  MaxAttempts = 2
INVARIANTS
  DeviceTypeOK
  NothingTwice TierOrder OneLowAtMost
  BootFindsWhole NoDrift
  NoFalseSafeMode LoopIsCaught
  HistoryIsTheLatest
  OneKeyOneAction
PROPERTIES
  EveryRequestRuns
  ReplacedAtomically UpdateLandsHere
  NumbersIncrease
  CriticalEndsInSafeMode
  OnePressOneDown LetGoIsSeen
  CommitTested PortalCloses BackOnline
  BootstrapEndsHere
CHECK_DEADLOCK FALSE
