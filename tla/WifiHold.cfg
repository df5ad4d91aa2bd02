SPECIFICATION WifiRecoverySpec
CONSTANTS
  Net = {n1}
  NoNet = NoNet
  Mixed = Mixed
  MaxTrouble = 0
  Star = star
  Digits = {"1"}
  NoKey = NoKey
  MenuHold = 1
  SetupHold = 2
INVARIANTS TenSecondHold
CHECK_DEADLOCK FALSE
