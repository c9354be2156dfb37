SPECIFICATION FairSpec
CONSTANTS
  main = main
  m1 = m1
  m2 = m2
  Apps <- OneApp
  Main = main
  Monitors <- TwoMonitors
  None = None
  AppOps = {"connect"}
  ConnectWhen <- IfNoError
  Reinit = FALSE
  MaxRetry = 2
  AutoRecovery = TRUE
  ForceOnIncompatible = TRUE
  Faults = {"hot","high","critical"}
  MayFail = {}
PROPERTIES
  OverheatDisconnects
  DownUntilConnect
CHECK_DEADLOCK FALSE
