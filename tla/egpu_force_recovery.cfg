SPECIFICATION Spec
CONSTANTS
  main = main
  m1 = m1
  m2 = m2
  Apps <- OneApp
  Main = main
  Monitors <- TwoMonitors
  None = None
  AppOps = {"connect","force"}
  ConnectWhen <- IfDisconnected
  Reinit = FALSE
  MaxRetry = 3
  AutoRecovery = TRUE
  ForceOnIncompatible = TRUE
  Faults = {"high","critical"}
  MayFail = {}
PROPERTY DownUntilConnect
CHECK_DEADLOCK FALSE
