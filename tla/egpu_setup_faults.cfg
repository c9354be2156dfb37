SPECIFICATION FairSpec
CONSTANTS
  main = main
  m1 = m1
  m2 = m2
  Apps <- OneApp
  Main = main
  Monitors <- TwoMonitors
  None = None
  AppOps = {"connect","safe"}
  ConnectWhen <- IfDisconnected
  Reinit = TRUE
  MaxRetry = 2
  AutoRecovery = TRUE
  ForceOnIncompatible = FALSE
  Faults = {"high","critical"}
  MayFail = {"detect","compat","tunnel","init","thread"}
INVARIANTS
  ErrorExplained
  RetryBudget
PROPERTIES
  CallsReturn
  ImplementsLifecycle
