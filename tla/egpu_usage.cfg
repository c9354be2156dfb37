\* The use the README documents: one thread connects, disconnects safely and
\* shuts down; the link degrades, fails and is recovered by the monitor.
SPECIFICATION FairSpec
CONSTANTS
  main = main
  m1 = m1
  m2 = m2
  Apps <- OneApp
  Main = main
  Monitors <- TwoMonitors
  None = None
  AppOps = {"connect", "safe"}
  ConnectWhen <- Always
  Reinit = TRUE
  MaxRetry = 2
  AutoRecovery = TRUE
  ForceOnIncompatible = TRUE
  Faults = {"high", "critical", "corrupt"}
  MayFail = {}
INVARIANTS
  OneMonitor
  WatchedWhileUp
  ShutdownClean
PROPERTIES
  ImplementsLifecycle
  CallsReturn
  FaultsHandled
