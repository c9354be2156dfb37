SPECIFICATION Spec
CONSTANTS
  main = main
  m1 = m1
  m2 = m2
  Apps <- OneApp
  Main = main
  Monitors <- TwoMonitors
  None = None
  AppOps = {"connect","safe","force","start","stop","recover"}
  ConnectWhen <- Always
  Reinit = FALSE
  MaxRetry = 1
  AutoRecovery = TRUE
  ForceOnIncompatible = TRUE
  Faults = {"high","critical"}
  MayFail = {"link","hard","tunnel","compat"}
INVARIANTS
  TypeOK
  LockedRegions
  RetryOvershoot
SYMMETRY MonitorSymmetry
CHECK_DEADLOCK FALSE
