-------------------------- MODULE EgpuSafetyProofs --------------------------
(***************************************************************************)
(* Theorems about EgpuSafety, for any number of application threads and    *)
(* monitors, any policy and any choice of the steps that may fail.         *)
(***************************************************************************)
EXTENDS EgpuSafety, FiniteSetTheorems, TLAPS

\* The labels of code that holds the mutex, spelled out.
LEMMA PublishedLabels ==
  DOMAIN Published =
    {"detect", "not_found", "incompatible", "rejected", "auth", "tunnel",
     "tunnelled", "no_tunnel", "retry", "retry_inc", "init", "ready",
     "no_gpu", "undo", "undone", "connected", "reset", "safe_gpu",
     "safe_tunnel", "safe_done", "safe_clear", "force_gpu", "force_tunnel",
     "force_done", "relinked", "relink_reset", "rebuilt", "rebuild_reset"}
BY DEF Published

LEMMA LockedLabels ==
  Locked =
    {"detect", "not_found", "incompatible", "rejected", "auth", "tunnel",
     "tunnelled", "no_tunnel", "retry", "retry_inc", "init", "ready",
     "no_gpu", "undo", "undone", "connected", "reset", "safe_gpu",
     "safe_tunnel", "safe_done", "safe_clear", "force_gpu", "force_tunnel",
     "force_done", "relinked", "relink_reset", "rebuilt", "rebuild_reset",
     "look", "verify", "report_hot", "report_fault"}
BY PublishedLabels DEF Locked, Looking

LEMMA PublishedStates ==
  /\ Published["detect"] = "DETECTING"
  /\ Published["not_found"] = "DETECTING"
  /\ Published["incompatible"] = "DETECTING"
  /\ Published["rejected"] = "FORCE_DISCONNECT"
  /\ Published["auth"] = "AUTHENTICATING"
  /\ Published["tunnel"] = "TUNNEL_SETUP"
  /\ Published["tunnelled"] = "TUNNEL_SETUP"
  /\ Published["no_tunnel"] = "TUNNEL_SETUP"
  /\ Published["retry"] = "ERROR"
  /\ Published["retry_inc"] = "ERROR"
  /\ Published["init"] = "INITIALIZING"
  /\ Published["ready"] = "INITIALIZING"
  /\ Published["no_gpu"] = "INITIALIZING"
  /\ Published["undo"] = "ERROR"
  /\ Published["undone"] = "ERROR"
  /\ Published["connected"] = "CONNECTED"
  /\ Published["reset"] = "CONNECTED"
  /\ Published["safe_gpu"] = "SAFE_DISCONNECT"
  /\ Published["safe_tunnel"] = "SAFE_DISCONNECT"
  /\ Published["safe_done"] = "SAFE_DISCONNECT"
  /\ Published["safe_clear"] = "DISCONNECTED"
  /\ Published["force_gpu"] = "FORCE_DISCONNECT"
  /\ Published["force_tunnel"] = "FORCE_DISCONNECT"
  /\ Published["force_done"] = "FORCE_DISCONNECT"
  /\ Published["relinked"] = "CONNECTED"
  /\ Published["relink_reset"] = "CONNECTED"
  /\ Published["rebuilt"] = "CONNECTED"
  /\ Published["rebuild_reset"] = "CONNECTED"
BY DEF Published

(***************************************************************************)
(* Types.  TypeOK is inductive as it stands.                               *)
(***************************************************************************)
LEMMA InitType == Init => TypeOK
<1> SUFFICES ASSUME Init PROVE TypeOK
  OBVIOUS
<1>1. /\ initialized \in BOOLEAN /\ tunnel \in BOOLEAN /\ gpu \in BOOLEAN
      /\ monitor_running \in BOOLEAN
  BY Zenon DEF Init
<1>2. pc \in [Threads -> Labels] /\ ret \in [Threads -> Returns]
  BY DEF Init, Labels, Returns
<1>3. joining \in [Apps -> Monitors \cup {None}] /\ seen \in [Threads -> Nat]
  BY DEF Init
<1> QED
  BY <1>1, <1>2, <1>3 DEF Init, TypeOK, States, Errors

LEMMA SetStateType ==
  ASSUME TypeOK, NEW t \in Threads, NEW from, NEW s \in States, NEW to \in Labels,
         SetState(t, from, s, to) \/ LockIn(t, from, s, to)
  PROVE  TypeOK'
BY DEF TypeOK, SetState, LockIn, Acquire, Goto, hwVars, monVars

LEMMA LeaveInType ==
  ASSUME TypeOK, NEW t \in Threads, NEW from, NEW s \in States, LeaveIn(t, from, s)
  PROVE  TypeOK'
BY DEF TypeOK, LeaveIn, Release, Return, Goto, Then, Home, hwVars, monVars,
       Labels, Returns

LEMMA SetErrorType ==
  ASSUME TypeOK, NEW t \in Threads, NEW from, NEW e \in Errors, NEW to \in Labels,
         SetError(t, from, e, to)
  PROVE  TypeOK'
BY DEF TypeOK, SetError, Goto, hwVars, monVars

LEMMA TeardownType ==
  ASSUME TypeOK, NEW t \in Threads, NEW from, NEW to \in Labels,
         TeardownGpu(t, from, to) \/ TeardownTunnel(t, from, to)
  PROVE  TypeOK'
<1>1. tunnel' \in BOOLEAN /\ gpu' \in BOOLEAN
  BY Zenon DEF TypeOK, TeardownGpu, TeardownTunnel
<1> QED
  BY <1>1
     DEF TypeOK, TeardownGpu, TeardownTunnel, Goto, hwVars, monVars, policyVars

LEMMA ConnectType ==
  ASSUME TypeOK, NEW t \in Threads, EgpuConnect(t)
  PROVE  TypeOK'
<1> USE LockedLabels
       DEF TypeOK, Return, Goto, Then, Home, Acquire, Release, Brief, hwVars,
           monVars, policyVars, Labels, Returns, Threads, States, Errors,
           Opening, Closing, Up, Faulted, FaultKinds
<1>1. CASE ConnectIgnored(t)
  BY <1>1 DEF ConnectIgnored
<1>2. CASE ConnectBegin(t)
  BY <1>2, SetStateType DEF ConnectBegin
<1>3. CASE ConnectNotFound(t)
  <2>1. CASE SetError(t, "detect", "DEVICE_NOT_FOUND", "not_found")
    BY <2>1, SetErrorType
  <2>2. CASE LeaveIn(t, "not_found", "DISCONNECTED")
    BY <2>2, LeaveInType
  <2> QED
    BY <1>3, <2>1, <2>2 DEF ConnectNotFound
<1>4. CASE ConnectIncompatible(t)
  <2>1. CASE SetError(t, "detect", "INCOMPATIBLE_DEVICE", "incompatible")
    BY <2>1, SetErrorType
  <2>2. CASE SetState(t, "incompatible", "FORCE_DISCONNECT", "rejected")
    BY <2>2, SetStateType
  <2>3. CASE LeaveIn(t, "rejected", "DISCONNECTED")
    BY <2>3, LeaveInType
  <2>4. CASE LeaveIn(t, "incompatible", "ERROR")
    BY <2>4, LeaveInType
  <2> QED
    BY <1>4, <2>1, <2>2, <2>3, <2>4 DEF ConnectIncompatible
<1>5. CASE ConnectAuthenticate(t)
  BY <1>5, SetStateType DEF ConnectAuthenticate
<1>6. CASE ConnectTunnel(t)
  <2>1. CASE SetState(t, "auth", "TUNNEL_SETUP", "tunnel")
    BY <2>1, SetStateType
  <2>2. CASE TunnelUp(t)
    BY <2>2 DEF TunnelUp
  <2>3. CASE SetState(t, "tunnelled", "INITIALIZING", "init")
    BY <2>3, SetStateType
  <2> QED
    BY <1>6, <2>1, <2>2, <2>3 DEF ConnectTunnel
<1>7. CASE ConnectTunnelFails(t)
  <2>1. CASE SetError(t, "tunnel", "TUNNEL_FAILED", "no_tunnel")
    BY <2>1, SetErrorType
  <2>2. CASE SetState(t, "no_tunnel", "ERROR", "retry")
    BY <2>2, SetStateType
  <2>3. CASE ConnectMayRetry(t)
    BY <2>3 DEF ConnectMayRetry
  <2>4. CASE ConnectRetry(t)
    BY <2>4 DEF ConnectRetry, CountRetry, Increment
  <2>5. CASE LeaveIn(t, "retry", "DISCONNECTED")
    BY <2>5, LeaveInType
  <2> QED
    BY <1>7, <2>1, <2>2, <2>3, <2>4, <2>5 DEF ConnectTunnelFails
<1>8. CASE ConnectInit(t)
  <2>1. CASE GpuUp(t)
    BY <2>1 DEF GpuUp
  <2>2. CASE SetState(t, "ready", "CONNECTED", "connected")
    BY <2>2, SetStateType
  <2>3. CASE SetError(t, "connected", "NONE", "reset")
    BY <2>3, SetErrorType
  <2>4. CASE ConnectDone(t)
    BY <2>4 DEF ConnectDone, ResetRetry
  <2> QED
    BY <1>8, <2>1, <2>2, <2>3, <2>4 DEF ConnectInit
<1>9. CASE ConnectInitFails(t)
  <2>1. CASE SetError(t, "init", "GPU_INIT_FAILED", "no_gpu")
    BY <2>1, SetErrorType
  <2>2. CASE SetState(t, "no_gpu", "ERROR", "undo")
    BY <2>2, SetStateType
  <2>3. CASE TeardownTunnel(t, "undo", "undone")
    BY <2>3, TeardownType
  <2>4. CASE LeaveIn(t, "undone", "DISCONNECTED")
    BY <2>4, LeaveInType
  <2> QED
    BY <1>9, <2>1, <2>2, <2>3, <2>4 DEF ConnectInitFails
<1> QED
  BY <1>1, <1>2, <1>3, <1>4, <1>5, <1>6, <1>7, <1>8, <1>9 DEF EgpuConnect

LEMMA StartType ==
  ASSUME TypeOK, NEW t \in Threads, StartMonitoring(t)
  PROVE  TypeOK'
<1> USE LockedLabels
       DEF TypeOK, Return, Goto, Then, Home, Acquire, Release, Brief, hwVars,
           monVars, policyVars, Labels, Returns, Threads, States, Errors,
           Opening, Closing, Up, Faulted, FaultKinds
<1>1. CASE StartCheck(t)
  BY <1>1 DEF StartCheck
<1>2. CASE StartMark(t)
  <2>1. monitor_running' \in BOOLEAN
    BY <1>2, Zenon DEF StartMark
  <2> QED
    BY <1>2, <2>1 DEF StartMark
<1>3. CASE StartCreate(t)
  BY <1>3 DEF StartCreate
<1>4. CASE StartFails(t)
  <2>1. monitor_running' \in BOOLEAN
    BY <1>4, Zenon DEF StartFails
  <2> QED
    BY <1>4, <2>1 DEF StartFails
<1> QED
  BY <1>1, <1>2, <1>3, <1>4 DEF StartMonitoring

LEMMA StopType ==
  ASSUME TypeOK, NEW t \in Apps, StopMonitoring(t)
  PROVE  TypeOK'
<1> USE LockedLabels
       DEF TypeOK, Return, Goto, Then, Home, Acquire, Release, Brief, hwVars,
           monVars, policyVars, Labels, Returns, Threads, States, Errors,
           Opening, Closing, Up, Faulted, FaultKinds
<1>1. CASE StopCheck(t)
  BY <1>1 DEF StopCheck, AfterStop
<1>2. CASE StopClear(t)
  <2>1. monitor_running' \in BOOLEAN
    BY <1>2, Zenon DEF StopClear
  <2> QED
    BY <1>2, <2>1 DEF StopClear
<1>3. CASE StopJoin(t)
  BY <1>3 DEF StopJoin
<1>4. CASE StopJoined(t)
  BY <1>4 DEF StopJoined, AfterStop
<1> QED
  BY <1>1, <1>2, <1>3, <1>4 DEF StopMonitoring

LEMMA SafeType ==
  ASSUME TypeOK, NEW t \in Apps, SafeDisconnect(t)
  PROVE  TypeOK'
<1> USE LockedLabels
       DEF TypeOK, Return, Goto, Then, Home, Acquire, Release, Brief, hwVars,
           monVars, policyVars, Labels, Returns, Threads, States, Errors,
           Opening, Closing, Up, Faulted, FaultKinds
<1>1. CASE LockIn(t, "safe", "SAFE_DISCONNECT", "safe_gpu")
  BY <1>1, SetStateType
<1>2. CASE TeardownGpu(t, "safe_gpu", "safe_tunnel")
  BY <1>2, TeardownType
<1>3. CASE TeardownTunnel(t, "safe_tunnel", "safe_done")
  BY <1>3, TeardownType
<1>4. CASE SetState(t, "safe_done", "DISCONNECTED", "safe_clear")
  BY <1>4, SetStateType
<1>5. CASE SafeEnd(t)
  <2>1. pc' \in [Threads -> Labels] /\ ret' \in [Threads -> Returns]
    BY <1>5 DEF SafeEnd
  <2> QED
    BY <1>5, <2>1 DEF SafeEnd
<1> QED
  BY <1>1, <1>2, <1>3, <1>4, <1>5 DEF SafeDisconnect

LEMMA ForceType ==
  ASSUME TypeOK, NEW t \in Threads, ForceDisconnect(t)
  PROVE  TypeOK'
<1> USE LockedLabels
       DEF TypeOK, Return, Goto, Then, Home, Acquire, Release, Brief, hwVars,
           monVars, policyVars, Labels, Returns, Threads, States, Errors,
           Opening, Closing, Up, Faulted, FaultKinds
<1>1. CASE ForceBegin(t)
  <2>1. monitor_running' \in BOOLEAN
    BY <1>1, Zenon DEF ForceBegin
  <2> QED
    BY <1>1, <2>1 DEF ForceBegin
<1>2. CASE LockIn(t, "force_lock", "FORCE_DISCONNECT", "force_gpu")
  BY <1>2, SetStateType
<1>3. CASE TeardownGpu(t, "force_gpu", "force_tunnel")
  BY <1>3, TeardownType
<1>4. CASE TeardownTunnel(t, "force_tunnel", "force_done")
  BY <1>4, TeardownType
<1>5. CASE ForceEnd(t)
  <2>1. pc' \in [Threads -> Labels] /\ ret' \in [Threads -> Returns]
    BY <1>5 DEF ForceEnd
  <2> QED
    BY <1>5, <2>1 DEF ForceEnd
<1> QED
  BY <1>1, <1>2, <1>3, <1>4, <1>5 DEF ForceDisconnect

LEMMA RecoveryType ==
  ASSUME TypeOK, NEW t \in Threads, TryRecovery(t)
  PROVE  TypeOK'
<1> USE LockedLabels
       DEF TypeOK, Return, Goto, Then, Home, Acquire, Release, Brief, hwVars,
           monVars, policyVars, Labels, Returns, Threads, States, Errors,
           Opening, Closing, Up, Faulted, FaultKinds
<1>1. CASE RecoverCheck(t)
  BY <1>1 DEF RecoverCheck, Exhausted
<1>2. CASE RecoverCount(t)
  BY <1>2 DEF RecoverCount, Increment
<1>3. CASE RecoverMark(t)
  BY <1>3 DEF RecoverMark
<1>4. CASE ResetLink(t)
  BY <1>4 DEF ResetLink, Reset
<1>5. CASE RecoverLink(t)
  <2>1. CASE LockIn(t, "recover_link", "CONNECTED", "relinked")
    BY <2>1, SetStateType
  <2>2. CASE SetError(t, "relinked", "NONE", "relink_reset")
    BY <2>2, SetErrorType
  <2>3. CASE RecoverDone(t, "relink_reset", {"high", "critical", "corrupt"})
    BY <2>3 DEF RecoverDone, ResetRetry
  <2> QED
    BY <1>5, <2>1, <2>2, <2>3 DEF RecoverLink
<1>6. CASE HardReset(t)
  BY <1>6 DEF HardReset, Reset
<1>7. CASE RecoverHard(t)
  <2>1. CASE LockIn(t, "recover_hard", "CONNECTED", "rebuilt")
    BY <2>1, SetStateType
  <2>2. CASE SetError(t, "rebuilt", "NONE", "rebuild_reset")
    BY <2>2, SetErrorType
  <2>3. CASE RecoverDone(t, "rebuild_reset", {})
    BY <2>3 DEF RecoverDone, ResetRetry
  <2> QED
    BY <1>7, <2>1, <2>2, <2>3 DEF RecoverHard
<1> QED
  BY <1>1, <1>2, <1>3, <1>4, <1>5, <1>6, <1>7 DEF TryRecovery

LEMMA MonitorType ==
  ASSUME TypeOK, NEW t \in Monitors, Monitor(t)
  PROVE  TypeOK'
<1> USE LockedLabels
       DEF TypeOK, Return, Goto, Then, Home, Acquire, Release, Brief, hwVars,
           monVars, policyVars, Labels, Returns, Threads, States, Errors,
           Opening, Closing, Up, Faulted, FaultKinds
<1>1. CASE MonitorWake(t)
  BY <1>1 DEF MonitorWake
<1>2. CASE MonitorPoll(t)
  BY <1>2 DEF MonitorPoll
<1>3. CASE MonitorLock(t)
  BY <1>3 DEF MonitorLock
<1>4. CASE MonitorLook(t)
  <2>1. CASE SetError(t, "look", "THERMAL_SHUTDOWN", "report_hot")
    BY <2>1, SetErrorType
  <2>2. CASE SetError(t, "look", "LINK_UNSTABLE", "report_fault")
    BY <2>2, SetErrorType
  <2>3. CASE SetState(t, "look", "DEGRADED", "verify")
    BY <2>3, SetStateType
  <2>4. CASE SetState(t, "look", state, "verify")
    BY <2>4, SetStateType
  <2> QED
    BY <1>4, <2>1, <2>2, <2>3, <2>4 DEF MonitorLook
<1>5. CASE MonitorVerify(t)
  <2>1. CASE SetError(t, "verify", "DATA_CORRUPTION", "report_fault")
    BY <2>1, SetErrorType
  <2>2. CASE /\ Release /\ Goto(t, "wake")
           /\ UNCHANGED <<initialized, policyVars, hwVars, monVars, ret, seen>>
    BY <1>5, <2>2
  <2> QED
    BY <1>5, <2>1, <2>2 DEF MonitorVerify
<1>6. CASE MonitorReport(t, "report_hot", Emergency)
  BY <1>6 DEF MonitorReport, Emergency
<1>7. CASE MonitorReport(t, "report_fault", Recovery)
  BY <1>7 DEF MonitorReport, Recovery
<1> QED
  BY <1>1, <1>2, <1>3, <1>4, <1>5, <1>6, <1>7 DEF Monitor

LEMMA NextType ==
  ASSUME TypeOK, [Next]_vars
  PROVE  TypeOK'
<1> USE EgpuAssumption, LockedLabels
       DEF TypeOK, Return, Goto, Then, Home, Acquire, Release, Brief, hwVars,
           monVars, policyVars, Labels, Returns, Threads, States, Errors,
           Opening, Closing, Up, Faulted, FaultKinds
<1>1. ASSUME NEW a \in Apps, NEW op \in Ops, Call(a, op)
      PROVE  TypeOK'
  BY <1>1 DEF Call, Entry, Ops, ShuttingDown
<1>2. CASE ShutdownBegin
  BY <1>2 DEF ShutdownBegin
<1>3. CASE ShutdownBranch
  BY <1>3 DEF ShutdownBranch
<1>4. CASE ShutdownDestroy
  <2>1. initialized' \in BOOLEAN
    BY <1>4, Zenon DEF ShutdownDestroy
  <2> QED
    BY <1>4, <2>1 DEF ShutdownDestroy
<1>5. CASE SafetyInit
  BY <1>5 DEF SafetyInit
<1>6. CASE Telemetry
  BY <1>6 DEF Telemetry
<1>7. ASSUME NEW t \in Threads, Step(t)
      PROVE  TypeOK'
  BY <1>7, ConnectType, StartType, StopType, SafeType, ForceType, RecoveryType, MonitorType DEF Step
<1>8. CASE UNCHANGED vars
  BY <1>8 DEF vars
<1> QED
  BY <1>1, <1>2, <1>3, <1>4, <1>5, <1>6, <1>7, <1>8 DEF Next, Shutdown

\* Every variable keeps its type, whatever the threads do: in particular the
\* attempt counter never goes below zero, and every thread is at a label of
\* the code (all of egpu_safety.c).
THEOREM TypeCorrect == Spec => []TypeOK
BY InitType, NextType, PTL DEF Spec

(***************************************************************************)
(* The mutex.  LockedRegions is inductive with TypeOK as long as the       *)
(* manager is not initialised again: egpu_safety_init makes a new mutex,   *)
(* whoever held the old one.                                               *)
(***************************************************************************)

LEMMA InitLocked == Init => LockedRegions
BY EgpuAssumption, LockedLabels, PublishedLabels
   DEF Init, LockedRegions, EgpuAssumption, Threads, Opening, Closing

LEMMA ConnectLocked ==
  ASSUME TypeOK, LockedRegions, NEW t \in Threads, EgpuConnect(t)
  PROVE  LockedRegions'
<1> USE LockedLabels, PublishedLabels, PublishedStates, EgpuAssumption
       DEF LockedRegions, TypeOK, EgpuAssumption, Return, Goto, Then, Home,
           Acquire, Release, Brief, hwVars, monVars, policyVars, SetState,
           SetError, LockIn, LeaveIn, TeardownGpu, TeardownTunnel, Threads,
           Opening, Closing
<1>1. CASE ConnectIgnored(t)
  BY <1>1 DEF ConnectIgnored
<1>2. CASE ConnectBegin(t)
  BY <1>2 DEF ConnectBegin
<1>3. CASE ConnectNotFound(t)
  BY <1>3 DEF ConnectNotFound
<1>4. CASE ConnectIncompatible(t)
  BY <1>4 DEF ConnectIncompatible
<1>5. CASE ConnectAuthenticate(t)
  BY <1>5 DEF ConnectAuthenticate
<1>6. CASE ConnectTunnel(t)
  BY <1>6 DEF ConnectTunnel, TunnelUp
<1>7. CASE ConnectTunnelFails(t)
  BY <1>7
     DEF ConnectTunnelFails, ConnectMayRetry, ConnectRetry, MayRetry,
         CountRetry, Increment
<1>8. CASE ConnectInit(t)
  BY <1>8 DEF ConnectInit, GpuUp, ConnectDone, ResetRetry
<1>9. CASE ConnectInitFails(t)
  BY <1>9 DEF ConnectInitFails
<1> QED
  BY <1>1, <1>2, <1>3, <1>4, <1>5, <1>6, <1>7, <1>8, <1>9 DEF EgpuConnect

LEMMA StartLocked ==
  ASSUME TypeOK, LockedRegions, NEW t \in Threads, StartMonitoring(t)
  PROVE  LockedRegions'
<1> USE LockedLabels, PublishedLabels, PublishedStates, EgpuAssumption
       DEF LockedRegions, TypeOK, EgpuAssumption, Return, Goto, Then, Home,
           Acquire, Release, Brief, hwVars, monVars, policyVars, SetState,
           SetError, LockIn, LeaveIn, TeardownGpu, TeardownTunnel, Threads,
           Opening, Closing
<1>1. CASE StartCheck(t)
  BY <1>1 DEF StartCheck
<1>2. CASE StartMark(t)
  BY <1>2 DEF StartMark
<1>3. CASE StartCreate(t)
  BY <1>3 DEF StartCreate
<1>4. CASE StartFails(t)
  BY <1>4 DEF StartFails
<1> QED
  BY <1>1, <1>2, <1>3, <1>4 DEF StartMonitoring

LEMMA StopLocked ==
  ASSUME TypeOK, LockedRegions, NEW t \in Apps, StopMonitoring(t)
  PROVE  LockedRegions'
<1> USE LockedLabels, PublishedLabels, PublishedStates, EgpuAssumption
       DEF LockedRegions, TypeOK, EgpuAssumption, Return, Goto, Then, Home,
           Acquire, Release, Brief, hwVars, monVars, policyVars, SetState,
           SetError, LockIn, LeaveIn, TeardownGpu, TeardownTunnel, Threads,
           Opening, Closing
<1>1. CASE StopCheck(t)
  BY <1>1 DEF StopCheck, AfterStop
<1>2. CASE StopClear(t)
  BY <1>2 DEF StopClear
<1>3. CASE StopJoin(t)
  BY <1>3 DEF StopJoin
<1>4. CASE StopJoined(t)
  BY <1>4 DEF StopJoined, AfterStop
<1> QED
  BY <1>1, <1>2, <1>3, <1>4 DEF StopMonitoring

LEMMA SafeLocked ==
  ASSUME TypeOK, LockedRegions, NEW t \in Apps, SafeDisconnect(t)
  PROVE  LockedRegions'
<1> USE LockedLabels, PublishedLabels, PublishedStates, EgpuAssumption
       DEF LockedRegions, TypeOK, EgpuAssumption, Return, Goto, Then, Home,
           Acquire, Release, Brief, hwVars, monVars, policyVars, SetState,
           SetError, LockIn, LeaveIn, TeardownGpu, TeardownTunnel, Threads,
           Opening, Closing
<1>1. CASE LockIn(t, "safe", "SAFE_DISCONNECT", "safe_gpu")
  BY <1>1
<1>2. CASE TeardownGpu(t, "safe_gpu", "safe_tunnel")
  BY <1>2
<1>3. CASE TeardownTunnel(t, "safe_tunnel", "safe_done")
  BY <1>3
<1>4. CASE SetState(t, "safe_done", "DISCONNECTED", "safe_clear")
  BY <1>4
<1>5. CASE SafeEnd(t)
  BY <1>5 DEF SafeEnd
<1> QED
  BY <1>1, <1>2, <1>3, <1>4, <1>5 DEF SafeDisconnect

LEMMA ForceLocked ==
  ASSUME TypeOK, LockedRegions, NEW t \in Threads, ForceDisconnect(t)
  PROVE  LockedRegions'
<1> USE LockedLabels, PublishedLabels, PublishedStates, EgpuAssumption
       DEF LockedRegions, TypeOK, EgpuAssumption, Return, Goto, Then, Home,
           Acquire, Release, Brief, hwVars, monVars, policyVars, SetState,
           SetError, LockIn, LeaveIn, TeardownGpu, TeardownTunnel, Threads,
           Opening, Closing
<1>1. CASE ForceBegin(t)
  BY <1>1 DEF ForceBegin
<1>2. CASE LockIn(t, "force_lock", "FORCE_DISCONNECT", "force_gpu")
  BY <1>2
<1>3. CASE TeardownGpu(t, "force_gpu", "force_tunnel")
  BY <1>3
<1>4. CASE TeardownTunnel(t, "force_tunnel", "force_done")
  BY <1>4
<1>5. CASE ForceEnd(t)
  BY <1>5 DEF ForceEnd
<1> QED
  BY <1>1, <1>2, <1>3, <1>4, <1>5 DEF ForceDisconnect

LEMMA RecoveryLocked ==
  ASSUME TypeOK, LockedRegions, NEW t \in Threads, TryRecovery(t)
  PROVE  LockedRegions'
<1> USE LockedLabels, PublishedLabels, PublishedStates, EgpuAssumption
       DEF LockedRegions, TypeOK, EgpuAssumption, Return, Goto, Then, Home,
           Acquire, Release, Brief, hwVars, monVars, policyVars, SetState,
           SetError, LockIn, LeaveIn, TeardownGpu, TeardownTunnel, Threads,
           Opening, Closing
<1>1. CASE RecoverCheck(t)
  BY <1>1 DEF RecoverCheck, Exhausted
<1>2. CASE RecoverCount(t)
  BY <1>2 DEF RecoverCount, Increment
<1>3. CASE RecoverMark(t)
  BY <1>3 DEF RecoverMark
<1>4. CASE ResetLink(t)
  BY <1>4 DEF ResetLink, Reset
<1>5. CASE RecoverLink(t)
  BY <1>5 DEF RecoverLink, RecoverDone, ResetRetry
<1>6. CASE HardReset(t)
  BY <1>6 DEF HardReset, Reset
<1>7. CASE RecoverHard(t)
  BY <1>7 DEF RecoverHard, RecoverDone, ResetRetry
<1> QED
  BY <1>1, <1>2, <1>3, <1>4, <1>5, <1>6, <1>7 DEF TryRecovery

LEMMA MonitorLocked ==
  ASSUME TypeOK, LockedRegions, NEW t \in Monitors, Monitor(t)
  PROVE  LockedRegions'
<1> USE LockedLabels, PublishedLabels, PublishedStates, EgpuAssumption
       DEF LockedRegions, TypeOK, EgpuAssumption, Return, Goto, Then, Home,
           Acquire, Release, Brief, hwVars, monVars, policyVars, SetState,
           SetError, LockIn, LeaveIn, TeardownGpu, TeardownTunnel, Threads,
           Opening, Closing
<1>1. CASE MonitorWake(t)
  BY <1>1 DEF MonitorWake
<1>2. CASE MonitorPoll(t)
  BY <1>2 DEF MonitorPoll
<1>3. CASE MonitorLock(t)
  BY <1>3 DEF MonitorLock
<1>4. CASE MonitorLook(t)
  BY <1>4 DEF MonitorLook
<1>5. CASE MonitorVerify(t)
  <2>1. CASE SetError(t, "verify", "DATA_CORRUPTION", "report_fault")
    BY <2>1
  <2>2. CASE pc[t] = "verify" /\ Release /\ Goto(t, "wake")
               /\ UNCHANGED <<initialized, policyVars, hwVars, monVars, ret,
                             seen>>
    BY <2>2
  <2> QED
    BY ONLY <1>5, <2>1, <2>2 DEF MonitorVerify
<1>6. CASE MonitorReport(t, "report_hot", Emergency)
  BY <1>6 DEF MonitorReport, Emergency
<1>7. CASE MonitorReport(t, "report_fault", Recovery)
  BY <1>7 DEF MonitorReport, Recovery
<1> QED
  BY <1>1, <1>2, <1>3, <1>4, <1>5, <1>6, <1>7 DEF Monitor

LEMMA NextLocked ==
  ASSUME ~Reinit, TypeOK, LockedRegions, [Next]_vars
  PROVE  LockedRegions'
<1> USE LockedLabels, PublishedLabels, PublishedStates, EgpuAssumption
       DEF LockedRegions, TypeOK, EgpuAssumption, Return, Goto, Then, Home,
           Acquire, Release, Brief, hwVars, monVars, policyVars, SetState,
           SetError, LockIn, LeaveIn, TeardownGpu, TeardownTunnel, Threads,
           Opening, Closing
<1>1. ASSUME NEW a \in Apps, NEW op \in Ops, Call(a, op)
      PROVE  LockedRegions'
  BY <1>1 DEF Call, Entry, Ops, ShuttingDown
<1>2. CASE ShutdownBegin
  BY <1>2 DEF ShutdownBegin
<1>3. CASE ShutdownBranch
  BY <1>3 DEF ShutdownBranch
<1>4. CASE ShutdownDestroy
  BY <1>4 DEF ShutdownDestroy
<1>5. CASE SafetyInit
  BY <1>5 DEF SafetyInit
<1>6. CASE Telemetry
  BY <1>6 DEF Telemetry
<1>7. ASSUME NEW t \in Threads, Step(t)
      PROVE  LockedRegions'
  BY <1>7, ConnectLocked, StartLocked, StopLocked, SafeLocked, ForceLocked, RecoveryLocked, MonitorLocked DEF Step
<1>8. CASE UNCHANGED vars
  BY <1>8 DEF vars
<1> QED
  BY <1>1, <1>2, <1>3, <1>4, <1>5, <1>6, <1>7, <1>8 DEF Next, Shutdown

\* A connection or disconnection sequence owns the mutex from its first
\* published state to its last, and no other thread changes what it published
\* (egpu_connect, egpu_safe_disconnect, egpu_force_disconnect), however many
\* threads call them and however many monitors run.
THEOREM SequencesAreAtomic == ASSUME ~Reinit PROVE Spec => []LockedRegions
<1>1. TypeOK /\ LockedRegions /\ [Next]_vars => LockedRegions'
  BY NextLocked
<1> QED
  BY InitLocked, TypeCorrect, <1>1, PTL DEF Spec

(***************************************************************************)
(* The attempt counter.  Between its test and its increment a thread is at *)
(* "recover_inc" or "retry_inc": each such thread may still add one to the *)
(* counter, and the value it tested was below the maximum.                 *)
(***************************************************************************)
Racing == {t \in Threads : pc[t] \in {"recover_inc", "retry_inc"}}

RetryBound ==
  /\ retry_count + Cardinality(Racing) + 1 <= MaxRetry + Cardinality(Threads)
  /\ \A t \in Racing : seen[t] < MaxRetry

LEMMA RacingFinite ==
  ASSUME IsFiniteSet(Threads)
  PROVE  /\ IsFiniteSet(Racing) /\ Cardinality(Racing) \in Nat
         /\ Cardinality(Threads) \in Nat
         /\ Cardinality(Racing) <= Cardinality(Threads)
         /\ \A t \in Threads \ Racing :
              Cardinality(Racing) + 1 <= Cardinality(Threads)
<1>1. Racing \subseteq Threads
  BY DEF Racing
<1>2. /\ IsFiniteSet(Racing) /\ Cardinality(Racing) \in Nat
      /\ Cardinality(Threads) \in Nat
      /\ Cardinality(Racing) <= Cardinality(Threads)
  BY <1>1, FS_Subset, FS_CardinalityType
<1>3. ASSUME NEW t \in Threads \ Racing
      PROVE  Cardinality(Racing) + 1 <= Cardinality(Threads)
  <2>1. Racing # Threads
    BY <1>3
  <2>2. Cardinality(Racing) # Cardinality(Threads)
    BY <1>1, <2>1, FS_Subset
  <2> QED
    BY <1>2, <2>2
<1> QED
  BY <1>2, <1>3

\* A step that leaves the counter and sends no thread to the increment.
LEMMA RetryFrame ==
  ASSUME IsFiniteSet(Threads), TypeOK, RetryBound,
         UNCHANGED <<retry_count, seen>>, Racing' \subseteq Racing
  PROVE  RetryBound'
<1>1. /\ Cardinality(Racing') <= Cardinality(Racing)
      /\ Cardinality(Racing') \in Nat /\ Cardinality(Racing) \in Nat
  BY RacingFinite, FS_Subset, FS_CardinalityType
<1>2. Cardinality(Threads) \in Nat /\ retry_count \in Nat /\ MaxRetry \in Nat
  BY RacingFinite, EgpuAssumption DEF TypeOK, EgpuAssumption
<1> QED
  BY <1>1, <1>2 DEF RetryBound, Threads

\* A step that leaves the counter within the maximum and some thread away
\* from the increment.
LEMMA RetryWithin ==
  ASSUME IsFiniteSet(Threads), RetryBound, NEW t \in Threads,
         retry_count' \in Nat, retry_count' <= MaxRetry,
         Racing' \subseteq Racing \ {t},
         \A u \in Threads \ {t} : seen'[u] = seen[u]
  PROVE  RetryBound'
<1>1. Racing' \subseteq Threads /\ t \notin Racing'
  BY DEF Racing, Threads
<1>2. /\ Cardinality(Racing') + 1 <= Cardinality(Threads)
      /\ Cardinality(Racing') \in Nat /\ Cardinality(Threads) \in Nat
  <2>1. IsFiniteSet(Racing') /\ Cardinality(Racing') <= Cardinality(Threads)
        /\ (Cardinality(Racing') = Cardinality(Threads) => Racing' = Threads)
    BY <1>1, FS_Subset
  <2> QED
    BY <1>1, <2>1, FS_CardinalityType
<1>3. MaxRetry \in Nat
  BY EgpuAssumption DEF EgpuAssumption
<1>4. \A u \in Racing' : seen'[u] < MaxRetry
  BY <1>1 DEF RetryBound, Racing
<1> QED
  BY <1>2, <1>3, <1>4 DEF RetryBound, Threads

LEMMA InitRetry == ASSUME IsFiniteSet(Threads) PROVE Init => RetryBound
<1> SUFFICES ASSUME Init PROVE RetryBound
  OBVIOUS
<1>1. Racing = {}
  BY DEF Init, Racing
<1>2. Cardinality(Racing) = 0
  BY <1>1, FS_EmptySet
<1>3. Main \in Threads \ Racing /\ MaxRetry \in Nat
  BY <1>1, EgpuAssumption DEF EgpuAssumption, Threads
<1> QED
  BY <1>1, <1>2, <1>3, RacingFinite DEF RetryBound, Init

\* The test of the counter, and the increment that follows it.
LEMMA RaceEntered ==
  ASSUME IsFiniteSet(Threads), TypeOK, RetryBound, NEW t \in Threads,
         retry_count < MaxRetry, retry_count' = retry_count,
         seen' = [seen EXCEPT ![t] = retry_count], Racing' \subseteq Racing \cup {t}
  PROVE  RetryBound'
<1>1. /\ retry_count \in Nat /\ MaxRetry \in Nat /\ retry_count + 1 <= MaxRetry
      /\ \A u \in Racing' : seen'[u] < MaxRetry
  BY EgpuAssumption DEF TypeOK, RetryBound, EgpuAssumption, Racing, Threads
<1>2. Racing' \subseteq Threads
  BY DEF Racing, Threads
<1>3. /\ Cardinality(Racing') <= Cardinality(Threads)
      /\ Cardinality(Racing') \in Nat /\ Cardinality(Threads) \in Nat
  BY <1>2, FS_Subset, FS_CardinalityType
<1> QED
  BY <1>1, <1>3 DEF RetryBound, Threads

LEMMA RaceLeft ==
  ASSUME IsFiniteSet(Threads), TypeOK, TypeOK', RetryBound, NEW t \in Threads,
         t \in Racing, Racing' = Racing \ {t}, Increment(t)
  PROVE  RetryBound'
<1>1. \A u \in Threads \ {t} : seen'[u] = seen[u]
  BY DEF Increment, TypeOK
<1>2. CASE retry_count' = seen[t] + 1
  <2>1. retry_count' <= MaxRetry /\ retry_count' \in Nat
    BY <1>2, EgpuAssumption DEF RetryBound, EgpuAssumption, TypeOK
  <2> QED
    BY <1>1, <2>1, RetryWithin
<1>3. CASE retry_count' = retry_count + 1
  <2>1. IsFiniteSet(Racing) /\ Cardinality(Racing) \in Nat
        /\ Cardinality(Threads) \in Nat
    BY RacingFinite
  <2>2. Cardinality(Racing') = Cardinality(Racing) - 1
    BY <2>1, FS_RemoveElement
  <2>3. \A u \in Racing' : seen'[u] < MaxRetry
    BY <1>1 DEF RetryBound, Racing
  <2>4. retry_count \in Nat /\ MaxRetry \in Nat
    BY EgpuAssumption DEF TypeOK, EgpuAssumption
  <2> QED
    BY <1>3, <2>1, <2>2, <2>3, <2>4 DEF RetryBound, Threads
<1> QED
  BY <1>2, <1>3 DEF Increment

LEMMA ConnectCounts ==
  ASSUME IsFiniteSet(Threads), TypeOK, TypeOK', RetryBound,
         NEW t \in Threads, EgpuConnect(t)
  PROVE  RetryBound'
<1> USE DEF Racing, TypeOK, Return, Goto, Then, Home, Acquire, Release, Brief, hwVars,
           monVars, policyVars, SetState, SetError, LockIn, LeaveIn,
           TeardownGpu, TeardownTunnel, Threads
<1>1. CASE ConnectIgnored(t)
  <2>1. UNCHANGED <<retry_count, seen>> /\ Racing' \subseteq Racing
    BY <1>1 DEF ConnectIgnored
  <2> QED
    BY <2>1, RetryFrame
<1>2. CASE ConnectBegin(t)
  <2>1. UNCHANGED <<retry_count, seen>> /\ Racing' \subseteq Racing
    BY <1>2 DEF ConnectBegin
  <2> QED
    BY <2>1, RetryFrame
<1>3. CASE ConnectNotFound(t)
  <2>1. UNCHANGED <<retry_count, seen>> /\ Racing' \subseteq Racing
    BY <1>3 DEF ConnectNotFound
  <2> QED
    BY <2>1, RetryFrame
<1>4. CASE ConnectIncompatible(t)
  <2>1. UNCHANGED <<retry_count, seen>> /\ Racing' \subseteq Racing
    BY <1>4 DEF ConnectIncompatible
  <2> QED
    BY <2>1, RetryFrame
<1>5. CASE ConnectAuthenticate(t)
  <2>1. UNCHANGED <<retry_count, seen>> /\ Racing' \subseteq Racing
    BY <1>5 DEF ConnectAuthenticate
  <2> QED
    BY <2>1, RetryFrame
<1>6. CASE ConnectTunnel(t)
  <2>1. UNCHANGED <<retry_count, seen>> /\ Racing' \subseteq Racing
    BY <1>6 DEF ConnectTunnel, TunnelUp
  <2> QED
    BY <2>1, RetryFrame
<1>7. CASE ConnectInitFails(t)
  <2>1. UNCHANGED <<retry_count, seen>> /\ Racing' \subseteq Racing
    BY <1>7 DEF ConnectInitFails
  <2> QED
    BY <2>1, RetryFrame
<1>8. CASE ConnectMayRetry(t)
  <2>1. /\ retry_count < MaxRetry /\ retry_count' = retry_count
        /\ seen' = [seen EXCEPT ![t] = retry_count] /\ Racing' \subseteq Racing \cup {t}
    BY <1>8 DEF ConnectMayRetry, MayRetry
  <2> QED
    BY <2>1, RaceEntered DEF Threads
<1>9. CASE ConnectRetry(t)
  <2>1. t \in Racing /\ Racing' = Racing \ {t} /\ Increment(t)
    BY <1>9 DEF ConnectRetry, CountRetry
  <2> QED
    BY <2>1, RaceLeft
<1>10. CASE ConnectDone(t)
  <2>1. /\ retry_count' <= MaxRetry /\ Racing' \subseteq Racing \ {t}
        /\ \A u \in Threads \ {t} : seen'[u] = seen[u]
    BY <1>10, EgpuAssumption DEF ConnectDone, ResetRetry, EgpuAssumption
  <2> QED
    BY <2>1, RetryWithin DEF TypeOK
<1>11. CASE GpuUp(t)
  <2>1. UNCHANGED <<retry_count, seen>> /\ Racing' \subseteq Racing
    BY <1>11 DEF GpuUp
  <2> QED
    BY <2>1, RetryFrame
<1>12. CASE \/ SetError(t, "tunnel", "TUNNEL_FAILED", "no_tunnel")
            \/ SetState(t, "no_tunnel", "ERROR", "retry")
            \/ LeaveIn(t, "retry", "DISCONNECTED")
            \/ SetState(t, "ready", "CONNECTED", "connected")
            \/ SetError(t, "connected", "NONE", "reset")
  <2>1. UNCHANGED <<retry_count, seen>> /\ Racing' \subseteq Racing
    BY <1>12
  <2> QED
    BY <2>1, RetryFrame
<1> QED
  BY <1>1, <1>2, <1>3, <1>4, <1>5, <1>6, <1>7, <1>8, <1>9, <1>10, <1>11, <1>12
     DEF EgpuConnect, ConnectTunnelFails, ConnectInit

LEMMA StartCounts ==
  ASSUME IsFiniteSet(Threads), TypeOK, TypeOK', RetryBound,
         NEW t \in Threads, StartMonitoring(t)
  PROVE  RetryBound'
<1> USE DEF Racing, TypeOK, Return, Goto, Then, Home, Acquire, Release, Brief, hwVars,
           monVars, policyVars, SetState, SetError, LockIn, LeaveIn,
           TeardownGpu, TeardownTunnel, Threads
<1>1. CASE StartCheck(t)
  <2>1. UNCHANGED <<retry_count, seen>> /\ Racing' \subseteq Racing
    BY <1>1 DEF StartCheck
  <2> QED
    BY <2>1, RetryFrame
<1>2. CASE StartMark(t)
  <2>1. UNCHANGED <<retry_count, seen>> /\ Racing' \subseteq Racing
    BY <1>2 DEF StartMark
  <2> QED
    BY <2>1, RetryFrame
<1>3. CASE StartCreate(t)
  <2>1. UNCHANGED <<retry_count, seen>> /\ Racing' \subseteq Racing
    BY <1>3 DEF StartCreate
  <2> QED
    BY <2>1, RetryFrame
<1>4. CASE StartFails(t)
  <2>1. UNCHANGED <<retry_count, seen>> /\ Racing' \subseteq Racing
    BY <1>4 DEF StartFails
  <2> QED
    BY <2>1, RetryFrame
<1> QED
  BY <1>1, <1>2, <1>3, <1>4 DEF StartMonitoring

LEMMA StopCounts ==
  ASSUME IsFiniteSet(Threads), TypeOK, TypeOK', RetryBound,
         NEW t \in Apps, StopMonitoring(t)
  PROVE  RetryBound'
<1> USE DEF Racing, TypeOK, Return, Goto, Then, Home, Acquire, Release, Brief, hwVars,
           monVars, policyVars, SetState, SetError, LockIn, LeaveIn,
           TeardownGpu, TeardownTunnel, Threads
<1>1. CASE StopCheck(t)
  <2>1. UNCHANGED <<retry_count, seen>> /\ Racing' \subseteq Racing
    BY <1>1 DEF StopCheck, AfterStop
  <2> QED
    BY <2>1, RetryFrame
<1>2. CASE StopClear(t)
  <2>1. UNCHANGED <<retry_count, seen>> /\ Racing' \subseteq Racing
    BY <1>2 DEF StopClear
  <2> QED
    BY <2>1, RetryFrame
<1>3. CASE StopJoin(t)
  <2>1. UNCHANGED <<retry_count, seen>> /\ Racing' \subseteq Racing
    BY <1>3 DEF StopJoin
  <2> QED
    BY <2>1, RetryFrame
<1>4. CASE StopJoined(t)
  <2>1. UNCHANGED <<retry_count, seen>> /\ Racing' \subseteq Racing
    BY <1>4 DEF StopJoined, AfterStop
  <2> QED
    BY <2>1, RetryFrame
<1> QED
  BY <1>1, <1>2, <1>3, <1>4 DEF StopMonitoring

LEMMA SafeCounts ==
  ASSUME IsFiniteSet(Threads), TypeOK, TypeOK', RetryBound,
         NEW t \in Apps, SafeDisconnect(t)
  PROVE  RetryBound'
<1> USE DEF Racing, TypeOK, Return, Goto, Then, Home, Acquire, Release, Brief, hwVars,
           monVars, policyVars, SetState, SetError, LockIn, LeaveIn,
           TeardownGpu, TeardownTunnel, Threads
<1>1. CASE LockIn(t, "safe", "SAFE_DISCONNECT", "safe_gpu")
  <2>1. UNCHANGED <<retry_count, seen>> /\ Racing' \subseteq Racing
    BY <1>1
  <2> QED
    BY <2>1, RetryFrame
<1>2. CASE TeardownGpu(t, "safe_gpu", "safe_tunnel")
  <2>1. UNCHANGED <<retry_count, seen>> /\ Racing' \subseteq Racing
    BY <1>2
  <2> QED
    BY <2>1, RetryFrame
<1>3. CASE TeardownTunnel(t, "safe_tunnel", "safe_done")
  <2>1. UNCHANGED <<retry_count, seen>> /\ Racing' \subseteq Racing
    BY <1>3
  <2> QED
    BY <2>1, RetryFrame
<1>4. CASE SetState(t, "safe_done", "DISCONNECTED", "safe_clear")
  <2>1. UNCHANGED <<retry_count, seen>> /\ Racing' \subseteq Racing
    BY <1>4
  <2> QED
    BY <2>1, RetryFrame
<1>5. CASE SafeEnd(t)
  <2>1. UNCHANGED <<retry_count, seen>> /\ Racing' \subseteq Racing
    BY <1>5 DEF SafeEnd
  <2> QED
    BY <2>1, RetryFrame
<1> QED
  BY <1>1, <1>2, <1>3, <1>4, <1>5 DEF SafeDisconnect

LEMMA ForceCounts ==
  ASSUME IsFiniteSet(Threads), TypeOK, TypeOK', RetryBound,
         NEW t \in Threads, ForceDisconnect(t)
  PROVE  RetryBound'
<1> USE DEF Racing, TypeOK, Return, Goto, Then, Home, Acquire, Release, Brief, hwVars,
           monVars, policyVars, SetState, SetError, LockIn, LeaveIn,
           TeardownGpu, TeardownTunnel, Threads
<1>1. CASE ForceBegin(t)
  <2>1. UNCHANGED <<retry_count, seen>> /\ Racing' \subseteq Racing
    BY <1>1 DEF ForceBegin
  <2> QED
    BY <2>1, RetryFrame
<1>2. CASE LockIn(t, "force_lock", "FORCE_DISCONNECT", "force_gpu")
  <2>1. UNCHANGED <<retry_count, seen>> /\ Racing' \subseteq Racing
    BY <1>2
  <2> QED
    BY <2>1, RetryFrame
<1>3. CASE TeardownGpu(t, "force_gpu", "force_tunnel")
  <2>1. UNCHANGED <<retry_count, seen>> /\ Racing' \subseteq Racing
    BY <1>3
  <2> QED
    BY <2>1, RetryFrame
<1>4. CASE TeardownTunnel(t, "force_tunnel", "force_done")
  <2>1. UNCHANGED <<retry_count, seen>> /\ Racing' \subseteq Racing
    BY <1>4
  <2> QED
    BY <2>1, RetryFrame
<1>5. CASE ForceEnd(t)
  <2>1. UNCHANGED <<retry_count, seen>> /\ Racing' \subseteq Racing
    BY <1>5 DEF ForceEnd
  <2> QED
    BY <2>1, RetryFrame
<1> QED
  BY <1>1, <1>2, <1>3, <1>4, <1>5 DEF ForceDisconnect

LEMMA RecoveryCounts ==
  ASSUME IsFiniteSet(Threads), TypeOK, TypeOK', RetryBound,
         NEW t \in Threads, TryRecovery(t)
  PROVE  RetryBound'
<1> USE DEF Racing, TypeOK, Return, Goto, Then, Home, Acquire, Release, Brief, hwVars,
           monVars, policyVars, SetState, SetError, LockIn, LeaveIn,
           TeardownGpu, TeardownTunnel, Threads
<1>1. CASE RecoverCheck(t)
  <2>1. CASE Exhausted
    <3>1. UNCHANGED <<retry_count, seen>> /\ Racing' \subseteq Racing
      BY <1>1, <2>1 DEF RecoverCheck
    <3> QED
      BY <3>1, RetryFrame
  <2>2. CASE ~Exhausted
    <3>1. /\ retry_count < MaxRetry /\ retry_count' = retry_count
          /\ seen' = [seen EXCEPT ![t] = retry_count]
          /\ Racing' \subseteq Racing \cup {t}
      BY <1>1, <2>2, EgpuAssumption
         DEF RecoverCheck, Exhausted, EgpuAssumption
    <3> QED
      BY <3>1, RaceEntered
  <2> QED
    BY <2>1, <2>2
<1>2. CASE RecoverCount(t)
  <2>1. t \in Racing /\ Racing' = Racing \ {t} /\ Increment(t)
    BY <1>2 DEF RecoverCount
  <2> QED
    BY <2>1, RaceLeft
<1>3. CASE RecoverMark(t)
  <2>1. UNCHANGED <<retry_count, seen>> /\ Racing' \subseteq Racing
    BY <1>3 DEF RecoverMark
  <2> QED
    BY <2>1, RetryFrame
<1>4. CASE ResetLink(t)
  <2>1. UNCHANGED <<retry_count, seen>> /\ Racing' \subseteq Racing
    BY <1>4 DEF ResetLink, Reset
  <2> QED
    BY <2>1, RetryFrame
<1>5. CASE RecoverDone(t, "relink_reset", {"high", "critical", "corrupt"})
  <2>1. /\ retry_count' <= MaxRetry /\ Racing' \subseteq Racing \ {t}
        /\ \A u \in Threads \ {t} : seen'[u] = seen[u]
    BY <1>5, EgpuAssumption DEF RecoverDone, ResetRetry, EgpuAssumption
  <2> QED
    BY <2>1, RetryWithin DEF TypeOK
<1>6. CASE \/ LockIn(t, "recover_link", "CONNECTED", "relinked")
           \/ SetError(t, "relinked", "NONE", "relink_reset")
           \/ LockIn(t, "recover_hard", "CONNECTED", "rebuilt")
           \/ SetError(t, "rebuilt", "NONE", "rebuild_reset")
  <2>1. UNCHANGED <<retry_count, seen>> /\ Racing' \subseteq Racing
    BY <1>6
  <2> QED
    BY <2>1, RetryFrame
<1>7. CASE HardReset(t)
  <2>1. UNCHANGED <<retry_count, seen>> /\ Racing' \subseteq Racing
    BY <1>7 DEF HardReset, Reset
  <2> QED
    BY <2>1, RetryFrame
<1>8. CASE RecoverDone(t, "rebuild_reset", {})
  <2>1. /\ retry_count' <= MaxRetry /\ Racing' \subseteq Racing \ {t}
        /\ \A u \in Threads \ {t} : seen'[u] = seen[u]
    BY <1>8, EgpuAssumption DEF RecoverDone, ResetRetry, EgpuAssumption
  <2> QED
    BY <2>1, RetryWithin DEF TypeOK
<1> QED
  BY <1>1, <1>2, <1>3, <1>4, <1>5, <1>6, <1>7, <1>8
     DEF TryRecovery, RecoverLink, RecoverHard

LEMMA MonitorCounts ==
  ASSUME IsFiniteSet(Threads), TypeOK, TypeOK', RetryBound,
         NEW t \in Monitors, Monitor(t)
  PROVE  RetryBound'
<1> USE DEF Racing, TypeOK, Return, Goto, Then, Home, Acquire, Release, Brief, hwVars,
           monVars, policyVars, SetState, SetError, LockIn, LeaveIn,
           TeardownGpu, TeardownTunnel, Threads
<1>1. CASE MonitorWake(t)
  <2>1. UNCHANGED <<retry_count, seen>> /\ Racing' \subseteq Racing
    BY <1>1 DEF MonitorWake
  <2> QED
    BY <2>1, RetryFrame
<1>2. CASE MonitorPoll(t)
  <2>1. UNCHANGED <<retry_count, seen>> /\ Racing' \subseteq Racing
    BY <1>2 DEF MonitorPoll
  <2> QED
    BY <2>1, RetryFrame
<1>3. CASE MonitorLock(t)
  <2>1. UNCHANGED <<retry_count, seen>> /\ Racing' \subseteq Racing
    BY <1>3 DEF MonitorLock
  <2> QED
    BY <2>1, RetryFrame
<1>4. CASE MonitorLook(t)
  <2>1. UNCHANGED <<retry_count, seen>> /\ Racing' \subseteq Racing
    BY <1>4 DEF MonitorLook
  <2> QED
    BY <2>1, RetryFrame
<1>5. CASE MonitorVerify(t)
  <2>1. UNCHANGED <<retry_count, seen>> /\ Racing' \subseteq Racing
    BY <1>5 DEF MonitorVerify
  <2> QED
    BY <2>1, RetryFrame
<1>6. CASE MonitorReport(t, "report_hot", Emergency)
  <2>1. UNCHANGED <<retry_count, seen>> /\ Racing' \subseteq Racing
    BY <1>6 DEF MonitorReport, Emergency
  <2> QED
    BY <2>1, RetryFrame
<1>7. CASE MonitorReport(t, "report_fault", Recovery)
  <2>1. UNCHANGED <<retry_count, seen>> /\ Racing' \subseteq Racing
    BY <1>7 DEF MonitorReport, Recovery
  <2> QED
    BY <2>1, RetryFrame
<1> QED
  BY <1>1, <1>2, <1>3, <1>4, <1>5, <1>6, <1>7 DEF Monitor

LEMMA NextRetry ==
  ASSUME IsFiniteSet(Threads), TypeOK, TypeOK', RetryBound, [Next]_vars
  PROVE  RetryBound'
<1> USE DEF Racing, TypeOK, Return, Goto, Then, Home, Acquire, Release, Brief, hwVars,
           monVars, policyVars, SetState, SetError, LockIn, LeaveIn,
           TeardownGpu, TeardownTunnel, Threads
<1>1. ASSUME NEW a \in Apps, NEW op \in Ops, Call(a, op)
      PROVE  RetryBound'
  <2>1. UNCHANGED <<retry_count, seen>> /\ Racing' \subseteq Racing
    BY <1>1 DEF Call, Entry, Ops
  <2> QED
    BY <2>1, RetryFrame
<1>2. CASE ShutdownBegin
  <2>1. UNCHANGED <<retry_count, seen>> /\ Racing' \subseteq Racing
    BY <1>2 DEF ShutdownBegin
  <2> QED
    BY <2>1, RetryFrame
<1>3. CASE ShutdownBranch
  <2>1. UNCHANGED <<retry_count, seen>> /\ Racing' \subseteq Racing
    BY <1>3 DEF ShutdownBranch
  <2> QED
    BY <2>1, RetryFrame
<1>4. CASE ShutdownDestroy
  <2>1. UNCHANGED <<retry_count, seen>> /\ Racing' \subseteq Racing
    BY <1>4 DEF ShutdownDestroy
  <2> QED
    BY <2>1, RetryFrame
<1>5. CASE SafetyInit
  <2>1. /\ retry_count' <= MaxRetry /\ Racing' \subseteq Racing \ {Main}
        /\ \A u \in Threads \ {Main} : seen'[u] = seen[u]
    BY <1>5, EgpuAssumption DEF SafetyInit, EgpuAssumption
  <2> QED
    BY <2>1, RetryWithin, EgpuAssumption DEF TypeOK, EgpuAssumption
<1>6. CASE Telemetry
  <2>1. UNCHANGED <<retry_count, seen>> /\ Racing' \subseteq Racing
    BY <1>6 DEF Telemetry
  <2> QED
    BY <2>1, RetryFrame
<1>7. ASSUME NEW t \in Threads, Step(t)
      PROVE  RetryBound'
  BY <1>7, ConnectCounts, StartCounts, StopCounts, SafeCounts, ForceCounts, RecoveryCounts, MonitorCounts DEF Step
<1>8. CASE UNCHANGED vars
  <2>1. UNCHANGED <<retry_count, seen>> /\ Racing' \subseteq Racing
    BY <1>8 DEF vars
  <2> QED
    BY <2>1, RetryFrame
<1> QED
  BY <1>1, <1>2, <1>3, <1>4, <1>5, <1>6, <1>7, <1>8 DEF Next, Shutdown

\* However many threads race through egpu_try_recovery's unlocked test and
\* increment, the counter exceeds the policy's maximum by less than their
\* number.
THEOREM OvershootIsBounded ==
  ASSUME IsFiniteSet(Threads) PROVE Spec => []RetryOvershoot
<1>1. TypeOK /\ TypeOK' /\ RetryBound /\ [Next]_vars => RetryBound'
  BY NextRetry
<1>2. TypeOK /\ RetryBound => RetryOvershoot
  BY RacingFinite, EgpuAssumption
     DEF RetryBound, RetryOvershoot, TypeOK, EgpuAssumption
<1> QED
  BY InitRetry, TypeCorrect, <1>1, <1>2, PTL DEF Spec

-----------------------------------------------------------------------------
(***************************************************************************)
(* Under the use the README documents: one thread connects, disconnects    *)
(* safely and shuts down, recovery is on, the link can be reset and the    *)
(* GPU stays below its thermal limit.  Any number of thread ids, any retry *)
(* budget above zero, any initialisation and reinitialisation.             *)
(***************************************************************************)
SetUpSucceeds == MayFail \cap {"detect", "compat", "tunnel", "init"} = {}

\* egpu_connect may fail half-way only where it is not called over a
\* connection that is already up.
Usage ==
  /\ Apps = {Main} /\ AppOps \subseteq {"connect", "safe"}
  /\ AutoRecovery = TRUE /\ MaxRetry > 0
  /\ "link" \notin MayFail /\ "hot" \notin Faults
  /\ SetUpSucceeds \/ ConnectWhen \subseteq {"DISCONNECTED"} \X Errors

\* Where a thread can be in egpu_connect: before its GPU is up, once it is,
\* and where a step has failed.
Failing    == {"not_found", "incompatible", "rejected", "no_tunnel", "retry",
               "retry_inc", "no_gpu", "undo", "undone"}
Tunnelled  == {"tunnelled", "init", "no_gpu", "undo"}
GpuReady   == {"ready", "connected", "reset"}
Connecting == {"connect", "detect", "auth", "tunnel", "tunnelled", "init"}
                \cup Failing \cup GpuReady

\* Where else the application's thread and a monitor can be under this use.
Starting == {"start", "mark", "create"}
Stopping == {"stop", "clear", "join", "joined"}
Leaving  == {"safe", "safe_gpu", "safe_tunnel", "safe_done", "safe_clear"}
Ending   == Leaving \cup {"branch", "destroy"}
Relinked == {"relinked", "relink_reset"}
Counted  == {"recover_mark", "reset_link", "recover_link"} \cup Relinked
Recovers == {"recover", "recover_inc"} \cup Counted
Watches  == {"wake", "poll", "check"} \cup Looking

Quiet == \A m \in Monitors : pc[m] = "free"

\* Who is where, and who holds the mutex.
Places ==
  /\ pc[Main] \in {"idle"} \cup Connecting \cup Starting \cup Stopping \cup Ending
  /\ \A m \in Monitors :
       pc[m] \in {"free", "zombie"} \cup (Watches \ {"report_hot"}) \cup Recovers
  /\ \A t \in Threads : pc[t] \in Locked <=> lock = t
  /\ pc[Main] \in Stopping => ret[Main] \in {"safe", "shutdown", "shutdown_safe"}
  /\ pc[Main] # "idle" => initialized
  /\ SetUpSucceeds => pc[Main] \notin Failing

\* The monitor is the one whose handle is kept, and monitor_running says
\* whether it is to go on.
Handle ==
  /\ \A m \in Monitors : pc[m] # "free" => m = monitor_thread
  /\ \A m \in Monitors : pc[m] = "zombie" => ~monitor_running
  /\ monitor_running => pc[Main] = "create" \/ ~Quiet
  /\ ~monitor_running => pc[Main] \in {"join", "joined"} \/ Quiet
  /\ pc[Main] = "clear" => monitor_running
  /\ pc[Main] \in {"join", "joined"} => ~monitor_running /\ ~Quiet
  /\ pc[Main] = "joined" => joining[Main] = monitor_thread
  /\ pc[Main] = "mark" => ~monitor_running
  /\ pc[Main] = "create" => monitor_running /\ Quiet
  /\ pc[Main] \in Ending \/ ~initialized => ~monitor_running /\ Quiet

\* The state shown and the hardware agree.
Link ==
  /\ \A t \in Threads : pc[t] \in DOMAIN Published => state = Published[pc[t]]
  /\ pc[Main] \notin Locked => state \in Up \cup Faulted \cup {"DISCONNECTED"}
  /\ pc[Main] \notin Locked /\ Quiet =>
       state \in Up \/ (state \in {"ERROR", "DISCONNECTED"} /\ ~gpu)
  /\ \A m \in Monitors : pc[m] # "free" =>
       /\ gpu
       /\ pc[Main] \notin Locked => state \in Up \cup Faulted
       /\ pc[Main] \notin Locked /\ pc[m] \notin Recovers => state \in Up
  /\ pc[Main] \in Starting \cup GpuReady => gpu
  /\ pc[Main] = "destroy" \/ ~initialized => state \notin Up
  /\ pc[Main] \notin Tunnelled \cup {"safe_tunnel"} => (gpu <=> tunnel)
  /\ state \in Up => gpu
  /\ pc[Main] \in Tunnelled => tunnel
  /\ pc[Main] = "safe_tunnel" => tunnel \/ ~gpu
  /\ pc[Main] \in {"safe_tunnel", "safe_done", "safe_clear"} => ~gpu
  /\ SetUpSucceeds \/
       (pc[Main] \in Connecting => Quiet /\ (pc[Main] \notin GpuReady => ~gpu))
  /\ health \subseteq Faults

\* The error shown goes with them.
Blamed == {"report_fault", "report_hot", "incompatible", "no_tunnel", "no_gpu"}
Blame ==
  /\ ErrorExplained
  /\ \A t \in Threads :
       /\ pc[t] \in {"look", "verify", "reset", "relink_reset"} => last_error = "NONE"
       /\ pc[t] \in Blamed => last_error # "NONE"

\* A recovery is always the first one: the one before it reset the counter.
Attempts ==
  /\ retry_count <= MaxRetry
  /\ state \in Up /\ Quiet /\ pc[Main] \notin Locked => retry_count = 0
  /\ \A m \in Monitors : pc[m] # "free" =>
       retry_count = 0 \/ (retry_count = 1 /\ pc[m] \in Counted)
  /\ \A m \in Monitors : pc[m] = "recover_inc" => seen[m] = 0
  /\ pc[Main] = "retry_inc" => seen[Main] = retry_count /\ retry_count < MaxRetry

UsageInv == Places /\ Handle /\ Link /\ Blame /\ Attempts

\* One application thread, and the monitors.
LEMMA UsageThreads ==
  ASSUME Usage
  PROVE  /\ Apps = {Main} /\ Main \notin Monitors /\ Threads = {Main} \cup Monitors
         /\ None \notin Monitors /\ Main # None
BY EgpuAssumption DEF Usage, EgpuAssumption, Threads

LEMMA ConnectUsage ==
  ASSUME Usage, TypeOK, UsageInv, EgpuConnect(Main)
  PROVE  UsageInv'
<1> USE LockedLabels, PublishedLabels, PublishedStates, UsageThreads,
       EgpuAssumption
       DEF EgpuAssumption, Failing, Tunnelled, GpuReady, Connecting, Starting,
           Stopping, Leaving, Ending, Relinked, Counted, Recovers, Watches,
           Looking, Quiet, TypeOK, Return, Goto, Then, Home, Acquire, Release,
           Brief, hwVars, monVars, policyVars, SetState, SetError, LockIn,
           LeaveIn, TeardownGpu, TeardownTunnel, Up, Faulted, Opening, Closing
<1>1. CASE ConnectIgnored(Main)
  <2>1. Places'
    BY <1>1 DEF UsageInv, Places, Link, Usage, ConnectIgnored
  <2>2. Handle'
    BY <1>1 DEF UsageInv, Places, Handle, Usage, ConnectIgnored
  <2>3. Link'
    BY <1>1 DEF UsageInv, Places, Handle, Link, Usage, ConnectIgnored
  <2>4. Blame'
    BY <1>1
       DEF UsageInv, Places, Handle, Link, Blame, Blamed, ErrorExplained,
           Usage, ConnectIgnored
  <2>5. Attempts'
    BY <1>1
       DEF UsageInv, Places, Handle, Link, Attempts, Usage, ConnectIgnored
  <2> QED
    BY <2>1, <2>2, <2>3, <2>4, <2>5 DEF UsageInv
<1>2. CASE ConnectBegin(Main)
  <2>1. Places'
    BY <1>2 DEF UsageInv, Places, Link, Usage, ConnectBegin
  <2>2. Handle'
    BY <1>2 DEF UsageInv, Places, Handle, Usage, ConnectBegin
  <2>3. Link'
    BY <1>2 DEF UsageInv, Places, Handle, Link, Usage, ConnectBegin
  <2>4. Blame'
    BY <1>2
       DEF UsageInv, Places, Handle, Link, Blame, Blamed, ErrorExplained,
           Usage, ConnectBegin
  <2>5. Attempts'
    BY <1>2 DEF UsageInv, Places, Handle, Link, Attempts, Usage, ConnectBegin
  <2> QED
    BY <2>1, <2>2, <2>3, <2>4, <2>5 DEF UsageInv
<1>3. CASE ConnectNotFound(Main)
  <2>1. Places'
    BY <1>3 DEF UsageInv, Places, Link, Usage, ConnectNotFound, SetUpSucceeds
  <2>2. Handle'
    BY <1>3
       DEF UsageInv, Places, Handle, Usage, ConnectNotFound, SetUpSucceeds
  <2>3. Link'
    BY <1>3
       DEF UsageInv, Places, Handle, Link, Usage, ConnectNotFound,
           SetUpSucceeds
  <2>4. Blame'
    BY <1>3
       DEF UsageInv, Places, Handle, Link, Blame, Blamed, ErrorExplained,
           Usage, ConnectNotFound, SetUpSucceeds
  <2>5. Attempts'
    BY <1>3
       DEF UsageInv, Places, Handle, Link, Attempts, Usage, ConnectNotFound,
           SetUpSucceeds
  <2> QED
    BY <2>1, <2>2, <2>3, <2>4, <2>5 DEF UsageInv
<1>4. CASE ConnectIncompatible(Main)
  <2>1. Places'
    BY <1>4
       DEF UsageInv, Places, Link, Usage, ConnectIncompatible, SetUpSucceeds
  <2>2. Handle'
    BY <1>4
       DEF UsageInv, Places, Handle, Usage, ConnectIncompatible, SetUpSucceeds
  <2>3. Link'
    BY <1>4
       DEF UsageInv, Places, Handle, Link, Usage, ConnectIncompatible,
           SetUpSucceeds
  <2>4. Blame'
    BY <1>4
       DEF UsageInv, Places, Handle, Link, Blame, Blamed, ErrorExplained,
           Usage, ConnectIncompatible, SetUpSucceeds
  <2>5. Attempts'
    BY <1>4
       DEF UsageInv, Places, Handle, Link, Attempts, Usage,
           ConnectIncompatible, SetUpSucceeds
  <2> QED
    BY <2>1, <2>2, <2>3, <2>4, <2>5 DEF UsageInv
<1>5. CASE ConnectAuthenticate(Main)
  <2>1. Places'
    BY <1>5 DEF UsageInv, Places, Link, Usage, ConnectAuthenticate
  <2>2. Handle'
    BY <1>5 DEF UsageInv, Places, Handle, Usage, ConnectAuthenticate
  <2>3. Link'
    BY <1>5 DEF UsageInv, Places, Handle, Link, Usage, ConnectAuthenticate
  <2>4. Blame'
    BY <1>5
       DEF UsageInv, Places, Handle, Link, Blame, Blamed, ErrorExplained,
           Usage, ConnectAuthenticate
  <2>5. Attempts'
    BY <1>5
       DEF UsageInv, Places, Handle, Link, Attempts, Usage,
           ConnectAuthenticate
  <2> QED
    BY <2>1, <2>2, <2>3, <2>4, <2>5 DEF UsageInv
<1>6. CASE ConnectTunnel(Main)
  <2>1. Places'
    BY <1>6 DEF UsageInv, Places, Link, Usage, ConnectTunnel, TunnelUp
  <2>2. Handle'
    BY <1>6 DEF UsageInv, Places, Handle, Usage, ConnectTunnel, TunnelUp
  <2>3. Link'
    BY <1>6 DEF UsageInv, Places, Handle, Link, Usage, ConnectTunnel, TunnelUp
  <2>4. Blame'
    BY <1>6
       DEF UsageInv, Places, Handle, Link, Blame, Blamed, ErrorExplained,
           Usage, ConnectTunnel, TunnelUp
  <2>5. Attempts'
    BY <1>6
       DEF UsageInv, Places, Handle, Link, Attempts, Usage, ConnectTunnel,
           TunnelUp
  <2> QED
    BY <2>1, <2>2, <2>3, <2>4, <2>5 DEF UsageInv
<1>7. CASE ConnectTunnelFails(Main)
  <2>1. Places'
    BY <1>7
       DEF UsageInv, Places, Link, Usage, ConnectTunnelFails, ConnectMayRetry,
           ConnectRetry, MayRetry, CountRetry, Increment, SetUpSucceeds
  <2>2. Handle'
    BY <1>7
       DEF UsageInv, Places, Handle, Usage, ConnectTunnelFails,
           ConnectMayRetry, ConnectRetry, MayRetry, CountRetry, Increment,
           SetUpSucceeds
  <2>3. Link'
    BY <1>7
       DEF UsageInv, Places, Handle, Link, Usage, ConnectTunnelFails,
           ConnectMayRetry, ConnectRetry, MayRetry, CountRetry, Increment,
           SetUpSucceeds
  <2>4. Blame'
    BY <1>7
       DEF UsageInv, Places, Handle, Link, Blame, Blamed, ErrorExplained,
           Usage, ConnectTunnelFails, ConnectMayRetry, ConnectRetry, MayRetry,
           CountRetry, Increment, SetUpSucceeds
  <2>5. Attempts'
    BY <1>7
       DEF UsageInv, Places, Handle, Link, Attempts, Usage,
           ConnectTunnelFails, ConnectMayRetry, ConnectRetry, MayRetry,
           CountRetry, Increment, SetUpSucceeds
  <2> QED
    BY <2>1, <2>2, <2>3, <2>4, <2>5 DEF UsageInv
<1>8. CASE ConnectInit(Main)
  <2>1. Places'
    BY <1>8
       DEF UsageInv, Places, Link, Usage, ConnectInit, GpuUp, ConnectDone,
           ResetRetry
  <2>2. Handle'
    BY <1>8
       DEF UsageInv, Places, Handle, Usage, ConnectInit, GpuUp, ConnectDone,
           ResetRetry
  <2>3. Link'
    BY <1>8
       DEF UsageInv, Places, Handle, Link, Usage, ConnectInit, GpuUp,
           ConnectDone, ResetRetry
  <2>4. Blame'
    BY <1>8
       DEF UsageInv, Places, Handle, Link, Blame, Blamed, ErrorExplained,
           Usage, ConnectInit, GpuUp, ConnectDone, ResetRetry
  <2>5. Attempts'
    BY <1>8
       DEF UsageInv, Places, Handle, Link, Attempts, Usage, ConnectInit,
           GpuUp, ConnectDone, ResetRetry
  <2> QED
    BY <2>1, <2>2, <2>3, <2>4, <2>5 DEF UsageInv
<1>9. CASE ConnectInitFails(Main)
  <2>1. Places'
    BY <1>9 DEF UsageInv, Places, Link, Usage, ConnectInitFails, SetUpSucceeds
  <2>2. Handle'
    BY <1>9
       DEF UsageInv, Places, Handle, Usage, ConnectInitFails, SetUpSucceeds
  <2>3. Link'
    BY <1>9
       DEF UsageInv, Places, Handle, Link, Usage, ConnectInitFails,
           SetUpSucceeds
  <2>4. Blame'
    BY <1>9
       DEF UsageInv, Places, Handle, Link, Blame, Blamed, ErrorExplained,
           Usage, ConnectInitFails, SetUpSucceeds
  <2>5. Attempts'
    BY <1>9
       DEF UsageInv, Places, Handle, Link, Attempts, Usage, ConnectInitFails,
           SetUpSucceeds
  <2> QED
    BY <2>1, <2>2, <2>3, <2>4, <2>5 DEF UsageInv
<1> QED
  BY <1>1, <1>2, <1>3, <1>4, <1>5, <1>6, <1>7, <1>8, <1>9 DEF EgpuConnect

LEMMA StartUsage ==
  ASSUME Usage, TypeOK, UsageInv, StartMonitoring(Main)
  PROVE  UsageInv'
<1> USE LockedLabels, PublishedLabels, PublishedStates, UsageThreads,
       EgpuAssumption
       DEF EgpuAssumption, Failing, Tunnelled, GpuReady, Connecting, Starting,
           Stopping, Leaving, Ending, Relinked, Counted, Recovers, Watches,
           Looking, Quiet, TypeOK, Return, Goto, Then, Home, Acquire, Release,
           Brief, hwVars, monVars, policyVars, SetState, SetError, LockIn,
           LeaveIn, TeardownGpu, TeardownTunnel, Up, Faulted, Opening, Closing
<1>1. CASE StartCheck(Main)
  <2>1. Places'
    BY <1>1 DEF UsageInv, Places, Link, Usage, StartCheck
  <2>2. Handle'
    BY <1>1 DEF UsageInv, Places, Handle, Usage, StartCheck
  <2>3. Link'
    BY <1>1 DEF UsageInv, Places, Handle, Link, Usage, StartCheck
  <2>4. Blame'
    BY <1>1
       DEF UsageInv, Places, Handle, Link, Blame, Blamed, ErrorExplained,
           Usage, StartCheck
  <2>5. Attempts'
    BY <1>1 DEF UsageInv, Places, Handle, Link, Attempts, Usage, StartCheck
  <2> QED
    BY <2>1, <2>2, <2>3, <2>4, <2>5 DEF UsageInv
<1>2. CASE StartMark(Main)
  <2>1. Places'
    BY <1>2 DEF UsageInv, Places, Link, Usage, StartMark
  <2>2. Handle'
    BY <1>2 DEF UsageInv, Places, Handle, Usage, StartMark
  <2>3. Link'
    BY <1>2 DEF UsageInv, Places, Handle, Link, Usage, StartMark
  <2>4. Blame'
    BY <1>2
       DEF UsageInv, Places, Handle, Link, Blame, Blamed, ErrorExplained,
           Usage, StartMark
  <2>5. Attempts'
    BY <1>2 DEF UsageInv, Places, Handle, Link, Attempts, Usage, StartMark
  <2> QED
    BY <2>1, <2>2, <2>3, <2>4, <2>5 DEF UsageInv
<1>3. CASE StartCreate(Main)
  <2>1. Places'
    BY <1>3 DEF UsageInv, Places, Link, Usage, StartCreate
  <2>2. Handle'
    BY <1>3 DEF UsageInv, Places, Handle, Usage, StartCreate
  <2>3. Link'
    BY <1>3 DEF UsageInv, Places, Handle, Link, Usage, StartCreate
  <2>4. Blame'
    BY <1>3
       DEF UsageInv, Places, Handle, Link, Blame, Blamed, ErrorExplained,
           Usage, StartCreate
  <2>5. Attempts'
    BY <1>3 DEF UsageInv, Places, Handle, Link, Attempts, Usage, StartCreate
  <2> QED
    BY <2>1, <2>2, <2>3, <2>4, <2>5 DEF UsageInv
<1>4. CASE StartFails(Main)
  <2>1. Places'
    BY <1>4 DEF UsageInv, Places, Link, Usage, StartFails
  <2>2. Handle'
    BY <1>4 DEF UsageInv, Places, Handle, Usage, StartFails
  <2>3. Link'
    BY <1>4 DEF UsageInv, Places, Handle, Link, Usage, StartFails
  <2>4. Blame'
    BY <1>4
       DEF UsageInv, Places, Handle, Link, Blame, Blamed, ErrorExplained,
           Usage, StartFails
  <2>5. Attempts'
    BY <1>4 DEF UsageInv, Places, Handle, Link, Attempts, Usage, StartFails
  <2> QED
    BY <2>1, <2>2, <2>3, <2>4, <2>5 DEF UsageInv
<1> QED
  BY <1>1, <1>2, <1>3, <1>4 DEF StartMonitoring

LEMMA StopUsage ==
  ASSUME Usage, TypeOK, UsageInv, StopMonitoring(Main)
  PROVE  UsageInv'
<1> USE LockedLabels, PublishedLabels, PublishedStates, UsageThreads,
       EgpuAssumption
       DEF EgpuAssumption, Failing, Tunnelled, GpuReady, Connecting, Starting,
           Stopping, Leaving, Ending, Relinked, Counted, Recovers, Watches,
           Looking, Quiet, TypeOK, Return, Goto, Then, Home, Acquire, Release,
           Brief, hwVars, monVars, policyVars, SetState, SetError, LockIn,
           LeaveIn, TeardownGpu, TeardownTunnel, Up, Faulted, Opening, Closing
<1>1. CASE StopCheck(Main)
  <2>1. Places'
    BY <1>1 DEF UsageInv, Places, Link, Usage, StopCheck, AfterStop
  <2>2. Handle'
    BY <1>1 DEF UsageInv, Places, Handle, Usage, StopCheck, AfterStop
  <2>3. Link'
    BY <1>1 DEF UsageInv, Places, Handle, Link, Usage, StopCheck, AfterStop
  <2>4. Blame'
    BY <1>1
       DEF UsageInv, Places, Handle, Link, Blame, Blamed, ErrorExplained,
           Usage, StopCheck, AfterStop
  <2>5. Attempts'
    BY <1>1
       DEF UsageInv, Places, Handle, Link, Attempts, Usage, StopCheck,
           AfterStop
  <2> QED
    BY <2>1, <2>2, <2>3, <2>4, <2>5 DEF UsageInv
<1>2. CASE StopClear(Main)
  <2>1. Places'
    BY <1>2 DEF UsageInv, Places, Link, Usage, StopClear
  <2>2. Handle'
    BY <1>2 DEF UsageInv, Places, Handle, Usage, StopClear
  <2>3. Link'
    BY <1>2 DEF UsageInv, Places, Handle, Link, Usage, StopClear
  <2>4. Blame'
    BY <1>2
       DEF UsageInv, Places, Handle, Link, Blame, Blamed, ErrorExplained,
           Usage, StopClear
  <2>5. Attempts'
    BY <1>2 DEF UsageInv, Places, Handle, Link, Attempts, Usage, StopClear
  <2> QED
    BY <2>1, <2>2, <2>3, <2>4, <2>5 DEF UsageInv
<1>3. CASE StopJoin(Main)
  <2>1. Places'
    BY <1>3 DEF UsageInv, Places, Link, Usage, StopJoin
  <2>2. Handle'
    BY <1>3 DEF UsageInv, Places, Handle, Usage, StopJoin
  <2>3. Link'
    BY <1>3 DEF UsageInv, Places, Handle, Link, Usage, StopJoin
  <2>4. Blame'
    BY <1>3
       DEF UsageInv, Places, Handle, Link, Blame, Blamed, ErrorExplained,
           Usage, StopJoin
  <2>5. Attempts'
    BY <1>3 DEF UsageInv, Places, Handle, Link, Attempts, Usage, StopJoin
  <2> QED
    BY <2>1, <2>2, <2>3, <2>4, <2>5 DEF UsageInv
<1>4. CASE StopJoined(Main)
  <2>1. Places'
    BY <1>4 DEF UsageInv, Places, Link, Usage, StopJoined, AfterStop
  <2>2. Handle'
    BY <1>4 DEF UsageInv, Places, Handle, Usage, StopJoined, AfterStop
  <2>3. Link'
    BY <1>4 DEF UsageInv, Places, Handle, Link, Usage, StopJoined, AfterStop
  <2>4. Blame'
    BY <1>4
       DEF UsageInv, Places, Handle, Link, Blame, Blamed, ErrorExplained,
           Usage, StopJoined, AfterStop
  <2>5. Attempts'
    BY <1>4
       DEF UsageInv, Places, Handle, Link, Attempts, Usage, StopJoined,
           AfterStop
  <2> QED
    BY <2>1, <2>2, <2>3, <2>4, <2>5 DEF UsageInv
<1> QED
  BY <1>1, <1>2, <1>3, <1>4 DEF StopMonitoring

LEMMA SafeUsage ==
  ASSUME Usage, TypeOK, UsageInv, SafeDisconnect(Main)
  PROVE  UsageInv'
<1> USE LockedLabels, PublishedLabels, PublishedStates, UsageThreads,
       EgpuAssumption
       DEF EgpuAssumption, Failing, Tunnelled, GpuReady, Connecting, Starting,
           Stopping, Leaving, Ending, Relinked, Counted, Recovers, Watches,
           Looking, Quiet, TypeOK, Return, Goto, Then, Home, Acquire, Release,
           Brief, hwVars, monVars, policyVars, SetState, SetError, LockIn,
           LeaveIn, TeardownGpu, TeardownTunnel, Up, Faulted, Opening, Closing
<1>1. CASE LockIn(Main, "safe", "SAFE_DISCONNECT", "safe_gpu")
  <2>1. Places'
    BY <1>1 DEF UsageInv, Places, Link, Usage
  <2>2. Handle'
    BY <1>1 DEF UsageInv, Places, Handle, Usage
  <2>3. Link'
    BY <1>1 DEF UsageInv, Places, Handle, Link, Usage
  <2>4. Blame'
    BY <1>1
       DEF UsageInv, Places, Handle, Link, Blame, Blamed, ErrorExplained,
           Usage
  <2>5. Attempts'
    BY <1>1 DEF UsageInv, Places, Handle, Link, Attempts, Usage
  <2> QED
    BY <2>1, <2>2, <2>3, <2>4, <2>5 DEF UsageInv
<1>2. CASE TeardownGpu(Main, "safe_gpu", "safe_tunnel")
  <2>1. Places'
    BY <1>2 DEF UsageInv, Places, Link, Usage
  <2>2. Handle'
    BY <1>2 DEF UsageInv, Places, Handle, Usage
  <2>3. Link'
    BY <1>2 DEF UsageInv, Places, Handle, Link, Usage
  <2>4. Blame'
    BY <1>2
       DEF UsageInv, Places, Handle, Link, Blame, Blamed, ErrorExplained,
           Usage
  <2>5. Attempts'
    BY <1>2 DEF UsageInv, Places, Handle, Link, Attempts, Usage
  <2> QED
    BY <2>1, <2>2, <2>3, <2>4, <2>5 DEF UsageInv
<1>3. CASE TeardownTunnel(Main, "safe_tunnel", "safe_done")
  <2>1. Places'
    BY <1>3 DEF UsageInv, Places, Link, Usage
  <2>2. Handle'
    BY <1>3 DEF UsageInv, Places, Handle, Usage
  <2>3. Link'
    BY <1>3 DEF UsageInv, Places, Handle, Link, Usage
  <2>4. Blame'
    BY <1>3
       DEF UsageInv, Places, Handle, Link, Blame, Blamed, ErrorExplained,
           Usage
  <2>5. Attempts'
    BY <1>3 DEF UsageInv, Places, Handle, Link, Attempts, Usage
  <2> QED
    BY <2>1, <2>2, <2>3, <2>4, <2>5 DEF UsageInv
<1>4. CASE SetState(Main, "safe_done", "DISCONNECTED", "safe_clear")
  <2>1. Places'
    BY <1>4 DEF UsageInv, Places, Link, Usage
  <2>2. Handle'
    BY <1>4 DEF UsageInv, Places, Handle, Usage
  <2>3. Link'
    BY <1>4 DEF UsageInv, Places, Handle, Link, Usage
  <2>4. Blame'
    BY <1>4
       DEF UsageInv, Places, Handle, Link, Blame, Blamed, ErrorExplained,
           Usage
  <2>5. Attempts'
    BY <1>4 DEF UsageInv, Places, Handle, Link, Attempts, Usage
  <2> QED
    BY <2>1, <2>2, <2>3, <2>4, <2>5 DEF UsageInv
<1>5. CASE SafeEnd(Main)
  <2>1. Places'
    BY <1>5 DEF UsageInv, Places, Link, Usage, SafeEnd
  <2>2. Handle'
    BY <1>5 DEF UsageInv, Places, Handle, Usage, SafeEnd
  <2>3. Link'
    BY <1>5 DEF UsageInv, Places, Handle, Link, Usage, SafeEnd
  <2>4. Blame'
    BY <1>5
       DEF UsageInv, Places, Handle, Link, Blame, Blamed, ErrorExplained,
           Usage, SafeEnd
  <2>5. Attempts'
    BY <1>5 DEF UsageInv, Places, Handle, Link, Attempts, Usage, SafeEnd
  <2> QED
    BY <2>1, <2>2, <2>3, <2>4, <2>5 DEF UsageInv
<1> QED
  BY <1>1, <1>2, <1>3, <1>4, <1>5 DEF SafeDisconnect

LEMMA RecoveryUsage ==
  ASSUME Usage, TypeOK, UsageInv, NEW m \in Monitors, TryRecovery(m)
  PROVE  UsageInv'
<1> USE LockedLabels, PublishedLabels, PublishedStates, UsageThreads,
       EgpuAssumption
       DEF EgpuAssumption, Failing, Tunnelled, GpuReady, Connecting, Starting,
           Stopping, Leaving, Ending, Relinked, Counted, Recovers, Watches,
           Looking, Quiet, TypeOK, Return, Goto, Then, Home, Acquire, Release,
           Brief, hwVars, monVars, policyVars, SetState, SetError, LockIn,
           LeaveIn, TeardownGpu, TeardownTunnel, Up, Faulted, Opening, Closing
<1>1. CASE RecoverCheck(m)
  <2>0. /\ pc' = [pc EXCEPT ![m] = "recover_inc"]
        /\ seen' = [seen EXCEPT ![m] = retry_count]
        /\ pc[m] = "recover" /\ retry_count = 0
    BY <1>1 DEF UsageInv, Attempts, Usage, RecoverCheck, Exhausted
  <2>1. Places'
    BY <1>1, <2>0 DEF UsageInv, Places, Link, Usage, RecoverCheck
  <2>2. Handle'
    BY <1>1, <2>0 DEF UsageInv, Places, Handle, Usage, RecoverCheck
  <2>3. Link'
    BY <1>1, <2>0 DEF UsageInv, Places, Handle, Link, Usage, RecoverCheck
  <2>4. Blame'
    BY <1>1, <2>0
       DEF UsageInv, Places, Handle, Link, Blame, Blamed, ErrorExplained,
           Usage, RecoverCheck
  <2>5. Attempts'
    BY <1>1, <2>0
       DEF UsageInv, Places, Handle, Link, Attempts, Usage, RecoverCheck
  <2> QED
    BY <2>1, <2>2, <2>3, <2>4, <2>5 DEF UsageInv
<1>2. CASE RecoverCount(m)
  <2>1. Places'
    BY <1>2 DEF UsageInv, Places, Link, Usage, RecoverCount, Increment
  <2>2. Handle'
    BY <1>2 DEF UsageInv, Places, Handle, Usage, RecoverCount, Increment
  <2>3. Link'
    BY <1>2 DEF UsageInv, Places, Handle, Link, Usage, RecoverCount, Increment
  <2>4. Blame'
    BY <1>2
       DEF UsageInv, Places, Handle, Link, Blame, Blamed, ErrorExplained,
           Usage, RecoverCount, Increment
  <2>5. Attempts'
    BY <1>2
       DEF UsageInv, Places, Handle, Link, Attempts, Usage, RecoverCount,
           Increment
  <2> QED
    BY <2>1, <2>2, <2>3, <2>4, <2>5 DEF UsageInv
<1>3. CASE RecoverMark(m)
  <2>1. Places'
    BY <1>3 DEF UsageInv, Places, Link, Usage, RecoverMark
  <2>2. Handle'
    BY <1>3 DEF UsageInv, Places, Handle, Usage, RecoverMark
  <2>3. Link'
    BY <1>3 DEF UsageInv, Places, Handle, Link, Usage, RecoverMark
  <2>4. Blame'
    BY <1>3
       DEF UsageInv, Places, Handle, Link, Blame, Blamed, ErrorExplained,
           Usage, RecoverMark
  <2>5. Attempts'
    BY <1>3 DEF UsageInv, Places, Handle, Link, Attempts, Usage, RecoverMark
  <2> QED
    BY <2>1, <2>2, <2>3, <2>4, <2>5 DEF UsageInv
<1>4. CASE ResetLink(m)
  <2>1. Places'
    BY <1>4 DEF UsageInv, Places, Link, Usage, ResetLink, Reset
  <2>2. Handle'
    BY <1>4 DEF UsageInv, Places, Handle, Usage, ResetLink, Reset
  <2>3. Link'
    BY <1>4 DEF UsageInv, Places, Handle, Link, Usage, ResetLink, Reset
  <2>4. Blame'
    BY <1>4
       DEF UsageInv, Places, Handle, Link, Blame, Blamed, ErrorExplained,
           Usage, ResetLink, Reset
  <2>5. Attempts'
    BY <1>4
       DEF UsageInv, Places, Handle, Link, Attempts, Usage, ResetLink, Reset
  <2> QED
    BY <2>1, <2>2, <2>3, <2>4, <2>5 DEF UsageInv
<1>5. CASE RecoverLink(m)
  <2>1. Places'
    BY <1>5
       DEF UsageInv, Places, Link, Usage, RecoverLink, RecoverDone, ResetRetry
  <2>2. Handle'
    BY <1>5
       DEF UsageInv, Places, Handle, Usage, RecoverLink, RecoverDone,
           ResetRetry
  <2>3. Link'
    BY <1>5
       DEF UsageInv, Places, Handle, Link, Usage, RecoverLink, RecoverDone,
           ResetRetry
  <2>4. Blame'
    BY <1>5
       DEF UsageInv, Places, Handle, Link, Blame, Blamed, ErrorExplained,
           Usage, RecoverLink, RecoverDone, ResetRetry
  <2>5. Attempts'
    BY <1>5
       DEF UsageInv, Places, Handle, Link, Attempts, Usage, RecoverLink,
           RecoverDone, ResetRetry
  <2> QED
    BY <2>1, <2>2, <2>3, <2>4, <2>5 DEF UsageInv
<1>6. CASE HardReset(m)
  <2>1. Places'
    BY <1>6 DEF UsageInv, Places, Link, Usage, HardReset, Reset
  <2>2. Handle'
    BY <1>6 DEF UsageInv, Places, Handle, Usage, HardReset, Reset
  <2>3. Link'
    BY <1>6 DEF UsageInv, Places, Handle, Link, Usage, HardReset, Reset
  <2>4. Blame'
    BY <1>6
       DEF UsageInv, Places, Handle, Link, Blame, Blamed, ErrorExplained,
           Usage, HardReset, Reset
  <2>5. Attempts'
    BY <1>6
       DEF UsageInv, Places, Handle, Link, Attempts, Usage, HardReset, Reset
  <2> QED
    BY <2>1, <2>2, <2>3, <2>4, <2>5 DEF UsageInv
<1>7. CASE RecoverHard(m)
  <2>1. Places'
    BY <1>7
       DEF UsageInv, Places, Link, Usage, RecoverHard, RecoverDone, ResetRetry
  <2>2. Handle'
    BY <1>7
       DEF UsageInv, Places, Handle, Usage, RecoverHard, RecoverDone,
           ResetRetry
  <2>3. Link'
    BY <1>7
       DEF UsageInv, Places, Handle, Link, Usage, RecoverHard, RecoverDone,
           ResetRetry
  <2>4. Blame'
    BY <1>7
       DEF UsageInv, Places, Handle, Link, Blame, Blamed, ErrorExplained,
           Usage, RecoverHard, RecoverDone, ResetRetry
  <2>5. Attempts'
    BY <1>7
       DEF UsageInv, Places, Handle, Link, Attempts, Usage, RecoverHard,
           RecoverDone, ResetRetry
  <2> QED
    BY <2>1, <2>2, <2>3, <2>4, <2>5 DEF UsageInv
<1> QED
  BY <1>1, <1>2, <1>3, <1>4, <1>5, <1>6, <1>7 DEF TryRecovery

LEMMA MonitorUsage ==
  ASSUME Usage, TypeOK, UsageInv, NEW m \in Monitors, Monitor(m)
  PROVE  UsageInv'
<1> USE LockedLabels, PublishedLabels, PublishedStates, UsageThreads,
       EgpuAssumption
       DEF EgpuAssumption, Failing, Tunnelled, GpuReady, Connecting, Starting,
           Stopping, Leaving, Ending, Relinked, Counted, Recovers, Watches,
           Looking, Quiet, TypeOK, Return, Goto, Then, Home, Acquire, Release,
           Brief, hwVars, monVars, policyVars, SetState, SetError, LockIn,
           LeaveIn, TeardownGpu, TeardownTunnel, Up, Faulted, Opening, Closing
<1>1. CASE MonitorWake(m)
  <2>1. Places'
    BY <1>1 DEF UsageInv, Places, Link, Usage, MonitorWake
  <2>2. Handle'
    BY <1>1 DEF UsageInv, Places, Handle, Usage, MonitorWake
  <2>3. Link'
    BY <1>1 DEF UsageInv, Places, Handle, Link, Usage, MonitorWake
  <2>4. Blame'
    BY <1>1
       DEF UsageInv, Places, Handle, Link, Blame, Blamed, ErrorExplained,
           Usage, MonitorWake
  <2>5. Attempts'
    BY <1>1 DEF UsageInv, Places, Handle, Link, Attempts, Usage, MonitorWake
  <2> QED
    BY <2>1, <2>2, <2>3, <2>4, <2>5 DEF UsageInv
<1>2. CASE MonitorPoll(m)
  <2>1. Places'
    BY <1>2 DEF UsageInv, Places, Link, Usage, MonitorPoll
  <2>2. Handle'
    BY <1>2 DEF UsageInv, Places, Handle, Usage, MonitorPoll
  <2>3. Link'
    BY <1>2 DEF UsageInv, Places, Handle, Link, Usage, MonitorPoll
  <2>4. Blame'
    BY <1>2
       DEF UsageInv, Places, Handle, Link, Blame, Blamed, ErrorExplained,
           Usage, MonitorPoll
  <2>5. Attempts'
    BY <1>2 DEF UsageInv, Places, Handle, Link, Attempts, Usage, MonitorPoll
  <2> QED
    BY <2>1, <2>2, <2>3, <2>4, <2>5 DEF UsageInv
<1>3. CASE MonitorLock(m)
  <2>1. Places'
    BY <1>3 DEF UsageInv, Places, Link, Usage, MonitorLock
  <2>2. Handle'
    BY <1>3 DEF UsageInv, Places, Handle, Usage, MonitorLock
  <2>3. Link'
    BY <1>3 DEF UsageInv, Places, Handle, Link, Usage, MonitorLock
  <2>4. Blame'
    BY <1>3
       DEF UsageInv, Places, Handle, Link, Blame, Blamed, ErrorExplained,
           Usage, MonitorLock
  <2>5. Attempts'
    BY <1>3 DEF UsageInv, Places, Handle, Link, Attempts, Usage, MonitorLock
  <2> QED
    BY <2>1, <2>2, <2>3, <2>4, <2>5 DEF UsageInv
<1>4. CASE MonitorLook(m)
  <2>1. Places'
    BY <1>4 DEF UsageInv, Places, Link, Usage, MonitorLook
  <2>2. Handle'
    BY <1>4 DEF UsageInv, Places, Handle, Usage, MonitorLook
  <2>3. Link'
    BY <1>4 DEF UsageInv, Places, Handle, Link, Usage, MonitorLook
  <2>4. Blame'
    BY <1>4
       DEF UsageInv, Places, Handle, Link, Blame, Blamed, ErrorExplained,
           Usage, MonitorLook
  <2>5. Attempts'
    BY <1>4 DEF UsageInv, Places, Handle, Link, Attempts, Usage, MonitorLook
  <2> QED
    BY <2>1, <2>2, <2>3, <2>4, <2>5 DEF UsageInv
<1>5. CASE MonitorVerify(m)
  <2>1. Places'
    BY <1>5 DEF UsageInv, Places, Link, Usage, MonitorVerify
  <2>2. Handle'
    BY <1>5 DEF UsageInv, Places, Handle, Usage, MonitorVerify
  <2>3. Link'
    BY <1>5 DEF UsageInv, Places, Handle, Link, Usage, MonitorVerify
  <2>4. Blame'
    BY <1>5
       DEF UsageInv, Places, Handle, Link, Blame, Blamed, ErrorExplained,
           Usage, MonitorVerify
  <2>5. Attempts'
    BY <1>5 DEF UsageInv, Places, Handle, Link, Attempts, Usage, MonitorVerify
  <2> QED
    BY <2>1, <2>2, <2>3, <2>4, <2>5 DEF UsageInv
<1>6. CASE MonitorReport(m, "report_hot", Emergency)
  <2>1. Places'
    BY <1>6 DEF UsageInv, Places, Link, Usage, MonitorReport, Emergency
  <2>2. Handle'
    BY <1>6 DEF UsageInv, Places, Handle, Usage, MonitorReport, Emergency
  <2>3. Link'
    BY <1>6
       DEF UsageInv, Places, Handle, Link, Usage, MonitorReport, Emergency
  <2>4. Blame'
    BY <1>6
       DEF UsageInv, Places, Handle, Link, Blame, Blamed, ErrorExplained,
           Usage, MonitorReport, Emergency
  <2>5. Attempts'
    BY <1>6
       DEF UsageInv, Places, Handle, Link, Attempts, Usage, MonitorReport,
           Emergency
  <2> QED
    BY <2>1, <2>2, <2>3, <2>4, <2>5 DEF UsageInv
<1>7. CASE MonitorReport(m, "report_fault", Recovery)
  <2>1. Places'
    BY <1>7 DEF UsageInv, Places, Link, Usage, MonitorReport, Recovery
  <2>2. Handle'
    BY <1>7 DEF UsageInv, Places, Handle, Usage, MonitorReport, Recovery
  <2>3. Link'
    BY <1>7 DEF UsageInv, Places, Handle, Link, Usage, MonitorReport, Recovery
  <2>4. Blame'
    BY <1>7
       DEF UsageInv, Places, Handle, Link, Blame, Blamed, ErrorExplained,
           Usage, MonitorReport, Recovery
  <2>5. Attempts'
    BY <1>7
       DEF UsageInv, Places, Handle, Link, Attempts, Usage, MonitorReport,
           Recovery
  <2> QED
    BY <2>1, <2>2, <2>3, <2>4, <2>5 DEF UsageInv
<1> QED
  BY <1>1, <1>2, <1>3, <1>4, <1>5, <1>6, <1>7 DEF Monitor

\* Under this use the monitors do no application call, and the application
\* makes neither recovery nor forced disconnection.
LEMMA UsageActors ==
  ASSUME Usage, UsageInv, NEW t \in Threads, Step(t)
  PROVE  \/ /\ t = Main
            /\ EgpuConnect(Main) \/ StartMonitoring(Main) \/ StopMonitoring(Main)
                 \/ SafeDisconnect(Main)
         \/ t \in Monitors /\ (TryRecovery(t) \/ Monitor(t))
<1> USE UsageThreads
       DEF Failing, Tunnelled, GpuReady, Connecting, Starting, Stopping,
           Leaving, Ending, Relinked, Counted, Recovers, Watches, Looking,
           SetState, SetError, LockIn, LeaveIn, TeardownGpu, TeardownTunnel,
           UsageInv, Places
<1>1. ~ForceDisconnect(t)
  BY DEF ForceDisconnect, ForceBegin, ForceEnd
<1>2. CASE t = Main
  <2>1. ~TryRecovery(Main)
    BY
       DEF TryRecovery, RecoverCheck, RecoverCount, RecoverMark, ResetLink,
           RecoverLink, HardReset, RecoverHard, RecoverDone, Reset
  <2> QED
    BY <1>1, <1>2, <2>1 DEF Step
<1>3. CASE t \in Monitors
  <2>1. ~EgpuConnect(t)
    BY <1>3
       DEF EgpuConnect, ConnectIgnored, ConnectBegin, ConnectNotFound,
           ConnectIncompatible, ConnectAuthenticate, ConnectTunnel, TunnelUp,
           ConnectTunnelFails, ConnectMayRetry, ConnectRetry, ConnectInit,
           GpuUp, ConnectDone, ConnectInitFails
  <2>2. ~StartMonitoring(t)
    BY <1>3
       DEF StartMonitoring, StartCheck, StartMark, StartCreate, StartFails
  <2> QED
    BY <1>1, <1>3, <2>1, <2>2 DEF Step
<1> QED
  BY <1>2, <1>3

LEMMA InitUsage == ASSUME Usage, Init PROVE UsageInv
BY LockedLabels, PublishedLabels, UsageThreads, EgpuAssumption
   DEF Init, UsageInv, Places, Handle, Link, Blame, Blamed, Attempts,
       ErrorExplained, EgpuAssumption, Threads, Up, Faulted, Quiet, Failing,
       Tunnelled, GpuReady, Connecting, Starting, Stopping, Leaving, Ending,
       Relinked, Counted, Recovers, Watches, Looking

LEMMA NextUsage ==
  ASSUME Usage, TypeOK, UsageInv, [Next]_vars
  PROVE  UsageInv'
<1> USE LockedLabels, PublishedLabels, PublishedStates, UsageThreads,
       EgpuAssumption
       DEF EgpuAssumption, Failing, Tunnelled, GpuReady, Connecting, Starting,
           Stopping, Leaving, Ending, Relinked, Counted, Recovers, Watches,
           Looking, Quiet, TypeOK, Return, Goto, Then, Home, Acquire, Release,
           Brief, hwVars, monVars, policyVars, SetState, SetError, LockIn,
           LeaveIn, TeardownGpu, TeardownTunnel, Up, Faulted, Opening, Closing
<1>1. ASSUME NEW a \in Apps, NEW op \in Ops, Call(a, op)
      PROVE  UsageInv'
  <2>1. Places'
    BY <1>1 DEF UsageInv, Places, Link, Usage, Call, Entry, SetUpSucceeds
  <2>2. Handle'
    BY <1>1 DEF UsageInv, Places, Handle, Usage, Call, Entry, SetUpSucceeds
  <2>3. Link'
    BY <1>1
       DEF UsageInv, Places, Handle, Link, Usage, Call, Entry, SetUpSucceeds
  <2>4. Blame'
    BY <1>1
       DEF UsageInv, Places, Handle, Link, Blame, Blamed, ErrorExplained,
           Usage, Call, Entry, SetUpSucceeds
  <2>5. Attempts'
    BY <1>1
       DEF UsageInv, Places, Handle, Link, Attempts, Usage, Call, Entry,
           SetUpSucceeds
  <2> QED
    BY <2>1, <2>2, <2>3, <2>4, <2>5 DEF UsageInv
<1>2. CASE ShutdownBegin
  <2>1. Places'
    BY <1>2 DEF UsageInv, Places, Link, Usage, ShutdownBegin
  <2>2. Handle'
    BY <1>2 DEF UsageInv, Places, Handle, Usage, ShutdownBegin
  <2>3. Link'
    BY <1>2 DEF UsageInv, Places, Handle, Link, Usage, ShutdownBegin
  <2>4. Blame'
    BY <1>2
       DEF UsageInv, Places, Handle, Link, Blame, Blamed, ErrorExplained,
           Usage, ShutdownBegin
  <2>5. Attempts'
    BY <1>2 DEF UsageInv, Places, Handle, Link, Attempts, Usage, ShutdownBegin
  <2> QED
    BY <2>1, <2>2, <2>3, <2>4, <2>5 DEF UsageInv
<1>3. CASE ShutdownBranch
  <2>1. Places'
    BY <1>3 DEF UsageInv, Places, Link, Usage, ShutdownBranch
  <2>2. Handle'
    BY <1>3 DEF UsageInv, Places, Handle, Usage, ShutdownBranch
  <2>3. Link'
    BY <1>3 DEF UsageInv, Places, Handle, Link, Usage, ShutdownBranch
  <2>4. Blame'
    BY <1>3
       DEF UsageInv, Places, Handle, Link, Blame, Blamed, ErrorExplained,
           Usage, ShutdownBranch
  <2>5. Attempts'
    BY <1>3
       DEF UsageInv, Places, Handle, Link, Attempts, Usage, ShutdownBranch
  <2> QED
    BY <2>1, <2>2, <2>3, <2>4, <2>5 DEF UsageInv
<1>4. CASE ShutdownDestroy
  <2>1. Places'
    BY <1>4 DEF UsageInv, Places, Link, Usage, ShutdownDestroy
  <2>2. Handle'
    BY <1>4 DEF UsageInv, Places, Handle, Usage, ShutdownDestroy
  <2>3. Link'
    BY <1>4 DEF UsageInv, Places, Handle, Link, Usage, ShutdownDestroy
  <2>4. Blame'
    BY <1>4
       DEF UsageInv, Places, Handle, Link, Blame, Blamed, ErrorExplained,
           Usage, ShutdownDestroy
  <2>5. Attempts'
    BY <1>4
       DEF UsageInv, Places, Handle, Link, Attempts, Usage, ShutdownDestroy
  <2> QED
    BY <2>1, <2>2, <2>3, <2>4, <2>5 DEF UsageInv
<1>5. CASE SafetyInit
  <2>1. Places'
    BY <1>5 DEF UsageInv, Places, Link, Usage, SafetyInit
  <2>2. Handle'
    BY <1>5 DEF UsageInv, Places, Handle, Usage, SafetyInit
  <2>3. Link'
    BY <1>5 DEF UsageInv, Places, Handle, Link, Usage, SafetyInit
  <2>4. Blame'
    BY <1>5
       DEF UsageInv, Places, Handle, Link, Blame, Blamed, ErrorExplained,
           Usage, SafetyInit
  <2>5. Attempts'
    BY <1>5 DEF UsageInv, Places, Handle, Link, Attempts, Usage, SafetyInit
  <2> QED
    BY <2>1, <2>2, <2>3, <2>4, <2>5 DEF UsageInv
<1>6. CASE Telemetry
  <2>1. Places'
    BY <1>6 DEF UsageInv, Places, Link, Usage, Telemetry
  <2>2. Handle'
    BY <1>6 DEF UsageInv, Places, Handle, Usage, Telemetry
  <2>3. Link'
    BY <1>6 DEF UsageInv, Places, Handle, Link, Usage, Telemetry
  <2>4. Blame'
    BY <1>6
       DEF UsageInv, Places, Handle, Link, Blame, Blamed, ErrorExplained,
           Usage, Telemetry
  <2>5. Attempts'
    BY <1>6 DEF UsageInv, Places, Handle, Link, Attempts, Usage, Telemetry
  <2> QED
    BY <2>1, <2>2, <2>3, <2>4, <2>5 DEF UsageInv
<1>7. ASSUME NEW t \in Threads, Step(t)
      PROVE  UsageInv'
  BY <1>7, UsageActors, ConnectUsage, StartUsage, StopUsage, SafeUsage,
     RecoveryUsage, MonitorUsage
<1>8. CASE UNCHANGED vars
  BY <1>8
     DEF UsageInv, Places, Handle, Link, Blame, Attempts, ErrorExplained, vars
<1> QED
  BY <1>1, <1>2, <1>3, <1>4, <1>5, <1>6, <1>7, <1>8 DEF Next, Shutdown

\* Under the documented use the application thread, the monitor, the state,
\* the errors and the hardware stay in step (all of egpu_safety.c).
THEOREM UsageIsInvariant == ASSUME Usage PROVE Spec => []UsageInv
<1>1. TypeOK /\ UsageInv /\ [Next]_vars => UsageInv'
  BY NextUsage
<1>2. Init => UsageInv
  BY InitUsage
<1> QED
  BY TypeCorrect, <1>1, <1>2, PTL DEF Spec

(***************************************************************************)
(* What the invariant gives.                                               *)
(***************************************************************************)
\* At most one monitor runs, and egpu_stop_monitoring joins it: a second
\* egpu_connect, a failed one or a restart of the manager adds none.
THEOREM OneMonitorRuns == ASSUME Usage PROVE Spec => []OneMonitor
<1>1. UsageInv => OneMonitor
  BY UsageThreads
     DEF UsageInv, Places, Handle, Quiet, OneMonitor, Live, JoinsKnownThread
<1> QED
  BY UsageIsInvariant, <1>1, PTL

\* Once egpu_safety_shutdown has returned, the link is released and no
\* monitor is left to lock the destroyed mutex.
THEOREM ShutdownLeavesNothing == ASSUME Usage PROVE Spec => []ShutdownClean
<1>1. TypeOK /\ UsageInv => ShutdownClean
  BY LockedLabels
     DEF TypeOK, UsageInv, Places, Handle, Link, Quiet, ShutdownClean, Live,
         Up, Faulted, Tunnelled
<1> QED
  BY TypeCorrect, UsageIsInvariant, <1>1, PTL

\* A fault is never shown without its error, to a reader with the mutex or
\* without it; and when the mutex is free, a connected eGPU shows no error,
\* whichever of the two threads wrote them (set_error comes before
\* set_state in every failure, and after it in every success).
THEOREM ErrorsExplained == ASSUME Usage PROVE Spec => []ErrorExplained
<1>1. UsageInv => ErrorExplained
  BY DEF UsageInv, Blame
<1> QED
  BY UsageIsInvariant, <1>1, PTL

\* The attempts of egpu_connect and of egpu_try_recovery share a counter that
\* stays within policy.max_retry_count.
THEOREM RetriesWithinBudget == ASSUME Usage PROVE Spec => []RetryBudget
<1>1. UsageInv => RetryBudget
  BY DEF UsageInv, Attempts, RetryBudget
<1> QED
  BY UsageIsInvariant, <1>1, PTL

\* The sequences stay atomic when the manager is initialised again: under
\* this use egpu_safety_init never finds its mutex held.
THEOREM SequencesAtomicInUse == ASSUME Usage PROVE Spec => []LockedRegions
<1>1. TypeOK /\ UsageInv => LockedRegions
  <2> SUFFICES ASSUME TypeOK, UsageInv PROVE LockedRegions
    OBVIOUS
  <2>1. /\ \A t \in Threads : pc[t] \in Locked <=> lock = t
        /\ \A t \in Threads : pc[t] \in DOMAIN Published => state = Published[pc[t]]
    BY DEF UsageInv, Places, Link
  <2>2. ASSUME state \in Opening \cup Closing
        PROVE  pc[Main] \in Locked
    BY <2>2 DEF UsageInv, Link, Opening, Closing, Up, Faulted
  <2>3. pc[Main] \in Locked => pc[Main] \in DOMAIN Published
    BY LockedLabels, PublishedLabels
       DEF UsageInv, Places, Connecting, Failing, GpuReady, Starting, Stopping,
           Ending, Leaving
  <2>4. Main \in Threads /\ Main # None
    BY EgpuAssumption, UsageThreads DEF EgpuAssumption, Threads
  <2> QED
    BY <2>1, <2>2, <2>3, <2>4 DEF LockedRegions
<1> QED
  BY TypeCorrect, UsageIsInvariant, <1>1, PTL

\* While no call is in progress, a link that is up is being watched.
Watchful == pc[Main] = "idle" /\ state \in Up => monitor_running

LEMMA NextWatchful ==
  ASSUME Usage, "thread" \notin MayFail, Monitors # {},
         TypeOK, UsageInv, Watchful, [Next]_vars
  PROVE  Watchful'
<1> USE LockedLabels, PublishedLabels, PublishedStates, UsageThreads
       DEF Failing, Tunnelled, GpuReady, Connecting, Starting, Stopping,
           Leaving, Ending, Relinked, Counted, Recovers, Watches, Looking,
           Quiet, TypeOK, Return, Goto, Then, Home, Acquire, Release, Brief,
           hwVars, monVars, policyVars, SetState, SetError, LockIn, LeaveIn,
           TeardownGpu, TeardownTunnel, Up, Faulted, Opening, Closing,
           Watchful, UsageInv, Places, Handle
<1>1. CASE EgpuConnect(Main)
  BY <1>1
     DEF EgpuConnect, ConnectIgnored, ConnectBegin, ConnectNotFound,
         ConnectIncompatible, ConnectAuthenticate, ConnectTunnel, TunnelUp,
         ConnectTunnelFails, ConnectMayRetry, ConnectRetry, ConnectInit,
         GpuUp, ConnectDone, ConnectInitFails
<1>2. CASE StartMonitoring(Main)
  BY <1>2 DEF StartMonitoring, StartCheck, StartMark, StartCreate, StartFails
<1>3. CASE StopMonitoring(Main)
  BY <1>3
     DEF StopMonitoring, StopCheck, StopClear, StopJoin, StopJoined, AfterStop
<1>4. CASE SafeDisconnect(Main)
  <2>1. CASE LockIn(Main, "safe", "SAFE_DISCONNECT", "safe_gpu")
    BY <2>1
  <2>2. CASE TeardownGpu(Main, "safe_gpu", "safe_tunnel")
    BY <2>2
  <2>3. CASE TeardownTunnel(Main, "safe_tunnel", "safe_done")
    BY <2>3
  <2>4. CASE SetState(Main, "safe_done", "DISCONNECTED", "safe_clear")
    BY <2>4
  <2>5. CASE SafeEnd(Main)
    <3>1. state = "DISCONNECTED" /\ state' = state
      BY ONLY Usage, UsageInv, <2>5, PublishedLabels, PublishedStates, UsageThreads
         DEF SafeEnd, UsageInv, Link
    <3> QED
      BY ONLY <3>1 DEF Watchful, Up
  <2> QED
    BY ONLY <1>4, <2>1, <2>2, <2>3, <2>4, <2>5 DEF SafeDisconnect
<1>5. ASSUME NEW m \in Monitors, TryRecovery(m) \/ Monitor(m)
      PROVE  Watchful'
  <2>1. UNCHANGED monitor_running /\ pc'[Main] = pc[Main]
    BY <1>5
       DEF TryRecovery, RecoverCheck, RecoverCount, RecoverMark, ResetLink,
           RecoverLink, HardReset, RecoverHard, RecoverDone, Reset, Monitor,
           MonitorWake, MonitorPoll, MonitorLock, MonitorLook, MonitorVerify,
           MonitorReport
  <2>2. pc[m] # "free"
    BY <1>5
       DEF TryRecovery, RecoverCheck, RecoverCount, RecoverMark, ResetLink,
           RecoverLink, HardReset, RecoverHard, RecoverDone, Reset, Monitor,
           MonitorWake, MonitorPoll, MonitorLock, MonitorLook, MonitorVerify,
           MonitorReport
  <2> QED
    BY <2>1, <2>2
<1>6. ASSUME NEW a \in Apps, NEW op \in Ops, Call(a, op)
      PROVE  Watchful'
  BY <1>6 DEF Call, Entry, Usage
<1>7. CASE Shutdown
  BY <1>7 DEF Shutdown, ShutdownBegin, ShutdownBranch, ShutdownDestroy, Link
<1>8. CASE SafetyInit
  BY <1>8 DEF SafetyInit
<1>9. CASE Telemetry \/ UNCHANGED vars
  BY <1>9 DEF Telemetry, vars
<1> QED
  <2>1. ASSUME NEW t \in Threads, Step(t)
        PROVE  Watchful'
    BY <2>1, <1>1, <1>2, <1>3, <1>4, <1>5, UsageActors DEF Step
  <2> QED
    BY <1>6, <1>7, <1>8, <1>9, <2>1 DEF Next

\* Whenever no call is in progress, a connected eGPU has a live monitor that
\* has not been told to stop, provided pthread_create gives a thread.
THEOREM LinkIsWatched ==
  ASSUME Usage, "thread" \notin MayFail, Monitors # {}
  PROVE  Spec => []WatchedWhileUp
<1>1. TypeOK /\ UsageInv /\ Watchful /\ [Next]_vars => Watchful'
  BY NextWatchful
<1>2. Init => Watchful
  BY DEF Init, Watchful, Up
<1>3. UsageInv /\ Watchful => WatchedWhileUp
  BY UsageThreads
     DEF UsageInv, Places, Handle, Watchful, WatchedWhileUp, Watched, Live,
         Quiet
<1> QED
  BY TypeCorrect, UsageIsInvariant, <1>1, <1>2, <1>3, PTL DEF Spec

(***************************************************************************)
(* The manager implements the life cycle of EgpuLifecycle, step by step.   *)
(***************************************************************************)
\* The refinement mapping, one case per state.
LEMMA PhaseOf ==
  /\ state = "DISCONNECTED" => Phase = "down"
  /\ state \in Opening => Phase = "opening"
  /\ state \in Up      => Phase = "up"
  /\ state \in Faulted => Phase = "faulted"
  /\ state \in Closing => Phase = "closing"
BY DEF Phase, Opening, Up, Faulted, Closing

LEMMA HardwareOf ==
  /\ tunnel /\ gpu   => Hardware = "on"
  /\ tunnel /\ ~gpu  => Hardware = "tunnel"
  /\ ~tunnel /\ ~gpu => Hardware = "off"
BY DEF Hardware

\* The same after a step.
LEMMA PhaseOfNext ==
  /\ state' = "DISCONNECTED" => Phase' = "down"
  /\ state' \in Opening => Phase' = "opening"
  /\ state' \in Up      => Phase' = "up"
  /\ state' \in Faulted => Phase' = "faulted"
  /\ state' \in Closing => Phase' = "closing"
BY DEF Phase, Opening, Up, Faulted, Closing

LEMMA HardwareOfNext ==
  /\ tunnel' /\ gpu'   => Hardware' = "on"
  /\ tunnel' /\ ~gpu'  => Hardware' = "tunnel"
  /\ ~tunnel' /\ ~gpu' => Hardware' = "off"
BY DEF Hardware

LEMMA PhaseKept == UNCHANGED <<state, tunnel, gpu>> => UNCHANGED Lifecycle!vars
BY DEF Phase, Hardware, Lifecycle!vars

LEMMA ConnectLifecycle ==
  ASSUME Usage, TypeOK, UsageInv, UsageInv',
         EgpuConnect(Main)
  PROVE  Lifecycle!Next \/ UNCHANGED Lifecycle!vars
<1> USE LockedLabels, PublishedLabels, PublishedStates, UsageThreads, PhaseOf,
       HardwareOf, PhaseOfNext, HardwareOfNext
       DEF Failing, Tunnelled, GpuReady, Connecting, Starting, Stopping,
           Leaving, Ending, Relinked, Counted, Recovers, Watches, Looking,
           Quiet, Goto, Then, Return, Acquire, Release, Brief, hwVars,
           monVars, policyVars, SetState, SetError, LockIn, LeaveIn,
           TeardownGpu, TeardownTunnel, Up, Faulted, Opening, Closing,
           UsageInv, Places, Link, TypeOK
<1>1. CASE ConnectIgnored(Main)
  BY <1>1, PhaseKept DEF ConnectIgnored
<1>2. CASE ConnectBegin(Main)
  <2>1. Lifecycle!Open
    BY <1>2, PhaseKept
       DEF ConnectBegin, Lifecycle!Open, Lifecycle!Shows, Lifecycle!Turns
  <2> QED
    BY <2>1 DEF Lifecycle!Next
<1>3. CASE ConnectNotFound(Main)
  <2>1. Lifecycle!Reject \/ UNCHANGED Lifecycle!vars
    BY <1>3, PhaseKept
       DEF ConnectNotFound, SetUpSucceeds, Lifecycle!Reject, Lifecycle!Shows,
           Lifecycle!Turns, Lifecycle!vars
  <2> QED
    BY <2>1 DEF Lifecycle!Next
<1>4. CASE ConnectIncompatible(Main)
  <2>1. Lifecycle!Reject \/ Lifecycle!Done \/ UNCHANGED Lifecycle!vars
    BY <1>4, PhaseKept
       DEF ConnectIncompatible, SetUpSucceeds, Lifecycle!Reject,
           Lifecycle!Done, Lifecycle!Shows, Lifecycle!Turns, Lifecycle!vars
  <2> QED
    BY <2>1 DEF Lifecycle!Next
<1>5. CASE ConnectAuthenticate(Main)
  <2>1. UNCHANGED Lifecycle!vars
    BY <1>5 DEF ConnectAuthenticate, Lifecycle!vars
  <2> QED
    BY <2>1
<1>6. CASE ConnectTunnel(Main)
  <2>1. Lifecycle!BringTunnel \/ UNCHANGED Lifecycle!vars
    BY <1>6, PhaseKept
       DEF ConnectTunnel, TunnelUp, Lifecycle!BringTunnel, Lifecycle!Shows,
           Lifecycle!Turns, Lifecycle!vars
  <2> QED
    BY <2>1 DEF Lifecycle!Next
<1>7. CASE ConnectTunnelFails(Main)
  <2>1. Lifecycle!Reject \/ Lifecycle!Dismiss \/ UNCHANGED Lifecycle!vars
    BY <1>7, PhaseKept
       DEF ConnectTunnelFails, ConnectMayRetry, ConnectRetry, SetUpSucceeds,
           Lifecycle!Reject, Lifecycle!Dismiss, Lifecycle!Shows,
           Lifecycle!Turns, Lifecycle!vars
  <2> QED
    BY <2>1 DEF Lifecycle!Next
<1>8. CASE ConnectInit(Main)
  <2>1. Lifecycle!BringGpu \/ Lifecycle!Ready \/ UNCHANGED Lifecycle!vars
    BY <1>8, PhaseKept
       DEF ConnectInit, GpuUp, ConnectDone, Lifecycle!BringGpu,
           Lifecycle!Ready, Lifecycle!Shows, Lifecycle!Turns, Lifecycle!vars
  <2> QED
    BY <2>1 DEF Lifecycle!Next
<1>9. CASE ConnectInitFails(Main)
  <2>1. Lifecycle!Fail \/ Lifecycle!Undo \/ Lifecycle!Dismiss
          \/ UNCHANGED Lifecycle!vars
    BY <1>9, PhaseKept
       DEF ConnectInitFails, SetUpSucceeds, Lifecycle!Fail, Lifecycle!Undo,
           Lifecycle!Dismiss, Lifecycle!Shows, Lifecycle!Turns, Lifecycle!vars
  <2> QED
    BY <2>1 DEF Lifecycle!Next
<1> QED
  BY <1>1, <1>2, <1>3, <1>4, <1>5, <1>6, <1>7, <1>8, <1>9 DEF EgpuConnect

LEMMA SafeLifecycle ==
  ASSUME Usage, TypeOK, UsageInv, UsageInv',
         SafeDisconnect(Main)
  PROVE  Lifecycle!Next \/ UNCHANGED Lifecycle!vars
<1> USE LockedLabels, PublishedLabels, PublishedStates, UsageThreads, PhaseOf,
       HardwareOf, PhaseOfNext, HardwareOfNext
       DEF Failing, Tunnelled, GpuReady, Connecting, Starting, Stopping,
           Leaving, Ending, Relinked, Counted, Recovers, Watches, Looking,
           Quiet, Goto, Then, Return, Acquire, Release, Brief, hwVars,
           monVars, policyVars, SetState, SetError, LockIn, LeaveIn,
           TeardownGpu, TeardownTunnel, Up, Faulted, Opening, Closing,
           UsageInv, Places, Link, TypeOK
<1>1. CASE LockIn(Main, "safe", "SAFE_DISCONNECT", "safe_gpu")
  <2>1. Lifecycle!Close
    BY <1>1, PhaseKept DEF Lifecycle!Close, Lifecycle!Shows, Lifecycle!Turns
  <2> QED
    BY <2>1 DEF Lifecycle!Next
<1>2. CASE TeardownGpu(Main, "safe_gpu", "safe_tunnel")
  <2>1. Lifecycle!DropGpu \/ UNCHANGED Lifecycle!vars
    BY <1>2, PhaseKept
       DEF Lifecycle!DropGpu, Lifecycle!Shows, Lifecycle!Turns, Lifecycle!vars
  <2> QED
    BY <2>1 DEF Lifecycle!Next
<1>3. CASE TeardownTunnel(Main, "safe_tunnel", "safe_done")
  <2>1. Lifecycle!DropTunnel \/ UNCHANGED Lifecycle!vars
    BY <1>3, PhaseKept
       DEF Lifecycle!DropTunnel, Lifecycle!Shows, Lifecycle!Turns,
           Lifecycle!vars
  <2> QED
    BY <2>1 DEF Lifecycle!Next
<1>4. CASE SetState(Main, "safe_done", "DISCONNECTED", "safe_clear")
  <2>1. Lifecycle!Done
    BY <1>4, PhaseKept DEF Lifecycle!Done, Lifecycle!Shows, Lifecycle!Turns
  <2> QED
    BY <2>1 DEF Lifecycle!Next
<1>5. CASE SafeEnd(Main)
  BY <1>5, PhaseKept DEF SafeEnd
<1> QED
  BY ONLY SafeDisconnect(Main), <1>1, <1>2, <1>3, <1>4, <1>5 DEF SafeDisconnect

LEMMA RecoveryLifecycle ==
  ASSUME Usage, TypeOK, UsageInv, UsageInv',
         NEW m \in Monitors, TryRecovery(m)
  PROVE  Lifecycle!Next \/ UNCHANGED Lifecycle!vars
<1> USE LockedLabels, PublishedLabels, PublishedStates, UsageThreads, PhaseOf,
       HardwareOf, PhaseOfNext, HardwareOfNext
       DEF Failing, Tunnelled, GpuReady, Connecting, Starting, Stopping,
           Leaving, Ending, Relinked, Counted, Recovers, Watches, Looking,
           Quiet, Goto, Then, Return, Acquire, Release, Brief, hwVars,
           monVars, policyVars, SetState, SetError, LockIn, LeaveIn,
           TeardownGpu, TeardownTunnel, Up, Faulted, Opening, Closing,
           UsageInv, Places, Link, TypeOK
<1>1. CASE RecoverCheck(m) \/ RecoverCount(m)
  BY <1>1, PhaseKept DEF RecoverCheck, RecoverCount
<1>2. CASE RecoverMark(m)
  <2>1. Lifecycle!Fault \/ UNCHANGED Lifecycle!vars
    BY <1>2, PhaseKept
       DEF RecoverMark, Lifecycle!Fault, Lifecycle!Shows, Lifecycle!Turns,
           Lifecycle!vars
  <2> QED
    BY <2>1 DEF Lifecycle!Next
<1>3. CASE ResetLink(m) \/ HardReset(m)
  BY <1>3, PhaseKept DEF ResetLink, HardReset, Reset
<1>4. CASE RecoverLink(m)
  <2>1. Lifecycle!Repair \/ UNCHANGED Lifecycle!vars
    BY <1>4, PhaseKept
       DEF RecoverLink, RecoverDone, Lifecycle!Repair, Lifecycle!Shows,
           Lifecycle!Turns, Lifecycle!vars
  <2> QED
    BY <2>1 DEF Lifecycle!Next
<1>5. CASE RecoverHard(m)
  <2>1. Lifecycle!Repair \/ UNCHANGED Lifecycle!vars
    BY <1>5, PhaseKept
       DEF RecoverHard, RecoverDone, Lifecycle!Repair, Lifecycle!Shows,
           Lifecycle!Turns, Lifecycle!vars
  <2> QED
    BY <2>1 DEF Lifecycle!Next
<1> QED
  BY <1>1, <1>2, <1>3, <1>4, <1>5 DEF TryRecovery

LEMMA MonitorLifecycle ==
  ASSUME Usage, TypeOK, UsageInv, UsageInv',
         NEW m \in Monitors, Monitor(m)
  PROVE  Lifecycle!Next \/ UNCHANGED Lifecycle!vars
<1> USE LockedLabels, PublishedLabels, PublishedStates, UsageThreads, PhaseOf,
       HardwareOf, PhaseOfNext, HardwareOfNext
       DEF Failing, Tunnelled, GpuReady, Connecting, Starting, Stopping,
           Leaving, Ending, Relinked, Counted, Recovers, Watches, Looking,
           Quiet, Goto, Then, Return, Acquire, Release, Brief, hwVars,
           monVars, policyVars, SetState, SetError, LockIn, LeaveIn,
           TeardownGpu, TeardownTunnel, Up, Faulted, Opening, Closing,
           UsageInv, Places, Link, TypeOK
<1>1. CASE MonitorWake(m) \/ MonitorPoll(m) \/ MonitorLock(m)
  BY <1>1, PhaseKept DEF MonitorWake, MonitorPoll, MonitorLock
<1>2. CASE MonitorLook(m) \/ MonitorVerify(m)
  <2>1. UNCHANGED Lifecycle!vars
    BY <1>2 DEF MonitorLook, MonitorVerify, Lifecycle!vars
  <2> QED
    BY <2>1
<1>3. CASE MonitorReport(m, "report_hot", Emergency)
  <2>1. Lifecycle!Fault \/ UNCHANGED Lifecycle!vars
    BY <1>3, PhaseKept
       DEF MonitorReport, Lifecycle!Fault, Lifecycle!Shows, Lifecycle!Turns,
           Lifecycle!vars
  <2> QED
    BY <2>1 DEF Lifecycle!Next
<1>4. CASE MonitorReport(m, "report_fault", Recovery)
  <2>1. Lifecycle!Fault \/ UNCHANGED Lifecycle!vars
    BY <1>4, PhaseKept
       DEF MonitorReport, Lifecycle!Fault, Lifecycle!Shows, Lifecycle!Turns,
           Lifecycle!vars
  <2> QED
    BY <2>1 DEF Lifecycle!Next
<1> QED
  BY <1>1, <1>2, <1>3, <1>4 DEF Monitor

LEMMA NextLifecycle ==
  ASSUME Usage, TypeOK, UsageInv, UsageInv', [Next]_vars
  PROVE  Lifecycle!Next \/ UNCHANGED Lifecycle!vars
<1>1. ASSUME NEW t \in Threads, Step(t)
      PROVE  Lifecycle!Next \/ UNCHANGED Lifecycle!vars
  <2>1. CASE StartMonitoring(Main) \/ StopMonitoring(Main)
    BY <2>1, PhaseKept
       DEF StartMonitoring, StartCheck, StartMark, StartCreate, StartFails,
           StopMonitoring, StopCheck, StopClear, StopJoin, StopJoined,
           policyVars, hwVars
  <2> QED
    BY <1>1, <2>1, UsageActors, ConnectLifecycle, SafeLifecycle,
       RecoveryLifecycle, MonitorLifecycle
<1>2. CASE SafetyInit
  <2>1. Lifecycle!Dismiss \/ UNCHANGED Lifecycle!vars
    BY <1>2, PhaseOf, PhaseOfNext, HardwareOf, HardwareOfNext, PhaseKept,
       UsageThreads, LockedLabels
       DEF SafetyInit, UsageInv, Places, Handle, Link, TypeOK, Up, Faulted,
           hwVars, Tunnelled, Lifecycle!Dismiss, Lifecycle!Shows, Lifecycle!vars
  <2> QED
    BY <2>1 DEF Lifecycle!Next
<1>3. CASE (\E a \in Apps, op \in Ops : Call(a, op)) \/ Shutdown \/ UNCHANGED vars
  BY <1>3, PhaseKept
     DEF Call, Shutdown, ShutdownBegin, ShutdownBranch, ShutdownDestroy, vars,
         policyVars, hwVars
<1>4. CASE Telemetry
  BY <1>4, PhaseKept DEF Telemetry, policyVars
<1> QED
  BY <1>1, <1>2, <1>3, <1>4 DEF Next

\* Every write of the two threads is a step of the life cycle egpu_safety.h
\* documents, or invisible in it, whether the connection succeeds or fails
\* half-way: no connection is shown as up over missing hardware, the tunnel
\* of a failed one is given back before it is shown as disconnected, and
\* none is shown as disconnected over hardware left running.
THEOREM FollowsLifecycle == ASSUME Usage PROVE Spec => Lifecycle!Safety
<1>1. Init => Lifecycle!Init
  BY PhaseOf, HardwareOf DEF Init, Lifecycle!Init
<1>2. TypeOK /\ UsageInv /\ UsageInv' /\ [Next]_vars => [Lifecycle!Next]_(Lifecycle!vars)
  BY NextLifecycle
<1> QED
  BY TypeCorrect, UsageIsInvariant, <1>1, <1>2, PTL DEF Spec, Lifecycle!Safety

\* Once disconnected, the eGPU is neither faulted nor up again before
\* egpu_connect is called: the monitor's late check or recovery cannot come
\* after the disconnection, which joined it.
THEOREM StaysDisconnected == ASSUME Usage PROVE Spec => DownUntilConnect
<1>1. ASSUME TypeOK, UsageInv, [Next]_vars
      PROVE  [state = "DISCONNECTED" => state' \in {"DETECTING"} \cup Closing]_state
  <2> SUFFICES ASSUME state = "DISCONNECTED", state' # state
               PROVE  state' \in {"DETECTING"} \cup Closing
    OBVIOUS
  <2> USE <1>1, PublishedStates, PublishedLabels, LockedLabels, UsageThreads
          DEF policyVars, hwVars, Closing, Up, Faulted, UsageInv, Places,
              Link, SetState, SetError, LockIn, LeaveIn, TeardownGpu,
              TeardownTunnel
  <2>1. ASSUME NEW m \in Monitors, TryRecovery(m) \/ Monitor(m)
        PROVE  FALSE
    <3>1. pc[m] # "free"
      BY <2>1
         DEF TryRecovery, RecoverCheck, RecoverCount, RecoverMark, ResetLink,
             RecoverLink, HardReset, RecoverHard, RecoverDone, Reset, Monitor,
             MonitorWake, MonitorPoll, MonitorLock, MonitorLook,
             MonitorVerify, MonitorReport
    <3>2. pc[Main] \in Locked
      BY <3>1 DEF Up, Faulted
    <3>3. pc[m] \notin Locked /\ lock # None /\ lock = Main
      BY <3>2
    <3> QED
      BY <2>1, <3>3
         DEF Acquire, Brief, TryRecovery, RecoverCheck, RecoverCount,
             RecoverMark, ResetLink, RecoverLink, HardReset, RecoverHard,
             RecoverDone, Reset, Monitor, MonitorWake, MonitorPoll,
             MonitorLock, MonitorLook, MonitorVerify, MonitorReport
  <2>2. CASE EgpuConnect(Main)
    BY <2>2
       DEF EgpuConnect, ConnectIgnored, ConnectBegin, ConnectNotFound,
           ConnectIncompatible, ConnectAuthenticate, ConnectTunnel, TunnelUp,
           ConnectTunnelFails, ConnectMayRetry, ConnectRetry, ConnectInit,
           GpuUp, ConnectDone, ConnectInitFails
  <2>3. CASE StartMonitoring(Main) \/ StopMonitoring(Main) \/ SafeDisconnect(Main)
    BY <2>3
       DEF StartMonitoring, StartCheck, StartMark, StartCreate, StartFails,
           StopMonitoring, StopCheck, StopClear, StopJoin, StopJoined,
           SafeDisconnect, SafeEnd
  <2>4. CASE (\E a \in Apps, op \in Ops : Call(a, op)) \/ Shutdown \/ UNCHANGED vars
    BY <2>4
       DEF Call, Shutdown, ShutdownBegin, ShutdownBranch, ShutdownDestroy,
           vars
  <2>5. CASE SafetyInit \/ Telemetry
    BY <2>5 DEF SafetyInit, Telemetry
  <2> QED
    BY <2>1, <2>2, <2>3, <2>4, <2>5, UsageActors DEF Next
<1> QED
  BY TypeCorrect, UsageIsInvariant, <1>1, PTL DEF Spec, DownUntilConnect

(***************************************************************************)
(* A GPU over its thermal limit.  Here the monitor itself disconnects by   *)
(* force and nobody joins it, so the application is taken to connect once, *)
(* to leave the link to its monitor and to shut down: any fault, any       *)
(* policy, any failing step but the reset of the link.                     *)
(***************************************************************************)
OneConnection ==
  /\ Apps = {Main} /\ AppOps \subseteq {"connect"} /\ ~Reinit
  /\ ConnectWhen \subseteq {<<"DISCONNECTED", "NONE">>}
  /\ "link" \notin MayFail

\* A monitor on its way to the disconnection, and in it.
Alarmed   == {"recover", "recover_inc", "recover_mark", "force", "force_lock"}
Resetting == {"reset_link", "recover_link"}
Forcing   == {"force_gpu", "force_tunnel", "force_done"}

\* Who can be where.  The disconnection of the shutdown finds no monitor.
Actors ==
  /\ pc[Main] \in {"idle"} \cup Connecting \cup Starting \cup Stopping \cup Ending
  /\ \A m \in Monitors :
       pc[m] \in {"free", "zombie"} \cup Watches \cup Alarmed \cup Resetting
                   \cup Relinked \cup Forcing
  /\ \A m \in Monitors : ret[m] = "return"
  /\ pc[Main] \in Stopping => ret[Main] \in {"shutdown", "shutdown_safe"}
  /\ pc[Main] \in Leaving => ret[Main] = "shutdown_safe"
  /\ pc[Main] # "idle" => initialized
  /\ pc[Main] \in Connecting \cup Starting \cup Leaving => Quiet
  /\ pc[Main] \in Stopping /\ ret[Main] = "shutdown_safe" => Quiet

\* One monitor is ever created.  Told to stop, it is being joined, or it
\* is the one that told itself and it has disconnected or is about to.
Handover ==
  /\ \A m \in Monitors : pc[m] # "free" => m = monitor_thread
  /\ pc[Main] = "create" => monitor_running
  /\ monitor_running => pc[Main] = "create" \/ ~Quiet
  /\ pc[Main] \in {"clear", "join", "joined"} => ~Quiet
  /\ pc[Main] = "joined" => joining[Main] = monitor_thread
  /\ pc[Main] \in {"join", "joined"} \cup Ending \/ ~initialized => ~monitor_running
  /\ \A m \in Monitors : pc[m] # "free" /\ ~monitor_running =>
       \/ pc[Main] \in {"join", "joined"}
       \/ pc[m] \in {"force_lock"} \cup Forcing
       \/ state = "DISCONNECTED"
  /\ \A m \in Monitors : pc[m] = "zombie" => ~monitor_running

\* The state a monitor leaves behind it, with the error that explains it.
Explained ==
  /\ pc[Main] \in Starting => state = "CONNECTED"
  /\ \A m \in Monitors :
       /\ pc[m] \in {"check"} \cup Looking => state \in Up
       /\ pc[m] \in Alarmed => state = "ERROR"
       /\ pc[m] \in Resetting => state = "RECOVERING"
       /\ pc[m] \in {"wake", "poll", "zombie"} =>
            state \in Up \cup {"ERROR", "DISCONNECTED"}
       /\ pc[m] # "free" /\ state \notin Up => last_error # "NONE"
  /\ state = "RECOVERING" => ~Quiet
  /\ pc[Main] = "safe" \/ (pc[Main] \in Stopping /\ ret[Main] = "shutdown_safe")
       => state \in Up
  /\ Blame

\* The hardware under it.
Underneath ==
  /\ pc[Main] \in Connecting \ GpuReady =>
       ~gpu /\ (tunnel <=> pc[Main] \in Tunnelled)
  /\ pc[Main] \in GpuReady => gpu /\ tunnel
  /\ state \in Up => gpu /\ tunnel
  /\ \A m \in Monitors : pc[m] # "free" /\ state \in Faulted => gpu /\ tunnel
  /\ state \in Faulted /\ pc[Main] # "undo" => (gpu <=> tunnel)
  /\ state = "DISCONNECTED" => ~gpu /\ ~tunnel
  /\ \A t \in Threads :
       /\ pc[t] \in {"safe_gpu", "force_gpu"} => gpu /\ tunnel
       /\ pc[t] \in {"safe_tunnel", "force_tunnel"} => ~gpu /\ tunnel
       /\ pc[t] \in {"safe_done", "force_done"} => ~gpu /\ ~tunnel

OneConnectionInv == Actors /\ Handover /\ Explained /\ Underneath

LEMMA OneConnectionThreads ==
  ASSUME OneConnection
  PROVE  /\ Apps = {Main} /\ Main \notin Monitors /\ Threads = {Main} \cup Monitors
         /\ None \notin Monitors /\ Main # None
BY EgpuAssumption DEF OneConnection, EgpuAssumption, Threads

LEMMA InitOneConnection == ASSUME OneConnection, Init PROVE OneConnectionInv
BY LockedLabels, PublishedLabels, OneConnectionThreads
   DEF Init, OneConnectionInv, Actors, Handover, Explained, Underneath, Blame,
       Blamed, ErrorExplained, Quiet, Threads, Up, Faulted, Failing,
       Tunnelled, GpuReady, Connecting, Starting, Stopping, Leaving, Ending,
       Relinked, Counted, Recovers, Watches, Looking, Alarmed, Resetting,
       Forcing

LEMMA ConnectOnce ==
  ASSUME OneConnection, TypeOK, LockedRegions, OneConnectionInv,
         EgpuConnect(Main)
  PROVE  OneConnectionInv'
<1> USE LockedLabels, PublishedLabels, PublishedStates, OneConnectionThreads
       DEF Failing, Tunnelled, GpuReady, Connecting, Starting, Stopping,
           Leaving, Ending, Relinked, Counted, Recovers, Watches, Looking,
           Alarmed, Resetting, Forcing, Quiet, Return, Goto, Then, Home,
           Acquire, Release, Brief, hwVars, monVars, policyVars, SetState,
           SetError, LockIn, LeaveIn, TeardownGpu, TeardownTunnel, Up,
           Faulted, Opening, Closing
<1>1. CASE ConnectIgnored(Main)
  <2>1. Actors'
    BY <1>1
       DEF OneConnectionInv, Actors, Handover, Explained, Underneath, TypeOK,
           LockedRegions, OneConnection, ConnectIgnored
  <2>2. Handover'
    BY <1>1
       DEF OneConnectionInv, Actors, Handover, Explained, Underneath, TypeOK,
           LockedRegions, OneConnection, ConnectIgnored
  <2>3. Explained'
    BY <1>1
       DEF OneConnectionInv, Actors, Handover, Explained, Underneath, Blame,
           Blamed, ErrorExplained, TypeOK, LockedRegions, OneConnection,
           ConnectIgnored
  <2>4. Underneath'
    BY <1>1
       DEF OneConnectionInv, Actors, Handover, Explained, Underneath, TypeOK,
           LockedRegions, OneConnection, ConnectIgnored
  <2> QED
    BY <2>1, <2>2, <2>3, <2>4 DEF OneConnectionInv
<1>2. CASE ConnectBegin(Main)
  <2>1. Actors'
    BY <1>2
       DEF OneConnectionInv, Actors, Handover, Explained, Underneath, TypeOK,
           LockedRegions, OneConnection, ConnectBegin
  <2>2. Handover'
    BY <1>2
       DEF OneConnectionInv, Actors, Handover, Explained, Underneath, TypeOK,
           LockedRegions, OneConnection, ConnectBegin
  <2>3. Explained'
    BY <1>2
       DEF OneConnectionInv, Actors, Handover, Explained, Underneath, Blame,
           Blamed, ErrorExplained, TypeOK, LockedRegions, OneConnection,
           ConnectBegin
  <2>4. Underneath'
    BY <1>2
       DEF OneConnectionInv, Actors, Handover, Explained, Underneath, TypeOK,
           LockedRegions, OneConnection, ConnectBegin
  <2> QED
    BY <2>1, <2>2, <2>3, <2>4 DEF OneConnectionInv
<1>3. CASE ConnectNotFound(Main)
  <2>1. Actors'
    BY <1>3
       DEF OneConnectionInv, Actors, Handover, Explained, Underneath, TypeOK,
           LockedRegions, OneConnection, ConnectNotFound
  <2>2. Handover'
    BY <1>3
       DEF OneConnectionInv, Actors, Handover, Explained, Underneath, TypeOK,
           LockedRegions, OneConnection, ConnectNotFound
  <2>3. Explained'
    BY <1>3
       DEF OneConnectionInv, Actors, Handover, Explained, Underneath, Blame,
           Blamed, ErrorExplained, TypeOK, LockedRegions, OneConnection,
           ConnectNotFound
  <2>4. Underneath'
    BY <1>3
       DEF OneConnectionInv, Actors, Handover, Explained, Underneath, TypeOK,
           LockedRegions, OneConnection, ConnectNotFound
  <2> QED
    BY <2>1, <2>2, <2>3, <2>4 DEF OneConnectionInv
<1>4. CASE ConnectIncompatible(Main)
  <2>1. Actors'
    BY <1>4
       DEF OneConnectionInv, Actors, Handover, Explained, Underneath, TypeOK,
           LockedRegions, OneConnection, ConnectIncompatible
  <2>2. Handover'
    BY <1>4
       DEF OneConnectionInv, Actors, Handover, Explained, Underneath, TypeOK,
           LockedRegions, OneConnection, ConnectIncompatible
  <2>3. Explained'
    BY <1>4
       DEF OneConnectionInv, Actors, Handover, Explained, Underneath, Blame,
           Blamed, ErrorExplained, TypeOK, LockedRegions, OneConnection,
           ConnectIncompatible
  <2>4. Underneath'
    BY <1>4
       DEF OneConnectionInv, Actors, Handover, Explained, Underneath, TypeOK,
           LockedRegions, OneConnection, ConnectIncompatible
  <2> QED
    BY <2>1, <2>2, <2>3, <2>4 DEF OneConnectionInv
<1>5. CASE ConnectAuthenticate(Main)
  <2>1. Actors'
    BY <1>5
       DEF OneConnectionInv, Actors, Handover, Explained, Underneath, TypeOK,
           LockedRegions, OneConnection, ConnectAuthenticate
  <2>2. Handover'
    BY <1>5
       DEF OneConnectionInv, Actors, Handover, Explained, Underneath, TypeOK,
           LockedRegions, OneConnection, ConnectAuthenticate
  <2>3. Explained'
    BY <1>5
       DEF OneConnectionInv, Actors, Handover, Explained, Underneath, Blame,
           Blamed, ErrorExplained, TypeOK, LockedRegions, OneConnection,
           ConnectAuthenticate
  <2>4. Underneath'
    BY <1>5
       DEF OneConnectionInv, Actors, Handover, Explained, Underneath, TypeOK,
           LockedRegions, OneConnection, ConnectAuthenticate
  <2> QED
    BY <2>1, <2>2, <2>3, <2>4 DEF OneConnectionInv
<1>6. CASE ConnectTunnel(Main)
  <2>1. Actors'
    BY <1>6
       DEF OneConnectionInv, Actors, Handover, Explained, Underneath, TypeOK,
           LockedRegions, OneConnection, ConnectTunnel, TunnelUp
  <2>2. Handover'
    BY <1>6
       DEF OneConnectionInv, Actors, Handover, Explained, Underneath, TypeOK,
           LockedRegions, OneConnection, ConnectTunnel, TunnelUp
  <2>3. Explained'
    BY <1>6
       DEF OneConnectionInv, Actors, Handover, Explained, Underneath, Blame,
           Blamed, ErrorExplained, TypeOK, LockedRegions, OneConnection,
           ConnectTunnel, TunnelUp
  <2>4. Underneath'
    BY <1>6
       DEF OneConnectionInv, Actors, Handover, Explained, Underneath, TypeOK,
           LockedRegions, OneConnection, ConnectTunnel, TunnelUp
  <2> QED
    BY <2>1, <2>2, <2>3, <2>4 DEF OneConnectionInv
<1>7. CASE ConnectTunnelFails(Main)
  <2>1. Actors'
    BY <1>7
       DEF OneConnectionInv, Actors, Handover, Explained, Underneath, TypeOK,
           LockedRegions, OneConnection, ConnectTunnelFails, ConnectMayRetry,
           ConnectRetry
  <2>2. Handover'
    BY <1>7
       DEF OneConnectionInv, Actors, Handover, Explained, Underneath, TypeOK,
           LockedRegions, OneConnection, ConnectTunnelFails, ConnectMayRetry,
           ConnectRetry
  <2>3. Explained'
    BY <1>7
       DEF OneConnectionInv, Actors, Handover, Explained, Underneath, Blame,
           Blamed, ErrorExplained, TypeOK, LockedRegions, OneConnection,
           ConnectTunnelFails, ConnectMayRetry, ConnectRetry
  <2>4. Underneath'
    BY <1>7
       DEF OneConnectionInv, Actors, Handover, Explained, Underneath, TypeOK,
           LockedRegions, OneConnection, ConnectTunnelFails, ConnectMayRetry,
           ConnectRetry
  <2> QED
    BY <2>1, <2>2, <2>3, <2>4 DEF OneConnectionInv
<1>8. CASE ConnectInit(Main)
  <2>1. Actors'
    BY <1>8
       DEF OneConnectionInv, Actors, Handover, Explained, Underneath, TypeOK,
           LockedRegions, OneConnection, ConnectInit, GpuUp, ConnectDone
  <2>2. Handover'
    BY <1>8
       DEF OneConnectionInv, Actors, Handover, Explained, Underneath, TypeOK,
           LockedRegions, OneConnection, ConnectInit, GpuUp, ConnectDone
  <2>3. Explained'
    BY <1>8
       DEF OneConnectionInv, Actors, Handover, Explained, Underneath, Blame,
           Blamed, ErrorExplained, TypeOK, LockedRegions, OneConnection,
           ConnectInit, GpuUp, ConnectDone
  <2>4. Underneath'
    BY <1>8
       DEF OneConnectionInv, Actors, Handover, Explained, Underneath, TypeOK,
           LockedRegions, OneConnection, ConnectInit, GpuUp, ConnectDone
  <2> QED
    BY <2>1, <2>2, <2>3, <2>4 DEF OneConnectionInv
<1>9. CASE ConnectInitFails(Main)
  <2>1. Actors'
    BY <1>9
       DEF OneConnectionInv, Actors, Handover, Explained, Underneath, TypeOK,
           LockedRegions, OneConnection, ConnectInitFails
  <2>2. Handover'
    BY <1>9
       DEF OneConnectionInv, Actors, Handover, Explained, Underneath, TypeOK,
           LockedRegions, OneConnection, ConnectInitFails
  <2>3. Explained'
    BY <1>9
       DEF OneConnectionInv, Actors, Handover, Explained, Underneath, Blame,
           Blamed, ErrorExplained, TypeOK, LockedRegions, OneConnection,
           ConnectInitFails
  <2>4. Underneath'
    BY <1>9
       DEF OneConnectionInv, Actors, Handover, Explained, Underneath, TypeOK,
           LockedRegions, OneConnection, ConnectInitFails
  <2> QED
    BY <2>1, <2>2, <2>3, <2>4 DEF OneConnectionInv
<1> QED
  BY <1>1, <1>2, <1>3, <1>4, <1>5, <1>6, <1>7, <1>8, <1>9 DEF EgpuConnect

LEMMA StartOnce ==
  ASSUME OneConnection, TypeOK, LockedRegions, OneConnectionInv,
         StartMonitoring(Main)
  PROVE  OneConnectionInv'
<1> USE LockedLabels, PublishedLabels, PublishedStates, OneConnectionThreads
       DEF Failing, Tunnelled, GpuReady, Connecting, Starting, Stopping,
           Leaving, Ending, Relinked, Counted, Recovers, Watches, Looking,
           Alarmed, Resetting, Forcing, Quiet, Return, Goto, Then, Home,
           Acquire, Release, Brief, hwVars, monVars, policyVars, SetState,
           SetError, LockIn, LeaveIn, TeardownGpu, TeardownTunnel, Up,
           Faulted, Opening, Closing
<1>1. CASE StartCheck(Main)
  <2>1. Actors'
    BY <1>1
       DEF OneConnectionInv, Actors, Handover, Explained, Underneath, TypeOK,
           LockedRegions, OneConnection, StartCheck
  <2>2. Handover'
    BY <1>1
       DEF OneConnectionInv, Actors, Handover, Explained, Underneath, TypeOK,
           LockedRegions, OneConnection, StartCheck
  <2>3. Explained'
    BY <1>1
       DEF OneConnectionInv, Actors, Handover, Explained, Underneath, Blame,
           Blamed, ErrorExplained, TypeOK, LockedRegions, OneConnection,
           StartCheck
  <2>4. Underneath'
    BY <1>1
       DEF OneConnectionInv, Actors, Handover, Explained, Underneath, TypeOK,
           LockedRegions, OneConnection, StartCheck
  <2> QED
    BY <2>1, <2>2, <2>3, <2>4 DEF OneConnectionInv
<1>2. CASE StartMark(Main)
  <2>1. Actors'
    BY <1>2
       DEF OneConnectionInv, Actors, Handover, Explained, Underneath, TypeOK,
           LockedRegions, OneConnection, StartMark
  <2>2. Handover'
    BY <1>2
       DEF OneConnectionInv, Actors, Handover, Explained, Underneath, TypeOK,
           LockedRegions, OneConnection, StartMark
  <2>3. Explained'
    BY <1>2
       DEF OneConnectionInv, Actors, Handover, Explained, Underneath, Blame,
           Blamed, ErrorExplained, TypeOK, LockedRegions, OneConnection,
           StartMark
  <2>4. Underneath'
    BY <1>2
       DEF OneConnectionInv, Actors, Handover, Explained, Underneath, TypeOK,
           LockedRegions, OneConnection, StartMark
  <2> QED
    BY <2>1, <2>2, <2>3, <2>4 DEF OneConnectionInv
<1>3. CASE StartCreate(Main)
  <2>1. Actors'
    BY <1>3
       DEF OneConnectionInv, Actors, Handover, Explained, Underneath, TypeOK,
           LockedRegions, OneConnection, StartCreate
  <2>2. Handover'
    BY <1>3
       DEF OneConnectionInv, Actors, Handover, Explained, Underneath, TypeOK,
           LockedRegions, OneConnection, StartCreate
  <2>3. Explained'
    BY <1>3
       DEF OneConnectionInv, Actors, Handover, Explained, Underneath, Blame,
           Blamed, ErrorExplained, TypeOK, LockedRegions, OneConnection,
           StartCreate
  <2>4. Underneath'
    BY <1>3
       DEF OneConnectionInv, Actors, Handover, Explained, Underneath, TypeOK,
           LockedRegions, OneConnection, StartCreate
  <2> QED
    BY <2>1, <2>2, <2>3, <2>4 DEF OneConnectionInv
<1>4. CASE StartFails(Main)
  <2>1. Actors'
    BY <1>4
       DEF OneConnectionInv, Actors, Handover, Explained, Underneath, TypeOK,
           LockedRegions, OneConnection, StartFails
  <2>2. Handover'
    BY <1>4
       DEF OneConnectionInv, Actors, Handover, Explained, Underneath, TypeOK,
           LockedRegions, OneConnection, StartFails
  <2>3. Explained'
    BY <1>4
       DEF OneConnectionInv, Actors, Handover, Explained, Underneath, Blame,
           Blamed, ErrorExplained, TypeOK, LockedRegions, OneConnection,
           StartFails
  <2>4. Underneath'
    BY <1>4
       DEF OneConnectionInv, Actors, Handover, Explained, Underneath, TypeOK,
           LockedRegions, OneConnection, StartFails
  <2> QED
    BY <2>1, <2>2, <2>3, <2>4 DEF OneConnectionInv
<1> QED
  BY <1>1, <1>2, <1>3, <1>4 DEF StartMonitoring

LEMMA StopOnce ==
  ASSUME OneConnection, TypeOK, LockedRegions, OneConnectionInv,
         StopMonitoring(Main)
  PROVE  OneConnectionInv'
<1> USE LockedLabels, PublishedLabels, PublishedStates, OneConnectionThreads
       DEF Failing, Tunnelled, GpuReady, Connecting, Starting, Stopping,
           Leaving, Ending, Relinked, Counted, Recovers, Watches, Looking,
           Alarmed, Resetting, Forcing, Quiet, Return, Goto, Then, Home,
           Acquire, Release, Brief, hwVars, monVars, policyVars, SetState,
           SetError, LockIn, LeaveIn, TeardownGpu, TeardownTunnel, Up,
           Faulted, Opening, Closing
<1>1. CASE StopCheck(Main)
  <2>1. Actors'
    BY <1>1
       DEF OneConnectionInv, Actors, Handover, Explained, Underneath, TypeOK,
           LockedRegions, OneConnection, StopCheck, AfterStop
  <2>2. Handover'
    BY <1>1
       DEF OneConnectionInv, Actors, Handover, Explained, Underneath, TypeOK,
           LockedRegions, OneConnection, StopCheck, AfterStop
  <2>3. Explained'
    BY <1>1
       DEF OneConnectionInv, Actors, Handover, Explained, Underneath, Blame,
           Blamed, ErrorExplained, TypeOK, LockedRegions, OneConnection,
           StopCheck, AfterStop
  <2>4. Underneath'
    BY <1>1
       DEF OneConnectionInv, Actors, Handover, Explained, Underneath, TypeOK,
           LockedRegions, OneConnection, StopCheck, AfterStop
  <2> QED
    BY <2>1, <2>2, <2>3, <2>4 DEF OneConnectionInv
<1>2. CASE StopClear(Main)
  <2>1. Actors'
    BY <1>2
       DEF OneConnectionInv, Actors, Handover, Explained, Underneath, TypeOK,
           LockedRegions, OneConnection, StopClear
  <2>2. Handover'
    BY <1>2
       DEF OneConnectionInv, Actors, Handover, Explained, Underneath, TypeOK,
           LockedRegions, OneConnection, StopClear
  <2>3. Explained'
    BY <1>2
       DEF OneConnectionInv, Actors, Handover, Explained, Underneath, Blame,
           Blamed, ErrorExplained, TypeOK, LockedRegions, OneConnection,
           StopClear
  <2>4. Underneath'
    BY <1>2
       DEF OneConnectionInv, Actors, Handover, Explained, Underneath, TypeOK,
           LockedRegions, OneConnection, StopClear
  <2> QED
    BY <2>1, <2>2, <2>3, <2>4 DEF OneConnectionInv
<1>3. CASE StopJoin(Main)
  <2>1. Actors'
    BY <1>3
       DEF OneConnectionInv, Actors, Handover, Explained, Underneath, TypeOK,
           LockedRegions, OneConnection, StopJoin
  <2>2. Handover'
    BY <1>3
       DEF OneConnectionInv, Actors, Handover, Explained, Underneath, TypeOK,
           LockedRegions, OneConnection, StopJoin
  <2>3. Explained'
    BY <1>3
       DEF OneConnectionInv, Actors, Handover, Explained, Underneath, Blame,
           Blamed, ErrorExplained, TypeOK, LockedRegions, OneConnection,
           StopJoin
  <2>4. Underneath'
    BY <1>3
       DEF OneConnectionInv, Actors, Handover, Explained, Underneath, TypeOK,
           LockedRegions, OneConnection, StopJoin
  <2> QED
    BY <2>1, <2>2, <2>3, <2>4 DEF OneConnectionInv
<1>4. CASE StopJoined(Main)
  <2>1. Actors'
    BY <1>4
       DEF OneConnectionInv, Actors, Handover, Explained, Underneath, TypeOK,
           LockedRegions, OneConnection, StopJoined, AfterStop
  <2>2. Handover'
    BY <1>4
       DEF OneConnectionInv, Actors, Handover, Explained, Underneath, TypeOK,
           LockedRegions, OneConnection, StopJoined, AfterStop
  <2>3. Explained'
    BY <1>4
       DEF OneConnectionInv, Actors, Handover, Explained, Underneath, Blame,
           Blamed, ErrorExplained, TypeOK, LockedRegions, OneConnection,
           StopJoined, AfterStop
  <2>4. Underneath'
    BY <1>4
       DEF OneConnectionInv, Actors, Handover, Explained, Underneath, TypeOK,
           LockedRegions, OneConnection, StopJoined, AfterStop
  <2> QED
    BY <2>1, <2>2, <2>3, <2>4 DEF OneConnectionInv
<1> QED
  BY <1>1, <1>2, <1>3, <1>4 DEF StopMonitoring

LEMMA SafeOnce ==
  ASSUME OneConnection, TypeOK, LockedRegions, OneConnectionInv,
         SafeDisconnect(Main)
  PROVE  OneConnectionInv'
<1> USE LockedLabels, PublishedLabels, PublishedStates, OneConnectionThreads
       DEF Failing, Tunnelled, GpuReady, Connecting, Starting, Stopping,
           Leaving, Ending, Relinked, Counted, Recovers, Watches, Looking,
           Alarmed, Resetting, Forcing, Quiet, Return, Goto, Then, Home,
           Acquire, Release, Brief, hwVars, monVars, policyVars, SetState,
           SetError, LockIn, LeaveIn, TeardownGpu, TeardownTunnel, Up,
           Faulted, Opening, Closing
<1>1. CASE LockIn(Main, "safe", "SAFE_DISCONNECT", "safe_gpu")
  <2>1. Actors'
    BY <1>1
       DEF OneConnectionInv, Actors, Handover, Explained, Underneath, TypeOK,
           LockedRegions, OneConnection
  <2>2. Handover'
    BY <1>1
       DEF OneConnectionInv, Actors, Handover, Explained, Underneath, TypeOK,
           LockedRegions, OneConnection
  <2>3. Explained'
    BY <1>1
       DEF OneConnectionInv, Actors, Handover, Explained, Underneath, Blame,
           Blamed, ErrorExplained, TypeOK, LockedRegions, OneConnection
  <2>4. Underneath'
    BY <1>1
       DEF OneConnectionInv, Actors, Handover, Explained, Underneath, TypeOK,
           LockedRegions, OneConnection
  <2> QED
    BY <2>1, <2>2, <2>3, <2>4 DEF OneConnectionInv
<1>2. CASE TeardownGpu(Main, "safe_gpu", "safe_tunnel")
  <2>1. Actors'
    BY <1>2
       DEF OneConnectionInv, Actors, Handover, Explained, Underneath, TypeOK,
           LockedRegions, OneConnection
  <2>2. Handover'
    BY <1>2
       DEF OneConnectionInv, Actors, Handover, Explained, Underneath, TypeOK,
           LockedRegions, OneConnection
  <2>3. Explained'
    BY <1>2
       DEF OneConnectionInv, Actors, Handover, Explained, Underneath, Blame,
           Blamed, ErrorExplained, TypeOK, LockedRegions, OneConnection
  <2>4. Underneath'
    BY <1>2
       DEF OneConnectionInv, Actors, Handover, Explained, Underneath, TypeOK,
           LockedRegions, OneConnection
  <2> QED
    BY <2>1, <2>2, <2>3, <2>4 DEF OneConnectionInv
<1>3. CASE TeardownTunnel(Main, "safe_tunnel", "safe_done")
  <2>1. Actors'
    BY <1>3
       DEF OneConnectionInv, Actors, Handover, Explained, Underneath, TypeOK,
           LockedRegions, OneConnection
  <2>2. Handover'
    BY <1>3
       DEF OneConnectionInv, Actors, Handover, Explained, Underneath, TypeOK,
           LockedRegions, OneConnection
  <2>3. Explained'
    BY <1>3
       DEF OneConnectionInv, Actors, Handover, Explained, Underneath, Blame,
           Blamed, ErrorExplained, TypeOK, LockedRegions, OneConnection
  <2>4. Underneath'
    BY <1>3
       DEF OneConnectionInv, Actors, Handover, Explained, Underneath, TypeOK,
           LockedRegions, OneConnection
  <2> QED
    BY <2>1, <2>2, <2>3, <2>4 DEF OneConnectionInv
<1>4. CASE SetState(Main, "safe_done", "DISCONNECTED", "safe_clear")
  <2>1. Actors'
    BY <1>4
       DEF OneConnectionInv, Actors, Handover, Explained, Underneath, TypeOK,
           LockedRegions, OneConnection
  <2>2. Handover'
    BY <1>4
       DEF OneConnectionInv, Actors, Handover, Explained, Underneath, TypeOK,
           LockedRegions, OneConnection
  <2>3. Explained'
    BY <1>4
       DEF OneConnectionInv, Actors, Handover, Explained, Underneath, Blame,
           Blamed, ErrorExplained, TypeOK, LockedRegions, OneConnection
  <2>4. Underneath'
    BY <1>4
       DEF OneConnectionInv, Actors, Handover, Explained, Underneath, TypeOK,
           LockedRegions, OneConnection
  <2> QED
    BY <2>1, <2>2, <2>3, <2>4 DEF OneConnectionInv
<1>5. CASE SafeEnd(Main)
  <2>1. Actors'
    BY <1>5
       DEF OneConnectionInv, Actors, Handover, Explained, Underneath, TypeOK,
           LockedRegions, OneConnection, SafeEnd
  <2>2. Handover'
    BY <1>5
       DEF OneConnectionInv, Actors, Handover, Explained, Underneath, TypeOK,
           LockedRegions, OneConnection, SafeEnd
  <2>3. Explained'
    BY <1>5
       DEF OneConnectionInv, Actors, Handover, Explained, Underneath, Blame,
           Blamed, ErrorExplained, TypeOK, LockedRegions, OneConnection,
           SafeEnd
  <2>4. Underneath'
    BY <1>5
       DEF OneConnectionInv, Actors, Handover, Explained, Underneath, TypeOK,
           LockedRegions, OneConnection, SafeEnd
  <2> QED
    BY <2>1, <2>2, <2>3, <2>4 DEF OneConnectionInv
<1> QED
  BY <1>1, <1>2, <1>3, <1>4, <1>5 DEF SafeDisconnect

LEMMA ForceOnce ==
  ASSUME OneConnection, TypeOK, LockedRegions, OneConnectionInv,
         NEW m \in Monitors, ForceDisconnect(m)
  PROVE  OneConnectionInv'
<1> USE LockedLabels, PublishedLabels, PublishedStates, OneConnectionThreads
       DEF Failing, Tunnelled, GpuReady, Connecting, Starting, Stopping,
           Leaving, Ending, Relinked, Counted, Recovers, Watches, Looking,
           Alarmed, Resetting, Forcing, Quiet, Return, Goto, Then, Home,
           Acquire, Release, Brief, hwVars, monVars, policyVars, SetState,
           SetError, LockIn, LeaveIn, TeardownGpu, TeardownTunnel, Up,
           Faulted, Opening, Closing
<1>1. CASE ForceBegin(m)
  <2>1. Actors'
    BY <1>1
       DEF OneConnectionInv, Actors, Handover, Explained, Underneath, TypeOK,
           LockedRegions, OneConnection, ForceBegin
  <2>2. Handover'
    BY <1>1
       DEF OneConnectionInv, Actors, Handover, Explained, Underneath, TypeOK,
           LockedRegions, OneConnection, ForceBegin
  <2>3. Explained'
    BY <1>1
       DEF OneConnectionInv, Actors, Handover, Explained, Underneath, Blame,
           Blamed, ErrorExplained, TypeOK, LockedRegions, OneConnection,
           ForceBegin
  <2>4. Underneath'
    BY <1>1
       DEF OneConnectionInv, Actors, Handover, Explained, Underneath, TypeOK,
           LockedRegions, OneConnection, ForceBegin
  <2> QED
    BY <2>1, <2>2, <2>3, <2>4 DEF OneConnectionInv
<1>2. CASE LockIn(m, "force_lock", "FORCE_DISCONNECT", "force_gpu")
  <2>1. Actors'
    BY <1>2
       DEF OneConnectionInv, Actors, Handover, Explained, Underneath, TypeOK,
           LockedRegions, OneConnection
  <2>2. Handover'
    BY <1>2
       DEF OneConnectionInv, Actors, Handover, Explained, Underneath, TypeOK,
           LockedRegions, OneConnection
  <2>3. Explained'
    BY <1>2
       DEF OneConnectionInv, Actors, Handover, Explained, Underneath, Blame,
           Blamed, ErrorExplained, TypeOK, LockedRegions, OneConnection
  <2>4. Underneath'
    BY <1>2
       DEF OneConnectionInv, Actors, Handover, Explained, Underneath, TypeOK,
           LockedRegions, OneConnection
  <2> QED
    BY <2>1, <2>2, <2>3, <2>4 DEF OneConnectionInv
<1>3. CASE TeardownGpu(m, "force_gpu", "force_tunnel")
  <2>1. Actors'
    BY <1>3
       DEF OneConnectionInv, Actors, Handover, Explained, Underneath, TypeOK,
           LockedRegions, OneConnection
  <2>2. Handover'
    BY <1>3
       DEF OneConnectionInv, Actors, Handover, Explained, Underneath, TypeOK,
           LockedRegions, OneConnection
  <2>3. Explained'
    BY <1>3
       DEF OneConnectionInv, Actors, Handover, Explained, Underneath, Blame,
           Blamed, ErrorExplained, TypeOK, LockedRegions, OneConnection
  <2>4. Underneath'
    BY <1>3
       DEF OneConnectionInv, Actors, Handover, Explained, Underneath, TypeOK,
           LockedRegions, OneConnection
  <2> QED
    BY <2>1, <2>2, <2>3, <2>4 DEF OneConnectionInv
<1>4. CASE TeardownTunnel(m, "force_tunnel", "force_done")
  <2>1. Actors'
    BY <1>4
       DEF OneConnectionInv, Actors, Handover, Explained, Underneath, TypeOK,
           LockedRegions, OneConnection
  <2>2. Handover'
    BY <1>4
       DEF OneConnectionInv, Actors, Handover, Explained, Underneath, TypeOK,
           LockedRegions, OneConnection
  <2>3. Explained'
    BY <1>4
       DEF OneConnectionInv, Actors, Handover, Explained, Underneath, Blame,
           Blamed, ErrorExplained, TypeOK, LockedRegions, OneConnection
  <2>4. Underneath'
    BY <1>4
       DEF OneConnectionInv, Actors, Handover, Explained, Underneath, TypeOK,
           LockedRegions, OneConnection
  <2> QED
    BY <2>1, <2>2, <2>3, <2>4 DEF OneConnectionInv
<1>5. CASE ForceEnd(m)
  <2>1. Actors'
    BY <1>5
       DEF OneConnectionInv, Actors, Handover, Explained, Underneath, TypeOK,
           LockedRegions, OneConnection, ForceEnd
  <2>2. Handover'
    BY <1>5
       DEF OneConnectionInv, Actors, Handover, Explained, Underneath, TypeOK,
           LockedRegions, OneConnection, ForceEnd
  <2>3. Explained'
    BY <1>5
       DEF OneConnectionInv, Actors, Handover, Explained, Underneath, Blame,
           Blamed, ErrorExplained, TypeOK, LockedRegions, OneConnection,
           ForceEnd
  <2>4. Underneath'
    BY <1>5
       DEF OneConnectionInv, Actors, Handover, Explained, Underneath, TypeOK,
           LockedRegions, OneConnection, ForceEnd
  <2> QED
    BY <2>1, <2>2, <2>3, <2>4 DEF OneConnectionInv
<1> QED
  BY <1>1, <1>2, <1>3, <1>4, <1>5 DEF ForceDisconnect

LEMMA RecoveryOnce ==
  ASSUME OneConnection, TypeOK, LockedRegions, OneConnectionInv,
         NEW m \in Monitors, TryRecovery(m)
  PROVE  OneConnectionInv'
<1> USE LockedLabels, PublishedLabels, PublishedStates, OneConnectionThreads
       DEF Failing, Tunnelled, GpuReady, Connecting, Starting, Stopping,
           Leaving, Ending, Relinked, Counted, Recovers, Watches, Looking,
           Alarmed, Resetting, Forcing, Quiet, Return, Goto, Then, Home,
           Acquire, Release, Brief, hwVars, monVars, policyVars, SetState,
           SetError, LockIn, LeaveIn, TeardownGpu, TeardownTunnel, Up,
           Faulted, Opening, Closing
<1>1. CASE RecoverCheck(m)
  <2>1. Actors'
    BY <1>1
       DEF OneConnectionInv, Actors, Handover, Explained, Underneath, TypeOK,
           LockedRegions, OneConnection, RecoverCheck
  <2>2. Handover'
    BY <1>1
       DEF OneConnectionInv, Actors, Handover, Explained, Underneath, TypeOK,
           LockedRegions, OneConnection, RecoverCheck
  <2>3. Explained'
    BY <1>1
       DEF OneConnectionInv, Actors, Handover, Explained, Underneath, Blame,
           Blamed, ErrorExplained, TypeOK, LockedRegions, OneConnection,
           RecoverCheck
  <2>4. Underneath'
    BY <1>1
       DEF OneConnectionInv, Actors, Handover, Explained, Underneath, TypeOK,
           LockedRegions, OneConnection, RecoverCheck
  <2> QED
    BY <2>1, <2>2, <2>3, <2>4 DEF OneConnectionInv
<1>2. CASE RecoverCount(m)
  <2>1. Actors'
    BY <1>2
       DEF OneConnectionInv, Actors, Handover, Explained, Underneath, TypeOK,
           LockedRegions, OneConnection, RecoverCount
  <2>2. Handover'
    BY <1>2
       DEF OneConnectionInv, Actors, Handover, Explained, Underneath, TypeOK,
           LockedRegions, OneConnection, RecoverCount
  <2>3. Explained'
    BY <1>2
       DEF OneConnectionInv, Actors, Handover, Explained, Underneath, Blame,
           Blamed, ErrorExplained, TypeOK, LockedRegions, OneConnection,
           RecoverCount
  <2>4. Underneath'
    BY <1>2
       DEF OneConnectionInv, Actors, Handover, Explained, Underneath, TypeOK,
           LockedRegions, OneConnection, RecoverCount
  <2> QED
    BY <2>1, <2>2, <2>3, <2>4 DEF OneConnectionInv
<1>3. CASE RecoverMark(m)
  <2>1. Actors'
    BY <1>3
       DEF OneConnectionInv, Actors, Handover, Explained, Underneath, TypeOK,
           LockedRegions, OneConnection, RecoverMark
  <2>2. Handover'
    BY <1>3
       DEF OneConnectionInv, Actors, Handover, Explained, Underneath, TypeOK,
           LockedRegions, OneConnection, RecoverMark
  <2>3. Explained'
    BY <1>3
       DEF OneConnectionInv, Actors, Handover, Explained, Underneath, Blame,
           Blamed, ErrorExplained, TypeOK, LockedRegions, OneConnection,
           RecoverMark
  <2>4. Underneath'
    BY <1>3
       DEF OneConnectionInv, Actors, Handover, Explained, Underneath, TypeOK,
           LockedRegions, OneConnection, RecoverMark
  <2> QED
    BY <2>1, <2>2, <2>3, <2>4 DEF OneConnectionInv
<1>4. CASE ResetLink(m)
  <2>1. Actors'
    BY <1>4
       DEF OneConnectionInv, Actors, Handover, Explained, Underneath, TypeOK,
           LockedRegions, OneConnection, ResetLink, Reset
  <2>2. Handover'
    BY <1>4
       DEF OneConnectionInv, Actors, Handover, Explained, Underneath, TypeOK,
           LockedRegions, OneConnection, ResetLink, Reset
  <2>3. Explained'
    BY <1>4
       DEF OneConnectionInv, Actors, Handover, Explained, Underneath, Blame,
           Blamed, ErrorExplained, TypeOK, LockedRegions, OneConnection,
           ResetLink, Reset
  <2>4. Underneath'
    BY <1>4
       DEF OneConnectionInv, Actors, Handover, Explained, Underneath, TypeOK,
           LockedRegions, OneConnection, ResetLink, Reset
  <2> QED
    BY <2>1, <2>2, <2>3, <2>4 DEF OneConnectionInv
<1>5. CASE RecoverLink(m)
  <2>1. Actors'
    BY <1>5
       DEF OneConnectionInv, Actors, Handover, Explained, Underneath, TypeOK,
           LockedRegions, OneConnection, RecoverLink, RecoverDone
  <2>2. Handover'
    BY <1>5
       DEF OneConnectionInv, Actors, Handover, Explained, Underneath, TypeOK,
           LockedRegions, OneConnection, RecoverLink, RecoverDone
  <2>3. Explained'
    BY <1>5
       DEF OneConnectionInv, Actors, Handover, Explained, Underneath, Blame,
           Blamed, ErrorExplained, TypeOK, LockedRegions, OneConnection,
           RecoverLink, RecoverDone
  <2>4. Underneath'
    BY <1>5
       DEF OneConnectionInv, Actors, Handover, Explained, Underneath, TypeOK,
           LockedRegions, OneConnection, RecoverLink, RecoverDone
  <2> QED
    BY <2>1, <2>2, <2>3, <2>4 DEF OneConnectionInv
<1>6. CASE HardReset(m)
  <2>1. Actors'
    BY <1>6
       DEF OneConnectionInv, Actors, Handover, Explained, Underneath, TypeOK,
           LockedRegions, OneConnection, HardReset, Reset
  <2>2. Handover'
    BY <1>6
       DEF OneConnectionInv, Actors, Handover, Explained, Underneath, TypeOK,
           LockedRegions, OneConnection, HardReset, Reset
  <2>3. Explained'
    BY <1>6
       DEF OneConnectionInv, Actors, Handover, Explained, Underneath, Blame,
           Blamed, ErrorExplained, TypeOK, LockedRegions, OneConnection,
           HardReset, Reset
  <2>4. Underneath'
    BY <1>6
       DEF OneConnectionInv, Actors, Handover, Explained, Underneath, TypeOK,
           LockedRegions, OneConnection, HardReset, Reset
  <2> QED
    BY <2>1, <2>2, <2>3, <2>4 DEF OneConnectionInv
<1>7. CASE RecoverHard(m)
  <2>1. Actors'
    BY <1>7
       DEF OneConnectionInv, Actors, Handover, Explained, Underneath, TypeOK,
           LockedRegions, OneConnection, RecoverHard, RecoverDone
  <2>2. Handover'
    BY <1>7
       DEF OneConnectionInv, Actors, Handover, Explained, Underneath, TypeOK,
           LockedRegions, OneConnection, RecoverHard, RecoverDone
  <2>3. Explained'
    BY <1>7
       DEF OneConnectionInv, Actors, Handover, Explained, Underneath, Blame,
           Blamed, ErrorExplained, TypeOK, LockedRegions, OneConnection,
           RecoverHard, RecoverDone
  <2>4. Underneath'
    BY <1>7
       DEF OneConnectionInv, Actors, Handover, Explained, Underneath, TypeOK,
           LockedRegions, OneConnection, RecoverHard, RecoverDone
  <2> QED
    BY <2>1, <2>2, <2>3, <2>4 DEF OneConnectionInv
<1> QED
  BY <1>1, <1>2, <1>3, <1>4, <1>5, <1>6, <1>7 DEF TryRecovery

LEMMA MonitorOnce ==
  ASSUME OneConnection, TypeOK, LockedRegions, OneConnectionInv,
         NEW m \in Monitors, Monitor(m)
  PROVE  OneConnectionInv'
<1> USE LockedLabels, PublishedLabels, PublishedStates, OneConnectionThreads
       DEF Failing, Tunnelled, GpuReady, Connecting, Starting, Stopping,
           Leaving, Ending, Relinked, Counted, Recovers, Watches, Looking,
           Alarmed, Resetting, Forcing, Quiet, Return, Goto, Then, Home,
           Acquire, Release, Brief, hwVars, monVars, policyVars, SetState,
           SetError, LockIn, LeaveIn, TeardownGpu, TeardownTunnel, Up,
           Faulted, Opening, Closing
<1>1. CASE MonitorWake(m)
  <2>1. Actors'
    BY <1>1
       DEF OneConnectionInv, Actors, Handover, Explained, Underneath, TypeOK,
           LockedRegions, OneConnection, MonitorWake
  <2>2. Handover'
    BY <1>1
       DEF OneConnectionInv, Actors, Handover, Explained, Underneath, TypeOK,
           LockedRegions, OneConnection, MonitorWake
  <2>3. Explained'
    BY <1>1
       DEF OneConnectionInv, Actors, Handover, Explained, Underneath, Blame,
           Blamed, ErrorExplained, TypeOK, LockedRegions, OneConnection,
           MonitorWake
  <2>4. Underneath'
    BY <1>1
       DEF OneConnectionInv, Actors, Handover, Explained, Underneath, TypeOK,
           LockedRegions, OneConnection, MonitorWake
  <2> QED
    BY <2>1, <2>2, <2>3, <2>4 DEF OneConnectionInv
<1>2. CASE MonitorPoll(m)
  <2>1. Actors'
    BY <1>2
       DEF OneConnectionInv, Actors, Handover, Explained, Underneath, TypeOK,
           LockedRegions, OneConnection, MonitorPoll
  <2>2. Handover'
    BY <1>2
       DEF OneConnectionInv, Actors, Handover, Explained, Underneath, TypeOK,
           LockedRegions, OneConnection, MonitorPoll
  <2>3. Explained'
    BY <1>2
       DEF OneConnectionInv, Actors, Handover, Explained, Underneath, Blame,
           Blamed, ErrorExplained, TypeOK, LockedRegions, OneConnection,
           MonitorPoll
  <2>4. Underneath'
    BY <1>2
       DEF OneConnectionInv, Actors, Handover, Explained, Underneath, TypeOK,
           LockedRegions, OneConnection, MonitorPoll
  <2> QED
    BY <2>1, <2>2, <2>3, <2>4 DEF OneConnectionInv
<1>3. CASE MonitorLock(m)
  <2>1. Actors'
    BY <1>3
       DEF OneConnectionInv, Actors, Handover, Explained, Underneath, TypeOK,
           LockedRegions, OneConnection, MonitorLock
  <2>2. Handover'
    BY <1>3
       DEF OneConnectionInv, Actors, Handover, Explained, Underneath, TypeOK,
           LockedRegions, OneConnection, MonitorLock
  <2>3. Explained'
    BY <1>3
       DEF OneConnectionInv, Actors, Handover, Explained, Underneath, Blame,
           Blamed, ErrorExplained, TypeOK, LockedRegions, OneConnection,
           MonitorLock
  <2>4. Underneath'
    BY <1>3
       DEF OneConnectionInv, Actors, Handover, Explained, Underneath, TypeOK,
           LockedRegions, OneConnection, MonitorLock
  <2> QED
    BY <2>1, <2>2, <2>3, <2>4 DEF OneConnectionInv
<1>4. CASE MonitorLook(m)
  <2>1. Actors'
    BY <1>4
       DEF OneConnectionInv, Actors, Handover, Explained, Underneath, TypeOK,
           LockedRegions, OneConnection, MonitorLook
  <2>2. Handover'
    BY <1>4
       DEF OneConnectionInv, Actors, Handover, Explained, Underneath, TypeOK,
           LockedRegions, OneConnection, MonitorLook
  <2>3. Explained'
    BY <1>4
       DEF OneConnectionInv, Actors, Handover, Explained, Underneath, Blame,
           Blamed, ErrorExplained, TypeOK, LockedRegions, OneConnection,
           MonitorLook
  <2>4. Underneath'
    BY <1>4
       DEF OneConnectionInv, Actors, Handover, Explained, Underneath, TypeOK,
           LockedRegions, OneConnection, MonitorLook
  <2> QED
    BY <2>1, <2>2, <2>3, <2>4 DEF OneConnectionInv
<1>5. CASE MonitorVerify(m)
  <2>1. Actors'
    BY <1>5
       DEF OneConnectionInv, Actors, Handover, Explained, Underneath, TypeOK,
           LockedRegions, OneConnection, MonitorVerify
  <2>2. Handover'
    BY <1>5
       DEF OneConnectionInv, Actors, Handover, Explained, Underneath, TypeOK,
           LockedRegions, OneConnection, MonitorVerify
  <2>3. Explained'
    BY <1>5
       DEF OneConnectionInv, Actors, Handover, Explained, Underneath, Blame,
           Blamed, ErrorExplained, TypeOK, LockedRegions, OneConnection,
           MonitorVerify
  <2>4. Underneath'
    BY <1>5
       DEF OneConnectionInv, Actors, Handover, Explained, Underneath, TypeOK,
           LockedRegions, OneConnection, MonitorVerify
  <2> QED
    BY <2>1, <2>2, <2>3, <2>4 DEF OneConnectionInv
<1>6. CASE MonitorReport(m, "report_hot", Emergency)
  <2>1. Actors'
    BY <1>6
       DEF OneConnectionInv, Actors, Handover, Explained, Underneath, TypeOK,
           LockedRegions, OneConnection, MonitorReport, Emergency
  <2>2. Handover'
    BY <1>6
       DEF OneConnectionInv, Actors, Handover, Explained, Underneath, TypeOK,
           LockedRegions, OneConnection, MonitorReport, Emergency
  <2>3. Explained'
    BY <1>6
       DEF OneConnectionInv, Actors, Handover, Explained, Underneath, Blame,
           Blamed, ErrorExplained, TypeOK, LockedRegions, OneConnection,
           MonitorReport, Emergency
  <2>4. Underneath'
    BY <1>6
       DEF OneConnectionInv, Actors, Handover, Explained, Underneath, TypeOK,
           LockedRegions, OneConnection, MonitorReport, Emergency
  <2> QED
    BY <2>1, <2>2, <2>3, <2>4 DEF OneConnectionInv
<1>7. CASE MonitorReport(m, "report_fault", Recovery)
  <2>1. Actors'
    BY <1>7
       DEF OneConnectionInv, Actors, Handover, Explained, Underneath, TypeOK,
           LockedRegions, OneConnection, MonitorReport, Recovery
  <2>2. Handover'
    BY <1>7
       DEF OneConnectionInv, Actors, Handover, Explained, Underneath, TypeOK,
           LockedRegions, OneConnection, MonitorReport, Recovery
  <2>3. Explained'
    BY <1>7
       DEF OneConnectionInv, Actors, Handover, Explained, Underneath, Blame,
           Blamed, ErrorExplained, TypeOK, LockedRegions, OneConnection,
           MonitorReport, Recovery
  <2>4. Underneath'
    BY <1>7
       DEF OneConnectionInv, Actors, Handover, Explained, Underneath, TypeOK,
           LockedRegions, OneConnection, MonitorReport, Recovery
  <2> QED
    BY <2>1, <2>2, <2>3, <2>4 DEF OneConnectionInv
<1> QED
  BY <1>1, <1>2, <1>3, <1>4, <1>5, <1>6, <1>7 DEF Monitor

\* The application makes no recovery and no forced disconnection, and the
\* monitors do nothing else.
LEMMA OneConnectionActors ==
  ASSUME OneConnection, OneConnectionInv, NEW t \in Threads, Step(t)
  PROVE  \/ /\ t = Main
            /\ EgpuConnect(Main) \/ StartMonitoring(Main) \/ StopMonitoring(Main)
                 \/ SafeDisconnect(Main)
         \/ t \in Monitors /\ (ForceDisconnect(t) \/ TryRecovery(t) \/ Monitor(t))
<1> USE OneConnectionThreads
       DEF Failing, Tunnelled, GpuReady, Connecting, Starting, Stopping,
           Leaving, Ending, Relinked, Counted, Recovers, Watches, Looking,
           Alarmed, Resetting, Forcing, SetState, SetError, LockIn, LeaveIn,
           TeardownGpu, TeardownTunnel, OneConnectionInv, Actors
<1>1. CASE t = Main
  <2>1. ~TryRecovery(Main)
    BY
       DEF TryRecovery, RecoverCheck, RecoverCount, RecoverMark, ResetLink,
           RecoverLink, HardReset, RecoverHard, RecoverDone, Reset
  <2>2. ~ForceDisconnect(Main)
    BY DEF ForceDisconnect, ForceBegin, ForceEnd
  <2> QED
    BY <1>1, <2>1, <2>2 DEF Step
<1>2. CASE t \in Monitors
  <2>1. ~EgpuConnect(t)
    BY <1>2
       DEF EgpuConnect, ConnectIgnored, ConnectBegin, ConnectNotFound,
           ConnectIncompatible, ConnectAuthenticate, ConnectTunnel, TunnelUp,
           ConnectTunnelFails, ConnectMayRetry, ConnectRetry, ConnectInit,
           GpuUp, ConnectDone, ConnectInitFails
  <2>2. ~StartMonitoring(t)
    BY <1>2
       DEF StartMonitoring, StartCheck, StartMark, StartCreate, StartFails
  <2> QED
    BY <1>2, <2>1, <2>2 DEF Step
<1> QED
  BY <1>1, <1>2

LEMMA NextOneConnection ==
  ASSUME OneConnection, TypeOK, LockedRegions, OneConnectionInv, [Next]_vars
  PROVE  OneConnectionInv'
<1> USE LockedLabels, PublishedLabels, PublishedStates, OneConnectionThreads
       DEF Failing, Tunnelled, GpuReady, Connecting, Starting, Stopping,
           Leaving, Ending, Relinked, Counted, Recovers, Watches, Looking,
           Alarmed, Resetting, Forcing, Quiet, Return, Goto, Then, Home,
           Acquire, Release, Brief, hwVars, monVars, policyVars, SetState,
           SetError, LockIn, LeaveIn, TeardownGpu, TeardownTunnel, Up,
           Faulted, Opening, Closing
<1>1. ASSUME NEW a \in Apps, NEW op \in Ops, Call(a, op)
      PROVE  OneConnectionInv'
  <2>0. a = Main /\ op = "connect" /\ state = "DISCONNECTED" /\ Quiet
    BY <1>1
       DEF OneConnectionInv, Actors, Explained, OneConnection, Call, Quiet
  <2>1. Actors'
    BY <1>1, <2>0
       DEF OneConnectionInv, Actors, Handover, TypeOK, OneConnection, Call, Entry
  <2>2. Handover'
    BY <1>1, <2>0
       DEF OneConnectionInv, Actors, Handover, TypeOK, OneConnection, Call, Entry
  <2>3. Explained'
    BY <1>1, <2>0
       DEF OneConnectionInv, Actors, Explained, Blame, Blamed, ErrorExplained,
           TypeOK, OneConnection, Call, Entry
  <2>4. Underneath'
    BY <1>1, <2>0
       DEF OneConnectionInv, Actors, Underneath, TypeOK, OneConnection, Call,
           Entry
  <2> QED
    BY <2>1, <2>2, <2>3, <2>4 DEF OneConnectionInv
<1>2. CASE ShutdownBegin
  <2>1. Actors'
    BY <1>2
       DEF OneConnectionInv, Actors, Handover, Explained, Underneath, TypeOK,
           LockedRegions, OneConnection, ShutdownBegin
  <2>2. Handover'
    BY <1>2
       DEF OneConnectionInv, Actors, Handover, Explained, Underneath, TypeOK,
           LockedRegions, OneConnection, ShutdownBegin
  <2>3. Explained'
    BY <1>2
       DEF OneConnectionInv, Actors, Handover, Explained, Underneath, Blame,
           Blamed, ErrorExplained, TypeOK, LockedRegions, OneConnection,
           ShutdownBegin
  <2>4. Underneath'
    BY <1>2
       DEF OneConnectionInv, Actors, Handover, Explained, Underneath, TypeOK,
           LockedRegions, OneConnection, ShutdownBegin
  <2> QED
    BY <2>1, <2>2, <2>3, <2>4 DEF OneConnectionInv
<1>3. CASE ShutdownBranch
  <2>1. Actors'
    BY <1>3
       DEF OneConnectionInv, Actors, Handover, Explained, Underneath, TypeOK,
           LockedRegions, OneConnection, ShutdownBranch
  <2>2. Handover'
    BY <1>3
       DEF OneConnectionInv, Actors, Handover, Explained, Underneath, TypeOK,
           LockedRegions, OneConnection, ShutdownBranch
  <2>3. Explained'
    BY <1>3
       DEF OneConnectionInv, Actors, Handover, Explained, Underneath, Blame,
           Blamed, ErrorExplained, TypeOK, LockedRegions, OneConnection,
           ShutdownBranch
  <2>4. Underneath'
    BY <1>3
       DEF OneConnectionInv, Actors, Handover, Explained, Underneath, TypeOK,
           LockedRegions, OneConnection, ShutdownBranch
  <2> QED
    BY <2>1, <2>2, <2>3, <2>4 DEF OneConnectionInv
<1>4. CASE ShutdownDestroy
  <2>1. Actors'
    BY <1>4
       DEF OneConnectionInv, Actors, Handover, Explained, Underneath, TypeOK,
           LockedRegions, OneConnection, ShutdownDestroy
  <2>2. Handover'
    BY <1>4
       DEF OneConnectionInv, Actors, Handover, Explained, Underneath, TypeOK,
           LockedRegions, OneConnection, ShutdownDestroy
  <2>3. Explained'
    BY <1>4
       DEF OneConnectionInv, Actors, Handover, Explained, Underneath, Blame,
           Blamed, ErrorExplained, TypeOK, LockedRegions, OneConnection,
           ShutdownDestroy
  <2>4. Underneath'
    BY <1>4
       DEF OneConnectionInv, Actors, Handover, Explained, Underneath, TypeOK,
           LockedRegions, OneConnection, ShutdownDestroy
  <2> QED
    BY <2>1, <2>2, <2>3, <2>4 DEF OneConnectionInv
<1>5. CASE Telemetry
  <2>1. Actors'
    BY <1>5
       DEF OneConnectionInv, Actors, Handover, Explained, Underneath, TypeOK,
           LockedRegions, OneConnection, Telemetry
  <2>2. Handover'
    BY <1>5
       DEF OneConnectionInv, Actors, Handover, Explained, Underneath, TypeOK,
           LockedRegions, OneConnection, Telemetry
  <2>3. Explained'
    BY <1>5
       DEF OneConnectionInv, Actors, Handover, Explained, Underneath, Blame,
           Blamed, ErrorExplained, TypeOK, LockedRegions, OneConnection,
           Telemetry
  <2>4. Underneath'
    BY <1>5
       DEF OneConnectionInv, Actors, Handover, Explained, Underneath, TypeOK,
           LockedRegions, OneConnection, Telemetry
  <2> QED
    BY <2>1, <2>2, <2>3, <2>4 DEF OneConnectionInv
<1>6. ASSUME NEW t \in Threads, Step(t)
      PROVE  OneConnectionInv'
  BY <1>6, OneConnectionActors, ConnectOnce, StartOnce, StopOnce, SafeOnce,
     ForceOnce, RecoveryOnce, MonitorOnce
<1>7. CASE UNCHANGED vars
  BY <1>7
     DEF OneConnectionInv, Actors, Handover, Explained, Underneath,
         Blame, ErrorExplained, vars
<1>8. ~SafetyInit
  BY DEF SafetyInit, OneConnection
<1> QED
  BY <1>1, <1>2, <1>3, <1>4, <1>5, <1>6, <1>7, <1>8 DEF Next, Shutdown

\* While the application leaves the link to its monitor, the two threads, the
\* state, the errors and the hardware stay in step, also when the monitor
\* gives the connection up (monitor_thread_func, egpu_force_disconnect).
THEOREM OneConnectionIsInvariant ==
  ASSUME OneConnection PROVE Spec => []OneConnectionInv
<1>1. TypeOK /\ LockedRegions /\ OneConnectionInv /\ [Next]_vars => OneConnectionInv'
  BY NextOneConnection
<1>2. Init => OneConnectionInv
  BY InitOneConnection
<1>3. Spec => []LockedRegions
  BY SequencesAreAtomic DEF OneConnection
<1> QED
  BY TypeCorrect, <1>1, <1>2, <1>3, PTL DEF Spec

\* A monitor that disconnects by force is the only one, and the shutdown
\* joins it or finds that it has cleared monitor_running itself.
THEOREM OneMonitorWhenForced ==
  ASSUME OneConnection PROVE Spec => []OneMonitor
<1>1. TypeOK /\ OneConnectionInv => OneMonitor
  BY OneConnectionThreads
     DEF TypeOK, OneConnectionInv, Handover, Quiet, OneMonitor, Live,
         JoinsKnownThread
<1> QED
  BY TypeCorrect, OneConnectionIsInvariant, <1>1, PTL

\* An eGPU that the monitor has disconnected, too hot or beyond recovery, is
\* neither faulted nor up again: its monitor checks and recovers nothing
\* more, although nobody has joined it.
THEOREM StaysDownWhenForced ==
  ASSUME OneConnection PROVE Spec => DownUntilConnect
<1>1. ASSUME TypeOK, LockedRegions, OneConnectionInv, [Next]_vars
      PROVE  [state = "DISCONNECTED" => state' \in {"DETECTING"} \cup Closing]_state
  <2> SUFFICES ASSUME state = "DISCONNECTED", state' # state
               PROVE  state' \in {"DETECTING"} \cup Closing
    OBVIOUS
  <2> USE <1>1, PublishedStates, PublishedLabels, LockedLabels,
          OneConnectionThreads
          DEF policyVars, hwVars, Closing, Up, Faulted, OneConnectionInv,
              Explained, LockedRegions, Alarmed, Resetting, Looking, SetState,
              SetError, LockIn, LeaveIn, TeardownGpu, TeardownTunnel
  <2>1. ASSUME NEW m \in Monitors, Monitor(m)
        PROVE  FALSE
    BY <2>1
       DEF Monitor, MonitorWake, MonitorPoll, MonitorLock, MonitorLook,
           MonitorVerify, MonitorReport
  <2>2. ASSUME NEW m \in Monitors, TryRecovery(m)
        PROVE  FALSE
    BY <2>2
       DEF TryRecovery, RecoverCheck, RecoverCount, RecoverMark, ResetLink,
           RecoverLink, HardReset, RecoverHard, RecoverDone, Reset, Actors,
           Watches, Forcing, Relinked
  <2>3. ASSUME NEW m \in Monitors, ForceDisconnect(m)
        PROVE  state' \in Closing
    BY <2>3 DEF ForceDisconnect, ForceBegin, ForceEnd
  <2>4. CASE EgpuConnect(Main)
    BY <2>4
       DEF EgpuConnect, ConnectIgnored, ConnectBegin, ConnectNotFound,
           ConnectIncompatible, ConnectAuthenticate, ConnectTunnel, TunnelUp,
           ConnectTunnelFails, ConnectMayRetry, ConnectRetry, ConnectInit,
           GpuUp, ConnectDone, ConnectInitFails
  <2>5. CASE StartMonitoring(Main) \/ StopMonitoring(Main) \/ SafeDisconnect(Main)
    BY <2>5
       DEF StartMonitoring, StartCheck, StartMark, StartCreate, StartFails,
           StopMonitoring, StopCheck, StopClear, StopJoin, StopJoined,
           SafeDisconnect, SafeEnd
  <2>6. CASE (\E a \in Apps, op \in Ops : Call(a, op)) \/ Shutdown \/ UNCHANGED vars
    BY <2>6
       DEF Call, Shutdown, ShutdownBegin, ShutdownBranch, ShutdownDestroy,
           vars
  <2>7. CASE SafetyInit \/ Telemetry
    BY <2>7 DEF SafetyInit, Telemetry
  <2> QED
    BY <2>1, <2>2, <2>3, <2>4, <2>5, <2>6, <2>7, OneConnectionActors DEF Next
<1>2. Spec => []LockedRegions
  BY SequencesAreAtomic DEF OneConnection
<1> QED
  BY TypeCorrect, OneConnectionIsInvariant, <1>1, <1>2, PTL DEF Spec, DownUntilConnect

(***************************************************************************)
(* The forced disconnection follows the life cycle too.                    *)
(***************************************************************************)
LEMMA ConnectForced ==
  ASSUME OneConnection, TypeOK, LockedRegions, OneConnectionInv,
         EgpuConnect(Main)
  PROVE  Lifecycle!Next \/ UNCHANGED Lifecycle!vars
<1> USE LockedLabels, PublishedLabels, PublishedStates, OneConnectionThreads,
       PhaseOf, HardwareOf, PhaseOfNext, HardwareOfNext
       DEF Failing, Tunnelled, GpuReady, Connecting, Starting, Stopping,
           Leaving, Ending, Relinked, Counted, Recovers, Watches, Looking,
           Alarmed, Resetting, Forcing, Quiet, Goto, Then, Return, Acquire,
           Release, Brief, hwVars, monVars, policyVars, SetState, SetError,
           LockIn, LeaveIn, TeardownGpu, TeardownTunnel, Up, Faulted, Opening,
           Closing, TypeOK, LockedRegions, OneConnectionInv, Actors,
           Explained, Underneath
<1>1. CASE ConnectIgnored(Main)
  BY <1>1, PhaseKept DEF ConnectIgnored
<1>2. CASE ConnectBegin(Main)
  <2>1. Lifecycle!Open
    BY <1>2, PhaseKept
       DEF ConnectBegin, States, Lifecycle!Open, Lifecycle!Shows,
           Lifecycle!Turns
  <2> QED
    BY <2>1 DEF Lifecycle!Next
<1>3. CASE ConnectNotFound(Main)
  <2>1. Lifecycle!Reject \/ UNCHANGED Lifecycle!vars
    BY <1>3, PhaseKept
       DEF ConnectNotFound, Lifecycle!Reject, Lifecycle!Shows,
           Lifecycle!Turns, Lifecycle!vars
  <2> QED
    BY <2>1 DEF Lifecycle!Next
<1>4. CASE ConnectIncompatible(Main)
  <2>1. Lifecycle!Reject \/ Lifecycle!Done \/ UNCHANGED Lifecycle!vars
    BY <1>4, PhaseKept
       DEF ConnectIncompatible, Lifecycle!Reject, Lifecycle!Done,
           Lifecycle!Shows, Lifecycle!Turns, Lifecycle!vars
  <2> QED
    BY <2>1 DEF Lifecycle!Next
<1>5. CASE ConnectAuthenticate(Main)
  <2>1. UNCHANGED Lifecycle!vars
    BY <1>5 DEF ConnectAuthenticate, Lifecycle!vars
  <2> QED
    BY <2>1
<1>6. CASE ConnectTunnel(Main)
  <2>1. Lifecycle!BringTunnel \/ UNCHANGED Lifecycle!vars
    BY <1>6, PhaseKept
       DEF ConnectTunnel, TunnelUp, Lifecycle!BringTunnel, Lifecycle!Shows,
           Lifecycle!Turns, Lifecycle!vars
  <2> QED
    BY <2>1 DEF Lifecycle!Next
<1>7. CASE ConnectTunnelFails(Main)
  <2>1. Lifecycle!Reject \/ Lifecycle!Dismiss \/ UNCHANGED Lifecycle!vars
    BY <1>7, PhaseKept
       DEF ConnectTunnelFails, ConnectMayRetry, ConnectRetry,
           Lifecycle!Reject, Lifecycle!Dismiss, Lifecycle!Shows,
           Lifecycle!Turns, Lifecycle!vars
  <2> QED
    BY <2>1 DEF Lifecycle!Next
<1>8. CASE ConnectInit(Main)
  <2>1. Lifecycle!BringGpu \/ Lifecycle!Ready \/ UNCHANGED Lifecycle!vars
    BY <1>8, PhaseKept
       DEF ConnectInit, GpuUp, ConnectDone, Lifecycle!BringGpu,
           Lifecycle!Ready, Lifecycle!Shows, Lifecycle!Turns, Lifecycle!vars
  <2> QED
    BY <2>1 DEF Lifecycle!Next
<1>9. CASE ConnectInitFails(Main)
  <2>1. Lifecycle!Fail \/ Lifecycle!Undo \/ Lifecycle!Dismiss
          \/ UNCHANGED Lifecycle!vars
    BY <1>9, PhaseKept
       DEF ConnectInitFails, Lifecycle!Fail, Lifecycle!Undo,
           Lifecycle!Dismiss, Lifecycle!Shows, Lifecycle!Turns, Lifecycle!vars
  <2> QED
    BY <2>1 DEF Lifecycle!Next
<1> QED
  BY <1>1, <1>2, <1>3, <1>4, <1>5, <1>6, <1>7, <1>8, <1>9 DEF EgpuConnect

LEMMA SafeForced ==
  ASSUME OneConnection, TypeOK, LockedRegions, OneConnectionInv,
         SafeDisconnect(Main)
  PROVE  Lifecycle!Next \/ UNCHANGED Lifecycle!vars
<1> USE LockedLabels, PublishedLabels, PublishedStates, OneConnectionThreads,
       PhaseOf, HardwareOf, PhaseOfNext, HardwareOfNext
       DEF Failing, Tunnelled, GpuReady, Connecting, Starting, Stopping,
           Leaving, Ending, Relinked, Counted, Recovers, Watches, Looking,
           Alarmed, Resetting, Forcing, Quiet, Goto, Then, Return, Acquire,
           Release, Brief, hwVars, monVars, policyVars, SetState, SetError,
           LockIn, LeaveIn, TeardownGpu, TeardownTunnel, Up, Faulted, Opening,
           Closing, TypeOK, LockedRegions, OneConnectionInv, Actors,
           Explained, Underneath
<1>1. CASE LockIn(Main, "safe", "SAFE_DISCONNECT", "safe_gpu")
  <2>1. Lifecycle!Close
    BY <1>1, PhaseKept DEF Lifecycle!Close, Lifecycle!Shows, Lifecycle!Turns
  <2> QED
    BY <2>1 DEF Lifecycle!Next
<1>2. CASE TeardownGpu(Main, "safe_gpu", "safe_tunnel")
  <2>1. Lifecycle!DropGpu \/ UNCHANGED Lifecycle!vars
    BY <1>2, PhaseKept
       DEF Lifecycle!DropGpu, Lifecycle!Shows, Lifecycle!Turns, Lifecycle!vars
  <2> QED
    BY <2>1 DEF Lifecycle!Next
<1>3. CASE TeardownTunnel(Main, "safe_tunnel", "safe_done")
  <2>1. Lifecycle!DropTunnel \/ UNCHANGED Lifecycle!vars
    BY <1>3, PhaseKept
       DEF Lifecycle!DropTunnel, Lifecycle!Shows, Lifecycle!Turns,
           Lifecycle!vars
  <2> QED
    BY <2>1 DEF Lifecycle!Next
<1>4. CASE SetState(Main, "safe_done", "DISCONNECTED", "safe_clear")
  <2>1. Lifecycle!Done
    BY <1>4, PhaseKept DEF Lifecycle!Done, Lifecycle!Shows, Lifecycle!Turns
  <2> QED
    BY <2>1 DEF Lifecycle!Next
<1>5. CASE SafeEnd(Main)
  BY <1>5, PhaseKept DEF SafeEnd
<1> QED
  BY <1>1, <1>2, <1>3, <1>4, <1>5 DEF SafeDisconnect

LEMMA ForceForced ==
  ASSUME OneConnection, TypeOK, LockedRegions, OneConnectionInv,
         NEW m \in Monitors, ForceDisconnect(m)
  PROVE  Lifecycle!Next \/ UNCHANGED Lifecycle!vars
<1> USE LockedLabels, PublishedLabels, PublishedStates, OneConnectionThreads,
       PhaseOf, HardwareOf, PhaseOfNext, HardwareOfNext
       DEF Failing, Tunnelled, GpuReady, Connecting, Starting, Stopping,
           Leaving, Ending, Relinked, Counted, Recovers, Watches, Looking,
           Alarmed, Resetting, Forcing, Quiet, Goto, Then, Return, Acquire,
           Release, Brief, hwVars, monVars, policyVars, SetState, SetError,
           LockIn, LeaveIn, TeardownGpu, TeardownTunnel, Up, Faulted, Opening,
           Closing, TypeOK, LockedRegions, OneConnectionInv, Actors,
           Explained, Underneath
<1>1. CASE ForceBegin(m)
  BY <1>1, PhaseKept DEF ForceBegin
<1>2. CASE LockIn(m, "force_lock", "FORCE_DISCONNECT", "force_gpu")
  <2>1. Lifecycle!Close
    BY <1>2, PhaseKept DEF Lifecycle!Close, Lifecycle!Shows, Lifecycle!Turns
  <2> QED
    BY <2>1 DEF Lifecycle!Next
<1>3. CASE TeardownGpu(m, "force_gpu", "force_tunnel")
  <2>1. Lifecycle!DropGpu \/ UNCHANGED Lifecycle!vars
    BY <1>3, PhaseKept
       DEF Lifecycle!DropGpu, Lifecycle!Shows, Lifecycle!Turns, Lifecycle!vars
  <2> QED
    BY <2>1 DEF Lifecycle!Next
<1>4. CASE TeardownTunnel(m, "force_tunnel", "force_done")
  <2>1. Lifecycle!DropTunnel \/ UNCHANGED Lifecycle!vars
    BY <1>4, PhaseKept
       DEF Lifecycle!DropTunnel, Lifecycle!Shows, Lifecycle!Turns,
           Lifecycle!vars
  <2> QED
    BY <2>1 DEF Lifecycle!Next
<1>5. CASE ForceEnd(m)
  <2>1. Lifecycle!Done
    BY <1>5, PhaseKept
       DEF ForceEnd, Lifecycle!Done, Lifecycle!Shows, Lifecycle!Turns
  <2> QED
    BY <2>1 DEF Lifecycle!Next
<1> QED
  BY <1>1, <1>2, <1>3, <1>4, <1>5 DEF ForceDisconnect

LEMMA RecoveryForced ==
  ASSUME OneConnection, TypeOK, LockedRegions, OneConnectionInv,
         NEW m \in Monitors, TryRecovery(m)
  PROVE  Lifecycle!Next \/ UNCHANGED Lifecycle!vars
<1> USE LockedLabels, PublishedLabels, PublishedStates, OneConnectionThreads,
       PhaseOf, HardwareOf, PhaseOfNext, HardwareOfNext
       DEF Failing, Tunnelled, GpuReady, Connecting, Starting, Stopping,
           Leaving, Ending, Relinked, Counted, Recovers, Watches, Looking,
           Alarmed, Resetting, Forcing, Quiet, Goto, Then, Return, Acquire,
           Release, Brief, hwVars, monVars, policyVars, SetState, SetError,
           LockIn, LeaveIn, TeardownGpu, TeardownTunnel, Up, Faulted, Opening,
           Closing, TypeOK, LockedRegions, OneConnectionInv, Actors,
           Explained, Underneath
<1>1. CASE RecoverCheck(m) \/ RecoverCount(m)
  BY <1>1, PhaseKept DEF RecoverCheck, RecoverCount
<1>2. CASE RecoverMark(m)
  <2>1. Lifecycle!Fault \/ UNCHANGED Lifecycle!vars
    BY <1>2, PhaseKept
       DEF RecoverMark, Lifecycle!Fault, Lifecycle!Shows, Lifecycle!Turns,
           Lifecycle!vars
  <2> QED
    BY <2>1 DEF Lifecycle!Next
<1>3. CASE ResetLink(m) \/ HardReset(m)
  BY <1>3, PhaseKept DEF ResetLink, HardReset, Reset
<1>4. CASE RecoverLink(m)
  <2>1. Lifecycle!Repair \/ UNCHANGED Lifecycle!vars
    BY <1>4, PhaseKept
       DEF RecoverLink, RecoverDone, Lifecycle!Repair, Lifecycle!Shows,
           Lifecycle!Turns, Lifecycle!vars
  <2> QED
    BY <2>1 DEF Lifecycle!Next
<1>5. CASE RecoverHard(m)
  <2>1. Lifecycle!Repair \/ UNCHANGED Lifecycle!vars
    BY <1>5, PhaseKept
       DEF RecoverHard, RecoverDone, Lifecycle!Repair, Lifecycle!Shows,
           Lifecycle!Turns, Lifecycle!vars
  <2> QED
    BY <2>1 DEF Lifecycle!Next
<1> QED
  BY <1>1, <1>2, <1>3, <1>4, <1>5 DEF TryRecovery

LEMMA MonitorForced ==
  ASSUME OneConnection, TypeOK, LockedRegions, OneConnectionInv,
         NEW m \in Monitors, Monitor(m)
  PROVE  Lifecycle!Next \/ UNCHANGED Lifecycle!vars
<1> USE LockedLabels, PublishedLabels, PublishedStates, OneConnectionThreads,
       PhaseOf, HardwareOf, PhaseOfNext, HardwareOfNext
       DEF Failing, Tunnelled, GpuReady, Connecting, Starting, Stopping,
           Leaving, Ending, Relinked, Counted, Recovers, Watches, Looking,
           Alarmed, Resetting, Forcing, Quiet, Goto, Then, Return, Acquire,
           Release, Brief, hwVars, monVars, policyVars, SetState, SetError,
           LockIn, LeaveIn, TeardownGpu, TeardownTunnel, Up, Faulted, Opening,
           Closing, TypeOK, LockedRegions, OneConnectionInv, Actors,
           Explained, Underneath
<1>1. CASE MonitorWake(m) \/ MonitorPoll(m) \/ MonitorLock(m)
  BY <1>1, PhaseKept DEF MonitorWake, MonitorPoll, MonitorLock
<1>2. CASE MonitorLook(m) \/ MonitorVerify(m)
  <2>1. UNCHANGED Lifecycle!vars
    BY <1>2 DEF MonitorLook, MonitorVerify, Lifecycle!vars
  <2> QED
    BY <2>1
<1>3. CASE MonitorReport(m, "report_hot", Emergency)
  <2>1. Lifecycle!Fault \/ UNCHANGED Lifecycle!vars
    BY <1>3, PhaseKept
       DEF MonitorReport, Lifecycle!Fault, Lifecycle!Shows, Lifecycle!Turns,
           Lifecycle!vars
  <2> QED
    BY <2>1 DEF Lifecycle!Next
<1>4. CASE MonitorReport(m, "report_fault", Recovery)
  <2>1. Lifecycle!Fault \/ UNCHANGED Lifecycle!vars
    BY <1>4, PhaseKept
       DEF MonitorReport, Lifecycle!Fault, Lifecycle!Shows, Lifecycle!Turns,
           Lifecycle!vars
  <2> QED
    BY <2>1 DEF Lifecycle!Next
<1> QED
  BY <1>1, <1>2, <1>3, <1>4 DEF Monitor

LEMMA NextLifecycleForced ==
  ASSUME OneConnection, TypeOK, LockedRegions, OneConnectionInv, [Next]_vars
  PROVE  Lifecycle!Next \/ UNCHANGED Lifecycle!vars
<1>1. CASE \/ StartMonitoring(Main) \/ StopMonitoring(Main)
           \/ \E a \in Apps, op \in Ops : Call(a, op)
           \/ Shutdown \/ Telemetry \/ UNCHANGED vars
  BY <1>1, PhaseKept
     DEF StartMonitoring, StartCheck, StartMark, StartCreate, StartFails,
         StopMonitoring, StopCheck, StopClear, StopJoin, StopJoined, Call,
         Shutdown, ShutdownBegin, ShutdownBranch, ShutdownDestroy, Telemetry,
         policyVars, hwVars, vars
<1>2. ~SafetyInit
  BY DEF SafetyInit, OneConnection
<1> QED
  BY <1>1, <1>2, OneConnectionActors, ConnectForced, SafeForced, ForceForced,
     RecoveryForced, MonitorForced DEF Next

\* Every step of the two threads is a step of the life cycle egpu_safety.h
\* documents, or invisible in it, also where the monitor disconnects by force:
\* the GPU goes before the tunnel, and both before the eGPU is shown as
\* disconnected.
THEOREM FollowsLifecycleWhenForced ==
  ASSUME OneConnection PROVE Spec => Lifecycle!Safety
<1>1. Init => Lifecycle!Init
  BY PhaseOf, HardwareOf DEF Init, Lifecycle!Init
<1>2. TypeOK /\ LockedRegions /\ OneConnectionInv /\ [Next]_vars
        => [Lifecycle!Next]_(Lifecycle!vars)
  BY NextLifecycleForced
<1>3. Spec => []LockedRegions
  BY SequencesAreAtomic DEF OneConnection
<1> QED
  BY TypeCorrect, OneConnectionIsInvariant, <1>1, <1>2, <1>3, PTL
     DEF Spec, Lifecycle!Safety
=============================================================================
