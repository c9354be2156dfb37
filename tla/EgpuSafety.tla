----------------------------- MODULE EgpuSafety -----------------------------
(***************************************************************************)
(* The eGPU connection safety manager (src/egpu/egpu_safety.c): the calls  *)
(* of the application's threads, the health-monitoring threads that        *)
(* egpu_start_monitoring creates, the one non-recursive mutex g_egpu.lock, *)
(* and the link they manage.                                               *)
(*                                                                         *)
(* Every write of state, last_error or retry_count is a step of its own,   *)
(* whether or not the mutex is held: egpu_get_state and                    *)
(* egpu_get_last_error read without it, and so do the monitor, the         *)
(* recovery and the shutdown.  Only the locking goes with the write that   *)
(* follows it, and the unlocking with the one before it.  Every read made  *)
(* WITHOUT the mutex is a step of its own too.                             *)
(***************************************************************************)
EXTENDS Integers, FiniteSets

CONSTANTS
  Apps,                 \* the application's threads
  Main,                 \* the one that calls egpu_safety_init and _shutdown
  Monitors,             \* thread ids pthread_create can hand out
  None,                 \* no thread
  AppOps,               \* the API calls this application makes
  ConnectWhen,          \* the <<state, last_error>> it calls egpu_connect in
  Reinit,               \* does it initialise again after a shutdown?
  MaxRetry,             \* policy.max_retry_count
  AutoRecovery,         \* policy.enable_auto_recovery
  ForceOnIncompatible,  \* policy.force_disconnect_on_incompatible
  Faults,               \* what the hardware's telemetry may report
  MayFail               \* the hardware steps that may fail

\* "hot":      temperature >= policy.thermal_limit
\* "high":     link_error_rate > policy.error_rate_threshold
\* "critical": link_error_rate > 10 times the threshold
\* "corrupt":  errors_uncorrected > 0
FaultKinds == {"hot", "high", "critical", "corrupt"}
Ops        == {"connect", "safe", "force", "recover", "start", "stop"}
HwSteps    == {"detect", "compat", "tunnel", "init", "link", "hard", "thread"}

ASSUME EgpuAssumption ==
  /\ Main \in Apps
  /\ Apps \cap Monitors = {}
  /\ None \notin Apps \cup Monitors
  /\ AppOps \subseteq Ops
  /\ ConnectWhen # {}
  /\ MaxRetry \in Nat
  /\ {Reinit, AutoRecovery, ForceOnIncompatible} \subseteq BOOLEAN
  /\ Faults \subseteq FaultKinds
  /\ MayFail \subseteq HwSteps

VARIABLES
  initialized,     \* g_egpu.initialized
  state,           \* g_egpu.state
  last_error,      \* g_egpu.last_error
  retry_count,     \* g_egpu.retry_count
  health,          \* g_egpu.health: the faults it shows
  lock,            \* owner of g_egpu.lock
  monitor_running, \* g_egpu.monitor_running
  monitor_thread,  \* g_egpu.monitor_thread
  tunnel,          \* is the PCIe tunnel up?
  gpu,             \* is the GPU initialised?
  pc,              \* where each thread is
  ret,             \* what a thread does after the call it is in
  seen,            \* the retry_count a thread in egpu_try_recovery read
  joining          \* the handle a thread passed to pthread_join

policyVars == <<state, last_error, retry_count>>
hwVars     == <<tunnel, gpu, health>>
monVars    == <<monitor_running, monitor_thread, joining>>
vars == <<initialized, policyVars, hwVars, lock, monVars, pc, ret, seen>>

Threads   == Apps \cup Monitors
Opening   == {"DETECTING", "AUTHENTICATING", "TUNNEL_SETUP", "INITIALIZING"}
Closing   == {"SAFE_DISCONNECT", "FORCE_DISCONNECT"}
Up        == {"CONNECTED", "DEGRADED"}
Faulted   == {"ERROR", "RECOVERING"}
States    == {"DISCONNECTED"} \cup Opening \cup Closing \cup Up \cup Faulted
Errors    == {"NONE", "DEVICE_NOT_FOUND", "INCOMPATIBLE_DEVICE",
              "TUNNEL_FAILED", "GPU_INIT_FAILED", "LINK_UNSTABLE",
              "DATA_CORRUPTION", "THERMAL_SHUTDOWN"}

\* The labels of code that holds the mutex and has published a state.
Published ==
  [detect |-> "DETECTING", not_found |-> "DETECTING",
   incompatible |-> "DETECTING", rejected |-> "FORCE_DISCONNECT",
   auth |-> "AUTHENTICATING",
   tunnel |-> "TUNNEL_SETUP", tunnelled |-> "TUNNEL_SETUP",
   no_tunnel |-> "TUNNEL_SETUP", retry |-> "ERROR", retry_inc |-> "ERROR",
   init |-> "INITIALIZING", ready |-> "INITIALIZING",
   no_gpu |-> "INITIALIZING", undo |-> "ERROR", undone |-> "ERROR",
   connected |-> "CONNECTED", reset |-> "CONNECTED",
   safe_gpu |-> "SAFE_DISCONNECT", safe_tunnel |-> "SAFE_DISCONNECT",
   safe_done |-> "SAFE_DISCONNECT", safe_clear |-> "DISCONNECTED",
   force_gpu |-> "FORCE_DISCONNECT", force_tunnel |-> "FORCE_DISCONNECT",
   force_done |-> "FORCE_DISCONNECT",
   relinked |-> "CONNECTED", relink_reset |-> "CONNECTED",
   rebuilt |-> "CONNECTED", rebuild_reset |-> "CONNECTED"]
\* The monitor's region looks before it publishes anything.
Looking   == {"look", "verify", "report_hot", "report_fault"}
Locked    == DOMAIN Published \cup Looking
Labels    == Locked \cup
             {"idle", "free", "zombie", "wake", "poll", "check",
              "connect", "safe", "force", "force_lock",
              "recover", "recover_inc", "recover_mark", "reset_link",
              "recover_link", "hard_reset", "recover_hard",
              "start", "mark", "create", "stop", "clear", "join", "joined",
              "branch", "destroy"}
Returns   == {"return", "safe", "shutdown", "shutdown_safe", "reconnect"}

\* The values egpu_safety_init leaves, and no call or monitor in progress.
Init ==
  /\ initialized = TRUE
  /\ state = "DISCONNECTED" /\ last_error = "NONE" /\ retry_count = 0
  /\ health = {} /\ tunnel = FALSE /\ gpu = FALSE
  /\ lock = None
  /\ monitor_running = FALSE /\ monitor_thread = None
  /\ joining = [a \in Apps |-> None]
  /\ pc = [t \in Threads |-> IF t \in Apps THEN "idle" ELSE "free"]
  /\ ret = [t \in Threads |-> "return"]
  /\ seen = [t \in Threads |-> 0]

(***************************************************************************)
(* Control.                                                                *)
(***************************************************************************)
Goto(t, label) == pc' = [pc EXCEPT ![t] = label]
Then(t, r)     == ret' = [ret EXCEPT ![t] = r]
\* Where a thread goes on after its call: the monitor's loop ("continue").
\* Mutant: the "continue" is missing.
HomeNoContinue(t) == IF t \in Apps THEN "idle" ELSE "check"
Home(t)           == IF t \in Apps THEN "idle" ELSE "wake"
Return(t) == Goto(t, Home(t)) /\ Then(t, "return")

Acquire(t) == lock = None /\ lock' = t
Release    == lock' = None
\* lock; ...; unlock in one step.  Mutant: without the mutex.
BriefUnlocked == UNCHANGED lock
Brief         == lock = None /\ UNCHANGED lock

\* set_state and set_error inside a region that holds the mutex.
SetState(t, from, s, to) ==
  /\ pc[t] = from
  /\ state' = s
  /\ Goto(t, to)
  /\ UNCHANGED <<initialized, last_error, retry_count, hwVars, lock, monVars, ret, seen>>

SetError(t, from, e, to) ==
  /\ pc[t] = from
  /\ last_error' = e
  /\ Goto(t, to)
  /\ UNCHANGED <<initialized, state, retry_count, hwVars, lock, monVars, ret, seen>>

\* lock; set_state.
LockIn(t, from, s, to) ==
  /\ pc[t] = from
  /\ Acquire(t)
  /\ state' = s
  /\ Goto(t, to)
  /\ UNCHANGED <<initialized, last_error, retry_count, hwVars, monVars, ret, seen>>

\* set_state; unlock; return.
LeaveIn(t, from, s) ==
  /\ pc[t] = from
  /\ state' = s
  /\ Release /\ Return(t)
  /\ UNCHANGED <<initialized, last_error, retry_count, hwVars, monVars, seen>>

\* retry_count = 0.  Mutant: it is decremented.
ResetRetryDecrements == retry_count' = retry_count - 1
ResetRetry           == retry_count' = 0

\* retry_count++ after a test that read seen[t].  The counter is shared
\* without a common mutex: the increment may use the value tested or load
\* the counter again.
Increment(t) ==
  /\ retry_count' \in {seen[t] + 1, retry_count + 1}
  /\ seen' = [seen EXCEPT ![t] = 0]

\* Mutant: the tunnel goes first, under a running GPU.
TeardownTunnelFirst(t, from, to) ==
  /\ pc[t] = from
  /\ tunnel' = FALSE
  /\ Goto(t, to)
  /\ UNCHANGED <<initialized, policyVars, gpu, health, lock, monVars, ret, seen>>

\* teardown_gpu: the metrics are not cleared.
TeardownGpu(t, from, to) ==
  /\ pc[t] = from
  /\ gpu' = FALSE
  /\ Goto(t, to)
  /\ UNCHANGED <<initialized, policyVars, tunnel, health, lock, monVars, ret, seen>>

TeardownTunnel(t, from, to) ==
  /\ pc[t] = from
  /\ tunnel' = FALSE
  /\ Goto(t, to)
  /\ UNCHANGED <<initialized, policyVars, gpu, health, lock, monVars, ret, seen>>

ShuttingDown == \/ ret[Main] \in {"shutdown", "shutdown_safe"}
                \/ pc[Main] = "destroy"

\* A safe disconnection stops the monitor first.
Entry(op) == IF op = "safe" THEN "stop" ELSE op

\* A call of the public API. The application makes none while it shuts down.
Call(a, op) ==
  /\ pc[a] = "idle" /\ op \in AppOps
  /\ initialized /\ ~ShuttingDown
  /\ op = "connect" => <<state, last_error>> \in ConnectWhen
  /\ Goto(a, Entry(op))
  /\ Then(a, IF op = "safe" THEN "safe" ELSE "return")
  /\ UNCHANGED <<initialized, policyVars, hwVars, lock, monVars, seen>>

(***************************************************************************)
(* egpu_connect.                                                           *)
(***************************************************************************)
ConnectIgnored(t) ==
  /\ pc[t] = "connect" /\ ~initialized
  /\ Return(t)
  /\ UNCHANGED <<initialized, policyVars, hwVars, lock, monVars, seen>>

ConnectBegin(t) == initialized /\ LockIn(t, "connect", "DETECTING", "detect")

ConnectNotFound(t) ==
  \/ "detect" \in MayFail /\ SetError(t, "detect", "DEVICE_NOT_FOUND", "not_found")
  \/ LeaveIn(t, "not_found", "DISCONNECTED")

ConnectIncompatible(t) ==
  \/ "compat" \in MayFail
       /\ SetError(t, "detect", "INCOMPATIBLE_DEVICE", "incompatible")
  \/ ForceOnIncompatible
       /\ SetState(t, "incompatible", "FORCE_DISCONNECT", "rejected")
  \/ LeaveIn(t, "rejected", "DISCONNECTED")
  \/ ~ForceOnIncompatible /\ LeaveIn(t, "incompatible", "ERROR")

ConnectAuthenticate(t) == SetState(t, "detect", "AUTHENTICATING", "auth")

\* setup_pcie_tunnel succeeds.
TunnelUp(t) ==
  /\ pc[t] = "tunnel"
  /\ tunnel' = TRUE
  /\ Goto(t, "tunnelled")
  /\ UNCHANGED <<initialized, policyVars, gpu, health, lock, monVars, ret, seen>>

ConnectTunnel(t) ==
  \/ SetState(t, "auth", "TUNNEL_SETUP", "tunnel")
  \/ TunnelUp(t)
  \/ SetState(t, "tunnelled", "INITIALIZING", "init")

\* Mutants: one retry too many; a retry that is not counted.
MayRetryOff == AutoRecovery /\ retry_count <= MaxRetry
MayRetry    == AutoRecovery /\ retry_count < MaxRetry
CountRetryNever(t) == UNCHANGED <<retry_count, seen>>
CountRetry(t)      == Increment(t)

ConnectMayRetry(t) ==
  /\ pc[t] = "retry" /\ MayRetry
  /\ seen' = [seen EXCEPT ![t] = retry_count]
  /\ Goto(t, "retry_inc")
  /\ UNCHANGED <<initialized, policyVars, hwVars, lock, monVars, ret>>

\* The retry unlocks, sleeps and calls egpu_connect again.
ConnectRetry(t) ==
  /\ pc[t] = "retry_inc"
  /\ CountRetry(t)
  /\ Release /\ Goto(t, "connect")
  /\ UNCHANGED <<initialized, state, last_error, hwVars, monVars, ret>>

\* Mutant: the state is shown before its error is recorded.
ConnectTunnelShowsFirst(t) ==
  \/ "tunnel" \in MayFail /\ SetState(t, "tunnel", "ERROR", "no_tunnel")
  \/ SetError(t, "no_tunnel", "TUNNEL_FAILED", "retry")
  \/ ConnectMayRetry(t) \/ ConnectRetry(t)
  \/ ~MayRetry /\ LeaveIn(t, "retry", "DISCONNECTED")

ConnectTunnelFails(t) ==
  \/ "tunnel" \in MayFail /\ SetError(t, "tunnel", "TUNNEL_FAILED", "no_tunnel")
  \/ SetState(t, "no_tunnel", "ERROR", "retry")
  \/ ConnectMayRetry(t) \/ ConnectRetry(t)
  \/ ~MayRetry /\ LeaveIn(t, "retry", "DISCONNECTED")

\* initialize_gpu succeeds, and clears the metrics.
GpuUp(t) ==
  /\ pc[t] = "init"
  /\ gpu' = TRUE /\ health' = {}
  /\ Goto(t, "ready")
  /\ UNCHANGED <<initialized, policyVars, tunnel, lock, monVars, ret, seen>>

\* Unlock, then egpu_start_monitoring without the mutex.
ConnectDone(t) ==
  /\ pc[t] = "reset"
  /\ ResetRetry
  /\ Release /\ Goto(t, "start")
  /\ UNCHANGED <<initialized, state, last_error, hwVars, monVars, ret, seen>>

ConnectInit(t) ==
  \/ GpuUp(t)
  \/ SetState(t, "ready", "CONNECTED", "connected")
  \/ SetError(t, "connected", "NONE", "reset")
  \/ ConnectDone(t)

\* Mutant: the tunnel is not torn down.
ConnectInitLeaks(t) ==
  \/ "init" \in MayFail /\ SetError(t, "init", "GPU_INIT_FAILED", "no_gpu")
  \/ SetState(t, "no_gpu", "ERROR", "undone")
  \/ LeaveIn(t, "undone", "DISCONNECTED")

\* ERROR is shown over the tunnel until it is torn down.
ConnectInitFails(t) ==
  \/ "init" \in MayFail /\ SetError(t, "init", "GPU_INIT_FAILED", "no_gpu")
  \/ SetState(t, "no_gpu", "ERROR", "undo")
  \/ TeardownTunnel(t, "undo", "undone")
  \/ LeaveIn(t, "undone", "DISCONNECTED")

EgpuConnect(t) ==
  \/ ConnectIgnored(t) \/ ConnectBegin(t)
  \/ ConnectNotFound(t) \/ ConnectIncompatible(t) \/ ConnectAuthenticate(t)
  \/ ConnectTunnel(t) \/ ConnectTunnelFails(t)
  \/ ConnectInit(t) \/ ConnectInitFails(t)

(***************************************************************************)
(* egpu_start_monitoring: check, set and create, all without the mutex.    *)
(***************************************************************************)
\* Mutant: tests the handle instead of the flag.
StartCheckHandle(t) ==
  /\ pc[t] = "start"
  /\ IF monitor_thread # None THEN Return(t) ELSE Goto(t, "mark") /\ UNCHANGED ret
  /\ UNCHANGED <<initialized, policyVars, hwVars, lock, monVars, seen>>

StartCheck(t) ==
  /\ pc[t] = "start"
  /\ IF monitor_running THEN Return(t) ELSE Goto(t, "mark") /\ UNCHANGED ret
  /\ UNCHANGED <<initialized, policyVars, hwVars, lock, monVars, seen>>

StartMark(t) ==
  /\ pc[t] = "mark"
  /\ monitor_running' = TRUE
  /\ Goto(t, "create")
  /\ UNCHANGED <<initialized, policyVars, hwVars, lock, monitor_thread, joining, ret, seen>>

\* pthread_create overwrites the handle of an earlier monitor.
StartCreate(t) ==
  /\ pc[t] = "create"
  /\ \E m \in Monitors :
       /\ pc[m] = "free"
       /\ monitor_thread' = m
       /\ pc' = [pc EXCEPT ![m] = "wake", ![t] = Home(t)]
  /\ Then(t, "return")
  /\ UNCHANGED <<initialized, policyVars, hwVars, lock, monitor_running, joining, seen>>

\* No thread to be had (EAGAIN).
StartFails(t) ==
  /\ pc[t] = "create"
  /\ "thread" \in MayFail \/ \A m \in Monitors : pc[m] # "free"
  /\ monitor_running' = FALSE
  /\ Return(t)
  /\ UNCHANGED <<initialized, policyVars, hwVars, lock, monitor_thread, joining, seen>>

StartMonitoring(t) ==
  StartCheck(t) \/ StartMark(t) \/ StartCreate(t) \/ StartFails(t)

(***************************************************************************)
(* egpu_stop_monitoring, also the first step of the safe disconnection and *)
(* of the shutdown: ret says which code goes on after it.                  *)
(***************************************************************************)
AfterStop(a) == IF ret[a] = "shutdown" THEN "branch"
                ELSE IF ret[a] \in {"safe", "shutdown_safe"} THEN "safe"
                ELSE Home(a)

StopCheck(a) ==
  /\ pc[a] = "stop"
  /\ Goto(a, IF monitor_running THEN "clear" ELSE AfterStop(a))
  /\ UNCHANGED <<initialized, policyVars, hwVars, lock, monVars, ret, seen>>

\* Mutants: no join; the flag is left set.
StopNoJoin(a) ==
  /\ pc[a] = "clear"
  /\ monitor_running' = FALSE
  /\ Goto(a, AfterStop(a))
  /\ UNCHANGED <<initialized, policyVars, hwVars, lock, monitor_thread, joining, ret, seen>>
StopNoClear(a) ==
  /\ pc[a] = "clear"
  /\ Goto(a, "join")
  /\ UNCHANGED <<initialized, policyVars, hwVars, lock, monVars, ret, seen>>

StopClear(a) ==
  /\ pc[a] = "clear"
  /\ monitor_running' = FALSE
  /\ Goto(a, "join")
  /\ UNCHANGED <<initialized, policyVars, hwVars, lock, monitor_thread, joining, ret, seen>>

StopJoin(a) ==
  /\ pc[a] = "join"
  /\ joining' = [joining EXCEPT ![a] = monitor_thread]
  /\ Goto(a, "joined")
  /\ UNCHANGED <<initialized, policyVars, hwVars, lock, monitor_running, monitor_thread, ret, seen>>

\* pthread_join waits for the thread to end and releases its id.  A handle
\* that names no thread (never created, or joined already) returns an error,
\* which the code ignores.
StopJoined(a) ==
  /\ pc[a] = "joined"
  /\ \/ /\ joining[a] \in Monitors /\ pc[joining[a]] = "zombie"
        /\ pc' = [pc EXCEPT ![joining[a]] = "free", ![a] = AfterStop(a)]
     \/ /\ joining[a] \in Monitors => pc[joining[a]] = "free"
        /\ Goto(a, AfterStop(a))
  /\ joining' = [joining EXCEPT ![a] = None]
  /\ UNCHANGED <<initialized, policyVars, hwVars, lock, monitor_running, monitor_thread, ret, seen>>

StopMonitoring(a) == StopCheck(a) \/ StopClear(a) \/ StopJoin(a) \/ StopJoined(a)

(***************************************************************************)
(* egpu_safe_disconnect and egpu_force_disconnect.                         *)
(***************************************************************************)
\* The error is cleared after DISCONNECTED is shown.
SafeEnd(a) ==
  /\ pc[a] = "safe_clear"
  /\ last_error' = "NONE"
  /\ Release
  /\ IF ret[a] = "shutdown_safe" THEN Goto(a, "destroy") /\ UNCHANGED ret
                                 ELSE Return(a)
  /\ UNCHANGED <<initialized, state, retry_count, hwVars, monVars, seen>>

SafeDisconnect(a) ==
  \/ LockIn(a, "safe", "SAFE_DISCONNECT", "safe_gpu")
  \/ TeardownGpu(a, "safe_gpu", "safe_tunnel")
  \/ TeardownTunnel(a, "safe_tunnel", "safe_done")
  \/ SetState(a, "safe_done", "DISCONNECTED", "safe_clear")
  \/ SafeEnd(a)

\* Written before the mutex is taken, and no monitor is joined.
ForceBegin(t) ==
  /\ pc[t] = "force"
  /\ IF initialized
       THEN monitor_running' = FALSE /\ Goto(t, "force_lock") /\ UNCHANGED ret
       ELSE UNCHANGED monitor_running /\ Return(t)
  /\ UNCHANGED <<initialized, policyVars, hwVars, lock, monitor_thread, joining, seen>>

\* last_error keeps the reason; egpu_try_recovery goes on with egpu_connect.
ForceEnd(t) ==
  /\ pc[t] = "force_done"
  /\ state' = "DISCONNECTED"
  /\ Release
  /\ IF ret[t] = "reconnect" THEN Goto(t, "connect") /\ Then(t, "return")
                             ELSE Return(t)
  /\ UNCHANGED <<initialized, last_error, retry_count, hwVars, monVars, seen>>

ForceDisconnect(t) ==
  \/ ForceBegin(t)
  \/ LockIn(t, "force_lock", "FORCE_DISCONNECT", "force_gpu")
  \/ TeardownGpu(t, "force_gpu", "force_tunnel")
  \/ TeardownTunnel(t, "force_tunnel", "force_done")
  \/ ForceEnd(t)

(***************************************************************************)
(* egpu_try_recovery: the attempt counter is tested and incremented, and   *)
(* the resets are made, without the mutex.                                 *)
(***************************************************************************)
\* Mutant: > for >=.
ExhaustedOff == retry_count > MaxRetry
Exhausted    == retry_count >= MaxRetry

RecoverCheck(t) ==
  /\ pc[t] = "recover"
  /\ IF Exhausted
       THEN Goto(t, "force") /\ UNCHANGED seen
       ELSE Goto(t, "recover_inc") /\ seen' = [seen EXCEPT ![t] = retry_count]
  /\ UNCHANGED <<initialized, policyVars, hwVars, lock, monVars, ret>>

RecoverCount(t) ==
  /\ pc[t] = "recover_inc"
  /\ Increment(t)
  /\ Goto(t, "recover_mark")
  /\ UNCHANGED <<initialized, state, last_error, hwVars, lock, monVars, ret>>

RecoverMark(t) ==
  /\ pc[t] = "recover_mark"
  /\ Brief
  /\ state' = "RECOVERING"
  /\ Goto(t, "reset_link")
  /\ UNCHANGED <<initialized, last_error, retry_count, hwVars, monVars, ret, seen>>

\* A reset that may fail: on to the action for its success or its failure.
Reset(t, from, step, success, failure) ==
  /\ pc[t] = from
  /\ \/ Goto(t, success)
     \/ step \in MayFail /\ Goto(t, failure)
  /\ UNCHANGED <<initialized, policyVars, hwVars, lock, monVars, seen>>

ResetLink(t) == Reset(t, "reset_link", "link", "recover_link", "hard_reset")
                /\ UNCHANGED ret

\* The third step of the recovery disconnects by force and reconnects.
HardReset(t) == Reset(t, "hard_reset", "hard", "recover_hard", "force")
                /\ Then(t, IF pc'[t] = "force" THEN "reconnect" ELSE ret[t])

\* The last step of a successful recovery.  The link reset clears the fault
\* counters, the hard reset leaves them alone.
RecoverDone(t, from, cleared) ==
  /\ pc[t] = from
  /\ ResetRetry
  /\ health' = health \ cleared
  /\ Release /\ Return(t)
  /\ UNCHANGED <<initialized, state, last_error, tunnel, gpu, monVars, seen>>

RecoverLink(t) ==
  \/ LockIn(t, "recover_link", "CONNECTED", "relinked")
  \/ SetError(t, "relinked", "NONE", "relink_reset")
  \/ RecoverDone(t, "relink_reset", {"high", "critical", "corrupt"})

RecoverHard(t) ==
  \/ LockIn(t, "recover_hard", "CONNECTED", "rebuilt")
  \/ SetError(t, "rebuilt", "NONE", "rebuild_reset")
  \/ RecoverDone(t, "rebuild_reset", {})

TryRecovery(t) ==
  \/ RecoverCheck(t) \/ RecoverCount(t) \/ RecoverMark(t)
  \/ ResetLink(t) \/ RecoverLink(t) \/ HardReset(t) \/ RecoverHard(t)

(***************************************************************************)
(* monitor_thread_func.                                                    *)
(***************************************************************************)
\* The loop condition and the test after the sleep are one read: nothing but
\* the sleep lies between them.
MonitorWake(m) ==
  /\ pc[m] = "wake"
  /\ Goto(m, IF monitor_running THEN "poll" ELSE "zombie")
  /\ UNCHANGED <<initialized, policyVars, hwVars, lock, monVars, ret, seen>>

\* The state is tested before the mutex is taken.
MonitorPoll(m) ==
  /\ pc[m] = "poll"
  /\ Goto(m, IF state \in Up THEN "check" ELSE "wake")
  /\ UNCHANGED <<initialized, policyVars, hwVars, lock, monVars, ret, seen>>

\* The recovery and the forced disconnection run after the unlock.
\* Mutants: the policy flag is inverted; the overheating is only reported.
RecoveryInverted  == IF AutoRecovery THEN "wake" ELSE "recover"
Recovery          == IF AutoRecovery THEN "recover" ELSE "wake"
EmergencyIgnored  == "wake"
Emergency         == "force"

MonitorLock(m) ==
  /\ pc[m] = "check"
  /\ Acquire(m)
  /\ Goto(m, "look")
  /\ UNCHANGED <<initialized, policyVars, hwVars, monVars, ret, seen>>

\* The temperature, then the error rate of the link.
MonitorLook(m) ==
  \/ "hot" \in health /\ SetError(m, "look", "THERMAL_SHUTDOWN", "report_hot")
  \/ /\ "hot" \notin health /\ "critical" \in health
     /\ SetError(m, "look", "LINK_UNSTABLE", "report_fault")
  \/ /\ health \cap {"hot", "critical"} = {} /\ "high" \in health
     /\ SetState(m, "look", "DEGRADED", "verify")
  \/ /\ health \cap {"hot", "critical", "high"} = {}
     /\ SetState(m, "look", state, "verify")

\* The uncorrectable errors, also of a link just found degraded.
MonitorVerify(m) ==
  \/ "corrupt" \in health /\ SetError(m, "verify", "DATA_CORRUPTION", "report_fault")
  \/ /\ pc[m] = "verify" /\ "corrupt" \notin health
     /\ Release /\ Goto(m, "wake")
     /\ UNCHANGED <<initialized, policyVars, hwVars, monVars, ret, seen>>

\* What follows the report runs after the unlock.
MonitorReport(m, from, next) ==
  /\ pc[m] = from
  /\ state' = "ERROR"
  /\ Release /\ Goto(m, next)
  /\ UNCHANGED <<initialized, last_error, retry_count, hwVars, monVars, ret, seen>>

Monitor(m) ==
  \/ MonitorWake(m) \/ MonitorPoll(m)
  \/ MonitorLock(m) \/ MonitorLook(m) \/ MonitorVerify(m)
  \/ MonitorReport(m, "report_hot", Emergency)
  \/ MonitorReport(m, "report_fault", Recovery)

\* External: the hardware updates the metrics of a running GPU.  The count
\* of uncorrectable errors only grows.
Telemetry ==
  /\ gpu
  /\ \E h \in SUBSET Faults :
       /\ health' = h \cup (health \ Faults)
       /\ "critical" \in h => "high" \in h
       /\ "corrupt" \in health => "corrupt" \in h
  /\ UNCHANGED <<initialized, policyVars, tunnel, gpu, lock, monVars, pc, ret, seen>>

(***************************************************************************)
(* egpu_safety_shutdown and egpu_safety_init.                              *)
(***************************************************************************)
ShutdownBegin ==
  /\ initialized /\ \A a \in Apps : pc[a] = "idle"
  /\ Goto(Main, "stop") /\ Then(Main, "shutdown")
  /\ UNCHANGED <<initialized, policyVars, hwVars, lock, monVars, seen>>

\* Mutant: a degraded link is left up.
ShutdownBranchConnected ==
  /\ pc[Main] = "branch"
  /\ IF state = "CONNECTED" THEN Goto(Main, "stop") /\ Then(Main, "shutdown_safe")
                            ELSE Goto(Main, "destroy") /\ UNCHANGED ret
  /\ UNCHANGED <<initialized, policyVars, hwVars, lock, monVars, seen>>

\* The state is read without the mutex.
ShutdownBranch ==
  /\ pc[Main] = "branch"
  /\ IF state \in Up THEN Goto(Main, "stop") /\ Then(Main, "shutdown_safe")
                     ELSE Goto(Main, "destroy") /\ UNCHANGED ret
  /\ UNCHANGED <<initialized, policyVars, hwVars, lock, monVars, seen>>

ShutdownDestroy ==
  /\ pc[Main] = "destroy"
  /\ initialized' = FALSE
  /\ Return(Main)
  /\ UNCHANGED <<policyVars, hwVars, lock, monVars, seen>>

\* health and monitor_thread keep what they held.
SafetyInit ==
  /\ pc[Main] = "idle" /\ ~initialized /\ Reinit
  /\ initialized' = TRUE
  /\ state' = "DISCONNECTED" /\ last_error' = "NONE" /\ retry_count' = 0
  /\ monitor_running' = FALSE
  /\ lock' = None
  /\ UNCHANGED <<hwVars, monitor_thread, joining, pc, ret, seen>>

Shutdown == ShutdownBegin \/ ShutdownBranch \/ ShutdownDestroy

(***************************************************************************)
(* The specification.  Step(t) is everything a thread does inside a call   *)
(* or inside the monitor's loop.                                           *)
(***************************************************************************)
Step(t) ==
  \/ EgpuConnect(t) \/ StartMonitoring(t) \/ ForceDisconnect(t) \/ TryRecovery(t)
  \/ t \in Apps /\ (StopMonitoring(t) \/ SafeDisconnect(t))
  \/ t \in Monitors /\ Monitor(t)

Next ==
  \/ \E a \in Apps, op \in Ops : Call(a, op)
  \/ \E t \in Threads : Step(t)
  \/ Shutdown \/ SafetyInit
  \/ Telemetry

Spec == Init /\ [][Next]_vars

\* A thread that can run does: usleep returns, the mutex is released by its
\* owner, and the scheduler of a POSIX system starves no thread.  An
\* application's thread that waits for the mutex while the monitor locks it
\* again and again gets it: the monitor sleeps between two of its regions
\* (the heartbeat interval, or the reset of the link).
Fairness ==
  /\ \A t \in Threads : WF_vars(Step(t))
  /\ \A a \in Apps : SF_vars(lock = None /\ Step(a))
  /\ WF_vars(ShutdownBranch \/ ShutdownDestroy)
FairSpec == Spec /\ Fairness

(***************************************************************************)
(* Properties.                                                             *)
(***************************************************************************)
Live(m) == pc[m] \notin {"free", "zombie"}

Watched == monitor_running /\ \E m \in Monitors : Live(m)

TypeOK ==
  /\ initialized \in BOOLEAN
  /\ state \in States /\ last_error \in Errors /\ retry_count \in Nat
  /\ health \subseteq FaultKinds /\ tunnel \in BOOLEAN /\ gpu \in BOOLEAN
  /\ lock \in Threads \cup {None}
  /\ monitor_running \in BOOLEAN /\ monitor_thread \in Monitors \cup {None}
  /\ joining \in [Apps -> Monitors \cup {None}]
  /\ pc \in [Threads -> Labels] /\ ret \in [Threads -> Returns]
  /\ seen \in [Threads -> Nat]

\* A connection or disconnection under way owns the mutex, and no other
\* thread changes the state it has published: whoever sees such a state
\* knows that the owner of the mutex is still in its sequence (egpu_connect
\* and both disconnections hold g_egpu.lock from their first set_state to
\* their last), and the monitor's check never sees one.
LockedRegions ==
  /\ \A t \in Threads : pc[t] \in Locked <=> lock = t
  /\ \A t \in Threads : pc[t] \in DOMAIN Published => state = Published[pc[t]]
  /\ state \in Opening \cup Closing => lock # None /\ pc[lock] \in DOMAIN Published

\* A fault is never shown without its error, whoever reads state and
\* last_error and whenever; and once the mutex is free again, a connected
\* eGPU shows none (a new connection is shown before the old error is
\* cleared, so a reader without the mutex may see both).
ErrorExplained ==
  /\ state = "ERROR" => last_error # "NONE"
  /\ state \in Up /\ lock = None => last_error = "NONE"

\* At most one monitor runs, and it is the one egpu_stop_monitoring joins:
\* pthread_join is given a thread that exists and that no other call joins.
JoinsKnownThread ==
  \A a \in Apps : pc[a] = "joined" =>
    /\ joining[a] \in Monitors /\ pc[joining[a]] # "free"
    /\ \A b \in Apps \ {a} : joining[b] # joining[a]
OneMonitor ==
  /\ \A m \in Monitors : Live(m) => m = monitor_thread
  /\ JoinsKnownThread

\* Whenever no call is in progress, a connected eGPU has a live monitor that
\* has not been told to stop.
WatchedWhileUp ==
  state \in Up /\ (\A a \in Apps : pc[a] = "idle") => Watched

\* Once egpu_safety_shutdown has destroyed the mutex, no monitor is left to
\* lock it and the link is released.
ShutdownClean ==
  ~initialized => ~tunnel /\ ~gpu /\ \A m \in Monitors : ~Live(m)

\* Recoveries in a row never exceed the policy's maximum.
RetryBudget == retry_count <= MaxRetry

\* However the recoveries of several threads race for the counter, each
\* thread exceeds the maximum by at most one attempt.
RetryOvershoot == retry_count + 1 <= MaxRetry + Cardinality(Threads)

\* Once disconnected, the eGPU is neither faulted nor up again before
\* egpu_connect is called: no late check or recovery brings it back.
DownUntilConnect ==
  [][state = "DISCONNECTED" => state' \in {"DETECTING"} \cup Closing]_state

\* Every API call returns: no join, retry or recovery keeps it forever.
CallsReturn == \A a \in Apps : pc[a] # "idle" ~> pc[a] = "idle"

\* A fault the monitor reports is always acted on.
FaultsHandled == state \in Faulted ~> state \notin Faulted

\* A watched GPU over its thermal limit is disconnected, unless it cools.
OverheatDisconnects ==
  state \in Up /\ Watched /\ "hot" \in health
    ~> state = "DISCONNECTED" \/ "hot" \notin health

\* Seen from outside, the manager is the life cycle its header documents.
Phase == CASE state = "DISCONNECTED" -> "down"
           [] state \in Opening      -> "opening"
           [] state \in Up           -> "up"
           [] state \in Faulted      -> "faulted"
           [] state \in Closing      -> "closing"
Hardware == CASE tunnel /\ gpu   -> "on"
              [] tunnel /\ ~gpu  -> "tunnel"
              [] ~tunnel /\ gpu  -> "orphan"
              [] ~tunnel /\ ~gpu -> "off"
Lifecycle == INSTANCE EgpuLifecycle WITH phase <- Phase, hw <- Hardware
ImplementsLifecycle == Lifecycle!Spec
=============================================================================
