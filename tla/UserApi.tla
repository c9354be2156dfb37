------------------------------ MODULE UserApi ------------------------------
(***************************************************************************)
(* The public API (src/userspace/lib/cudabridge.c) over the CUDA runtime,  *)
(* and an application that calls it from one thread: it frees the pointers *)
(* it was given, perhaps late or twice, host buffers once, asks for copies *)
(* that fit its buffers, and uses no stream after the session that made    *)
(* it.  The API has an initialised flag and a last error of its own.       *)
(***************************************************************************)
EXTENDS CudaRuntime

VARIABLES
  g_initialized,  \* the flag of cudabridge.c
  g_last_error,   \* its last error
  caller,         \* the call that waits for initialisation or shutdown
  returned,       \* what the runtime answered to the last call, or "invalid"
  given,          \* device pointers the application was ever given
  held            \* host buffers it has not freed

apiVars == <<g_initialized, g_last_error, caller, returned, given, held>>
allVars == <<rtVars, apiVars>>

\* Calls that initialise the runtime; cbGetDeviceCount does as cbInit does.
ViaCuda   == {"cbGetDevice", "cbSetDevice", "cbGetDeviceProperties"}

\* cuda_to_cb_error; an argument the API refuses itself is "invalid".
CbError(err) ==
  CASE err \in {"success", "memory", "device", "nodevice"} -> err
    [] err \in {"value", "invalid"} -> "value"
    [] err = "init" -> "notinitialized"
    [] OTHER -> "unknown"

SET_ERROR(err) == g_last_error' = IF err = "success" THEN g_last_error ELSE CbError(err)

\* A call comes back with an error, and does or does not keep it.
Recorded(err)   == returned' = err /\ SET_ERROR(err)
Unrecorded(err) == returned' = err /\ UNCHANGED g_last_error

\* The API refuses an argument: the runtime is not called.
Invalid == Recorded("invalid") /\ UNCHANGED <<rtVars, g_initialized, given, held>>

Idle == caller = "none" /\ stage \in {"down", "up"} /\ UNCHANGED caller
Keeps == UNCHANGED <<g_initialized, given, held>>

-----------------------------------------------------------------------------
(***************************************************************************)
(* Initialisation and shutdown.                                            *)
(***************************************************************************)
\* cbInit trusts its own flag; the runtime, when it is up already, answers
\* at once.
cbInit ==
  /\ caller = "none"
  /\ IF stage = "down" /\ ~g_initialized
       THEN /\ stage' = "begin" /\ caller' = "cbInit"
            /\ UNCHANGED <<g_initialized, g_last_error, returned>>
       ELSE /\ stage \in {"down", "up"} /\ g_initialized' = TRUE
            /\ Unrecorded("success")
            /\ UNCHANGED <<stage, caller>>
  /\ UNCHANGED <<gpuVars, linkVars, tableVars, next_router, simulation_mode, last_error, given, held>>

\* The calls that initialise the runtime behind the flag's back.
AutoInit(call) ==
  /\ caller = "none" /\ call \in ViaCuda /\ stage = "down"
  /\ stage' = "begin" /\ caller' = call
  /\ UNCHANGED <<gpuVars, linkVars, tableVars, next_router, simulation_mode, last_error>>
  /\ UNCHANGED <<g_initialized, g_last_error, returned, given, held>>

\* cudaBridgeInit returns to the call that made it: device 0 exists after a
\* success only.
InitReturns ==
  LET ok  == stage = "up"
      err == IF ok \/ caller = "cbGetDevice" THEN "success"
             ELSE IF caller = "cbInit" THEN last_error ELSE "device"
  IN
  /\ stage \in {"up", "failed"} /\ caller \in {"cbInit"} \cup ViaCuda
  /\ stage' = (IF ok THEN "up" ELSE "down") /\ caller' = "none"
  /\ IF caller \in ViaCuda THEN SetError(err) ELSE UNCHANGED last_error
  /\ IF caller = "cbGetDeviceProperties" THEN Unrecorded(err) ELSE Recorded(err)
  /\ g_initialized' = (g_initialized \/ (ok /\ caller = "cbInit"))
  /\ UNCHANGED <<gpuVars, linkVars, tableVars, next_router, simulation_mode, given, held>>

\* Device queries of a runtime that is up; there is only device 0.
cbGetDevice == Idle /\ stage = "up" /\ Unrecorded("success")
                 /\ UNCHANGED rtVars /\ Keeps
cbSetDevice(device) ==
  LET err == IF device = 0 THEN "success" ELSE "device" IN
  /\ Idle /\ stage = "up"
  /\ SetError(err) /\ Recorded(err)
  /\ UNCHANGED <<gpuVars, linkVars, tableVars, stageVars>> /\ Keeps
cbGetDeviceProperties(device) ==
  LET err == IF device = 0 THEN "success" ELSE "device" IN
  /\ Idle /\ stage = "up"
  /\ SetError(err) /\ Unrecorded(err)
  /\ UNCHANGED <<gpuVars, linkVars, tableVars, stageVars>> /\ Keeps

\* Nothing to do unless the flag is set.
cbShutdown ==
  /\ caller = "none" /\ stage \in {"down", "up"}
  /\ IF g_initialized
       THEN /\ stage' = "stop_gpu" /\ caller' = "cbShutdown"
            /\ UNCHANGED <<g_last_error, returned>>
       ELSE Unrecorded("success") /\ UNCHANGED <<stage, caller>>
  /\ UNCHANGED <<gpuVars, linkVars, tableVars, next_router, simulation_mode, last_error>>
  /\ UNCHANGED <<g_initialized, given, held>>

ShutdownReturns ==
  /\ stage = "down" /\ caller = "cbShutdown" /\ caller' = "none"
  /\ g_initialized' = FALSE /\ g_last_error' = "success"
  /\ returned' = "success"
  /\ UNCHANGED <<rtVars, given, held>>

-----------------------------------------------------------------------------
(***************************************************************************)
(* Memory.                                                                 *)
(***************************************************************************)
cbMalloc(n) ==
  /\ Idle
  /\ \/ n = 0 /\ Invalid
     \/ /\ n # 0
        /\ \E err \in Errors :
             /\ cudaMalloc(n, err) /\ Recorded(err)
             /\ given' = IF err = "success" THEN given \cup {next_gpu_addr} ELSE given
        /\ UNCHANGED <<g_initialized, held>>

\* Of a device pointer, or of a managed buffer.
cbFree(p) ==
  /\ Idle /\ p \in given \cup held
  /\ \E err \in Errors :
       /\ cudaFree(p, err) /\ Unrecorded(err)
       /\ held' = IF err = "success" THEN held \ {p} ELSE held
  /\ UNCHANGED <<g_initialized, given>>

cbMemcpy(dst, src, n, kind) ==
  /\ Idle
  /\ \/ n = 0 /\ Invalid
     \/ /\ n # 0
        /\ \E err \in Errors :
             cudaMemcpy(dst, src, n, kind, err) /\ Recorded(err)
        /\ Keeps

\* On any stream the copy is made at once.
cbMemcpyAsync(dst, src, n, kind) ==
  /\ Idle
  /\ \E err \in Errors :
       cudaMemcpy(dst, src, n, kind, err) /\ Unrecorded(err)
  /\ Keeps

cbMemset(dst, v, n) ==
  /\ Idle
  /\ \E err \in Errors : cudaMemset(dst, v, n, err) /\ Unrecorded(err)
  /\ Keeps

\* cbMallocHost and cbMallocManaged, which are alike.
cbMallocHost(n) ==
  /\ Idle
  /\ \/ n = 0 /\ Invalid
     \/ /\ n # 0
        /\ \E h \in Hosts, err \in Errors :
             /\ cudaMallocHost(n, h, err) /\ Unrecorded(err)
             /\ held' = IF err = "success" THEN held \cup {h} ELSE held
        /\ UNCHANGED <<g_initialized, given>>

cbFreeHost(p) ==
  /\ Idle /\ p \in held
  /\ \E err \in Errors : cudaFreeHost(p, err) /\ Unrecorded(err)
  /\ held' = held \ {p}
  /\ UNCHANGED <<g_initialized, given>>

-----------------------------------------------------------------------------
(***************************************************************************)
(* Streams, launches, errors.                                              *)
(***************************************************************************)
cbStreamCreate ==
  /\ Idle
  /\ \E err \in Errors : cudaStreamCreate(err) /\ Unrecorded(err)
  /\ Keeps

\* A stream of this session, or any while the runtime is down.
OwnStream(s) == s \in streams /\ (gpu_ready => s \in Range(channels))

cbStreamDestroy(s) ==
  /\ Idle /\ OwnStream(s)
  /\ \E err \in Errors : cudaStreamDestroy(s, err) /\ Unrecorded(err)
  /\ Keeps

cbLaunchKernel(s, fits) ==
  /\ Idle /\ (s = 0 \/ OwnStream(s))
  /\ \E err \in Errors :
       cudaLaunchKernel(s # 0, fits, err) /\ Recorded(err)
  /\ Keeps

\* cbMemGetInfo, cbDeviceSynchronize, cbDeviceReset and cbStreamSynchronize.
cbQuery ==
  /\ Idle
  /\ \E err \in Errors :
       \/ cudaMemGetInfo(err) /\ Unrecorded(err)
       \/ cudaDeviceSynchronize(err) /\ Unrecorded(err)
       \/ cudaDeviceReset(err) /\ Unrecorded(err)
       \/ /\ \E s \in streams : OwnStream(s)
          /\ cudaStreamSynchronize(err) /\ Unrecorded(err)
  /\ Keeps

\* cbGetLastError resets the API's register; the runtime's is not asked.
cbGetLastError ==
  /\ Idle /\ g_last_error' = "success"
  /\ returned' = "success"
  /\ UNCHANGED rtVars /\ Keeps

-----------------------------------------------------------------------------
Init ==
  /\ RuntimeStart
  /\ g_initialized = FALSE /\ g_last_error = "success" /\ caller = "none"
  /\ returned = "success"
  /\ given = {} /\ held = {}

\* Memory and streams: the application passes what it was given.
MemoryCalls ==
  \/ \E n \in Sizes : cbMalloc(n) \/ cbMallocHost(n)
  \/ \E p \in given \cup held : cbFree(p) \/ cbFreeHost(p)
  \/ \E p \in given, n \in Sizes :
       \/ \E kind \in {"h2h", "h2d", "d2h", "other"} :
            cbMemcpy(p, p, n, kind) \/ cbMemcpyAsync(p, p, n, kind)
       \/ \E q \in given : cbMemcpy(p, q, n, "d2d") \/ cbMemcpyAsync(p, q, n, "d2d")
       \/ \E v \in Values : cbMemset(p, v, n)

StreamCalls ==
  \/ cbStreamCreate
  \/ \E s \in streams : cbStreamDestroy(s)
  \/ \E s \in streams \cup {0}, fits \in BOOLEAN : cbLaunchKernel(s, fits)

Next ==
  \/ (InitStep \/ StopStep) /\ UNCHANGED apiVars
  \/ cbInit
  \/ \E call \in ViaCuda : AutoInit(call)
  \/ InitReturns \/ cbShutdown \/ ShutdownReturns
  \/ cbGetDevice
  \/ \E device \in 0 .. 1 : cbSetDevice(device) \/ cbGetDeviceProperties(device)
  \/ MemoryCalls \/ StreamCalls \/ cbQuery \/ cbGetLastError

Spec == Init /\ [][Next]_allVars

-----------------------------------------------------------------------------
(***************************************************************************)
(* Properties.                                                             *)
(***************************************************************************)
\* The types of all variables.
RtTypeOK ==
  /\ GpuTypeOK /\ LinksTypeOK
  /\ stage \in Stages /\ caller \in ViaCuda \cup {"none", "cbInit", "cbShutdown"}
  /\ Len(host_allocs) <= MaxHostAllocs
  /\ simulation_mode \in BOOLEAN /\ g_initialized \in BOOLEAN
  /\ last_error \in Errors /\ returned \in Errors \cup {"invalid"}

\* What the application holds is accounted for: every tracked host buffer is
\* tracked once and not freed yet, and no late or double cbFree, of this
\* session or an earlier one, reaches the push buffer of a channel.
HandlesSound ==
  /\ RtTypeOK
  /\ \A i, j \in DOMAIN host_allocs : host_allocs[i] = host_allocs[j] => i = j
  /\ Range(host_allocs) \cup held \subseteq host_live
  /\ PushBuffers /\ Disjoint

\* Between calls the runtime is either wholly up or wholly down, after every
\* failed step of initialisation and its undoing: BARs are mapped exactly
\* for a GPU of hardware, the flag of the API implies a runtime that is up,
\* and a runtime that is down holds no C object of the links.
WhollyUpOrDown ==
  /\ ObjectsInTables /\ TunnelsSound
  /\ caller = "none" =>
       /\ stage \in {"down", "up"} /\ (g_initialized => stage = "up")
       /\ gpu_ready = (stage = "up")
       /\ stage = "up" /\ ~simulation_mode => devices # <<>> /\ devices[1].mapped = {0, 1}
       /\ stage = "down" => ~usb4_up /\ objects = 0

\* A call that fails gives nothing and takes nothing: device memory, its
\* account and the host buffers stay as they were.  (cbLaunchKernel,
\* the one that returns "launch", may keep the default channel it made.)
FailedCallsKeepState ==
  [][caller = "none" /\ caller' = "none" /\ returned' # "success" =>
       /\ UNCHANGED <<vram_free, host_allocs, host_live, given, held>>
       /\ returned' # "launch" => UNCHANGED <<allocations, channels>>]_allVars

\* A channel lives until its own stream is destroyed or the runtime is shut
\* down: destroying one stream leaves the channels of the others alone.
ChannelsFollowStreams ==
  [][gpu_ready' => \A ch \in Range(channels) \ Range(channels') :
                     ch \in streams \ streams']_allVars

\* The runtime keeps an error: a call that fails leaves its own in the register
\* (set_error), and no step takes it out again but another failure, the end of
\* an initialisation or that of a shutdown.  A call that succeeds, or one that
\* the API refuses, does not.
Failed       == caller = "none" /\ returned \notin {"success", "invalid"}
InitEnds     == /\ stage # stage' /\ stage' \in {"up", "failed"}
                /\ stage' = "up" <=> last_error' = "success"
ShutdownEnds == stage # stage' /\ stage' = "down" /\ last_error' = "success"
CudaErrorKept ==
  [][/\ Failed' => last_error' = returned'
     /\ last_error' # last_error => Failed' \/ InitEnds \/ ShutdownEnds]_allVars

\* cbGetLastError gives the error of the call before it.  (cudabridge.h says
\* so; the calls that return without SET_ERROR break it.)
LastErrorKept == returned # "success" => g_last_error = CbError(returned)

=============================================================================
