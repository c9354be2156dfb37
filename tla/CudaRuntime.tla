---------------------------- MODULE CudaRuntime ----------------------------
(***************************************************************************)
(* The CUDA runtime (src/cuda/runtime/cuda_runtime.c) over the GPU driver  *)
(* and the link stack: initialisation and shutdown step by step with what  *)
(* each step undoes when it fails, device and host memory, streams,        *)
(* launches and the last-error register.  Each API function is an operator *)
(* of its arguments and of err, the error it returns.                      *)
(***************************************************************************)
EXTENDS NvGpu, Links

CONSTANTS
  Simulation,    \* may CUDABRIDGE_SIMULATION allow a virtual GPU, forbid one?
  Hosts,         \* addresses posix_memalign can return; none is a GPU address
  MaxHostAllocs, \* MAX_HOST_ALLOCS
  MaxMemset,     \* 1 GB
  MallocFails    \* where malloc may fail: a subset of Mallocs

Mallocs == {"context", "virtual", "alloc", "host", "stream", "memset"}

ASSUME RuntimeAssumption ==
  /\ Simulation \in SUBSET BOOLEAN \ {{}} /\ MallocFails \subseteq Mallocs
  /\ Hosts \cap (0 .. AddrLimit) = {}
  /\ {MaxHostAllocs, MaxMemset} \subseteq Nat

VARIABLES
  stage,           \* where initialisation or shutdown is
  next_router,     \* loop variable of the tunnel loop
  simulation_mode, \* g_state.simulation_mode
  last_error,      \* g_state.last_error
  host_allocs,     \* g_state.host_allocs[0 .. host_alloc_count - 1]
  host_live,       \* host buffers allocated and not freed
  streams          \* handles of streams, each by its channel

tableVars == <<host_allocs, host_live, streams>>
stageVars == <<stage, next_router, simulation_mode>>
rtVars    == <<gpuVars, linkVars, tableVars, stageVars, last_error>>

Stages == {"down", "begin", "usb4", "scanned", "tunnels", "bus", "gpu", "virtual",
           "undo_usb4", "undo_pcie", "failed", "up", "stop_gpu", "stop_pcie", "stop_usb4"}

Errors == {"success", "value", "memory", "init", "device", "nodevice",
           "direction", "launch", "unknown"}

\* set_error, before an error is returned.  Mutant: before a success as well.
SetErrorClears(err) == last_error' = err
SetError(err) == last_error' = IF err = "success" THEN last_error ELSE err

-----------------------------------------------------------------------------
(***************************************************************************)
(* cudaBridgeInit, from stage "begin" to "up" or "failed".                 *)
(***************************************************************************)
InitController ==
  /\ stage = "begin"
  /\ \/ ControllerInit /\ stage' = "usb4" /\ UNCHANGED last_error
     \/ ControllerInitFails /\ stage' = "failed" /\ last_error' = "init"
  /\ UNCHANGED <<gpuVars, tableVars, next_router, simulation_mode>>

InitScan ==
  /\ stage = "usb4" /\ stage' = "scanned"
  /\ ScanRouters
  /\ UNCHANGED <<gpuVars, tableVars, next_router, simulation_mode, last_error>>

InitPcie ==
  /\ stage = "scanned" /\ stage' = "tunnels" /\ next_router' = 1
  /\ PcieInit
  /\ UNCHANGED <<gpuVars, tableVars, simulation_mode, last_error>>

\* A tunnel to each router in turn; one that cannot be made is passed over.
InitTunnels ==
  /\ stage = "tunnels"
  /\ IF next_router <= Len(routers)
       THEN /\ \/ CreateTunnel(routers[next_router])
               \/ CreateTunnelFails(routers[next_router])
            /\ next_router' = next_router + 1 /\ UNCHANGED stage
       ELSE /\ next_router' = 1 /\ stage' = "bus"
            /\ UNCHANGED linkVars
  /\ UNCHANGED <<gpuVars, tableVars, simulation_mode, last_error>>

InitBus ==
  /\ stage = "bus" /\ stage' = "gpu"
  /\ ScanBus
  /\ UNCHANGED <<gpuVars, tableVars, next_router, simulation_mode, last_error>>

\* nv_gpu_init of the device on the bus; without a GPU, a virtual one or the
\* way back.
InitGpu ==
  /\ stage = "gpu"
  /\ \/ /\ devices # <<>>
        /\ AttachDevice(1) /\ GpuInit
        /\ stage' = "up" /\ last_error' = "success"
     \/ /\ \/ devices = <<>> /\ UNCHANGED linkVars
           \/ devices # <<>> /\ "context" \in MallocFails /\ UNCHANGED linkVars
           \/ devices # <<>> /\ AttachFails(1)
        /\ stage' \in {IF allowed THEN "virtual" ELSE "undo_usb4" : allowed \in Simulation}
        /\ UNCHANGED <<gpu_ready, next_gpu_addr, vram_free, allocations, channels, last_error>>
  /\ UNCHANGED <<host, tableVars, next_router, simulation_mode>>

\* When there is no memory for the virtual GPU, the links are not undone.
InitVirtual ==
  /\ stage = "virtual"
  /\ \/ /\ GpuInit /\ UNCHANGED host
        /\ simulation_mode' = TRUE /\ stage' = "up" /\ last_error' = "success"
     \/ /\ "virtual" \in MallocFails
        /\ stage' = "failed" /\ last_error' = "memory"
        /\ UNCHANGED <<gpuVars, simulation_mode>>
  /\ UNCHANGED <<linkVars, tableVars, next_router>>

\* The way back: the controller, then the bus.  Mutant: the controller only.
UndoInitHalf ==
  /\ stage = "undo_usb4" /\ stage' = "failed" /\ last_error' = "nodevice"
  /\ ControllerShutdown
  /\ UNCHANGED <<gpuVars, tableVars, next_router, simulation_mode>>
UndoInit ==
  /\ \/ /\ stage = "undo_usb4" /\ stage' = "undo_pcie"
        /\ ControllerShutdown /\ UNCHANGED last_error
     \/ /\ stage = "undo_pcie" /\ stage' = "failed"
        /\ PcieShutdown /\ last_error' = "nodevice"
  /\ UNCHANGED <<gpuVars, tableVars, next_router, simulation_mode>>

InitStep == InitController \/ InitScan \/ InitPcie \/ InitTunnels \/ InitBus
              \/ InitGpu \/ InitVirtual \/ UndoInit

(***************************************************************************)
(* cudaBridgeShutdown, from stage "stop_gpu" to "down": GPU, bus,          *)
(* controller, and then the whole of g_state is zeroed, with the table of  *)
(* host buffers and the error in it.                                       *)
(***************************************************************************)
StopGpu ==
  /\ stage = "stop_gpu" /\ stage' = "stop_pcie"
  /\ GpuShutdown
  /\ IF simulation_mode THEN UNCHANGED linkVars ELSE DetachDevice(1)
  /\ UNCHANGED <<host, tableVars, next_router, simulation_mode, last_error>>

StopPcie ==
  /\ stage = "stop_pcie" /\ stage' = "stop_usb4"
  /\ PcieShutdown
  /\ UNCHANGED <<gpuVars, tableVars, next_router, simulation_mode, last_error>>

StopController ==
  /\ stage = "stop_usb4" /\ stage' = "down"
  /\ ControllerShutdown
  /\ simulation_mode' = FALSE /\ last_error' = "success" /\ host_allocs' = <<>>
  /\ UNCHANGED <<gpuVars, host_live, streams, next_router>>

StopStep == StopGpu \/ StopPcie \/ StopController

-----------------------------------------------------------------------------
(***************************************************************************)
(* Device memory.                                                          *)
(***************************************************************************)
\* get_current_gpu finds none.
NoGpu(err) == err = "device" /\ ~gpu_ready /\ UNCHANGED gpuVars

cudaMalloc(n, err) ==
  /\ \/ n = 0 /\ err = "value" /\ UNCHANGED gpuVars
     \/ n # 0 /\ NoGpu(err)
     \/ /\ n # 0 /\ gpu_ready /\ Refused(n, "video")
        /\ err = "memory" /\ UNCHANGED gpuVars
     \/ /\ err = "memory" /\ "alloc" \in MallocFails
        /\ AllocMemoryFails(n, "video") /\ UNCHANGED <<gpu_ready, channels, host>>
     \/ /\ err = "success"
        /\ AllocMemory(n, "video") /\ UNCHANGED <<gpu_ready, channels, host>>
  /\ SetError(err) /\ UNCHANGED <<linkVars, tableVars, stageVars>>

\* A tracked host buffer is released, with its entry.  Mutant: the entry
\* stays.
UntrackKeepsEntry(p) == host_live' = host_live \ {p} /\ UNCHANGED host_allocs
Untrack(p) ==
  /\ host_allocs' = RemoveFirst(host_allocs, p)
  /\ host_live' = host_live \ {p}

\* Anything that is no host buffer is given to the driver, without size and
\* type.
cudaFree(p, err) ==
  /\ IF p \in Range(host_allocs)
       THEN err = "success" /\ Untrack(p) /\ UNCHANGED gpuVars
       ELSE /\ \/ NoGpu(err)
               \/ /\ err = "success"
                  /\ FreeMemory(p, 0, "system") /\ UNCHANGED <<gpu_ready, channels, host>>
            /\ UNCHANGED <<host_allocs, host_live>>
  /\ SetError(err) /\ UNCHANGED <<linkVars, streams, stageVars>>

\* kind: "h2h", "h2d", "d2h", "d2d" or one that is none of the directions.
cudaMemcpy(dst, src, n, kind, err) ==
  /\ \/ n = 0 /\ err = "value" /\ UNCHANGED gpuVars
     \/ n # 0 /\ kind # "h2h" /\ NoGpu(err)
     \/ n # 0 /\ kind = "h2h" /\ err = "success" /\ UNCHANGED gpuVars
     \/ /\ n # 0 /\ gpu_ready /\ kind \notin {"h2h", "h2d", "d2h", "d2d"}
        /\ err = "direction" /\ UNCHANGED gpuVars
     \/ /\ err = "success" /\ UNCHANGED gpu_ready
        /\ \/ kind = "h2d" /\ MemcpyH2D(dst, host, n)
           \/ kind = "d2h" /\ MemcpyD2H(src, n)
           \/ kind = "d2d" /\ MemcpyD2D(dst, src, n)
  /\ SetError(err) /\ UNCHANGED <<linkVars, tableVars, stageVars>>

\* Through a buffer of its own, which is filled and copied.
cudaMemset(dst, v, n, err) ==
  /\ \/ (n = 0 \/ n > MaxMemset) /\ err = "value" /\ UNCHANGED gpuVars
     \/ /\ n \in 1 .. MaxMemset /\ "memset" \in MallocFails
        /\ err = "memory" /\ UNCHANGED gpuVars
     \/ n \in 1 .. MaxMemset /\ NoGpu(err)
     \/ /\ err = "success" /\ UNCHANGED gpu_ready
        /\ n <= MaxMemset /\ MemcpyH2D(dst, [i \in 0 .. (n - 1) |-> v], n)
  /\ SetError(err) /\ UNCHANGED <<linkVars, tableVars, stageVars>>

\* Calls that need a GPU and change nothing the model keeps: cudaMemGetInfo,
\* cudaDeviceSynchronize, cudaDeviceReset.
NeedsGpu(err) ==
  /\ err = IF gpu_ready THEN "success" ELSE "device"
  /\ SetError(err) /\ UNCHANGED <<gpuVars, linkVars, tableVars, stageVars>>
cudaMemGetInfo(err)        == NeedsGpu(err)
cudaDeviceSynchronize(err) == NeedsGpu(err)
cudaDeviceReset(err)       == NeedsGpu(err)

(***************************************************************************)
(* Host memory, which needs no GPU and no initialisation.                  *)
(***************************************************************************)
\* The table full, a buffer is handed out untracked.
TrackHostAlloc(h) ==
  host_allocs' = IF Len(host_allocs) < MaxHostAllocs THEN Append(host_allocs, h)
                                                     ELSE host_allocs

cudaMallocHost(n, h, err) ==
  /\ \/ /\ n = 0 /\ err = "value" /\ UNCHANGED <<host_allocs, host_live>>
     \/ /\ n # 0 /\ "host" \in MallocFails
        /\ err = "memory" /\ UNCHANGED <<host_allocs, host_live>>
     \/ /\ n # 0 /\ h \in Hosts \ host_live /\ err = "success"
        /\ TrackHostAlloc(h) /\ host_live' = host_live \cup {h}
  /\ SetError(err) /\ UNCHANGED <<gpuVars, linkVars, streams, stageVars>>

\* A pointer that is not tracked is not freed, and that is a success.
cudaFreeHost(p, err) ==
  /\ err = "success"
  /\ IF p \in Range(host_allocs) THEN Untrack(p) ELSE UNCHANGED <<host_allocs, host_live>>
  /\ UNCHANGED <<gpuVars, linkVars, streams, stageVars, last_error>>

(***************************************************************************)
(* Streams and launches.                                                   *)
(***************************************************************************)
cudaStreamCreate(err) ==
  /\ \/ NoGpu(err) /\ UNCHANGED streams
     \/ /\ gpu_ready /\ "stream" \in MallocFails
        /\ err = "memory" /\ UNCHANGED <<gpuVars, streams>>
     \/ /\ gpu_ready /\ ChannelRefused
        /\ err = "unknown" /\ UNCHANGED <<gpuVars, streams>>
     \/ /\ err = "unknown" /\ "alloc" \in MallocFails
        /\ CreateChannelFails /\ UNCHANGED <<gpu_ready, host, streams>>
     \/ /\ err = "success" /\ UNCHANGED <<gpu_ready, host>>
        /\ CreateChannel /\ streams' = streams \cup {next_gpu_addr}
  /\ SetError(err) /\ UNCHANGED <<linkVars, host_allocs, host_live, stageVars>>

\* Without a GPU the handle is released all the same.  Mutant: the first
\* channel is destroyed, whichever it is.
cudaStreamDestroyFirst(s, err) ==
  /\ \/ NoGpu(err)
     \/ err = "success" /\ gpu_ready /\ DestroyChannel(Head(channels))
        /\ UNCHANGED <<gpu_ready, host>>
  /\ streams' = streams \ {s}
  /\ SetError(err) /\ UNCHANGED <<linkVars, host_allocs, host_live, stageVars>>
cudaStreamDestroy(s, err) ==
  /\ \/ NoGpu(err)
     \/ /\ err = "success"
        /\ DestroyChannel(s) /\ UNCHANGED <<gpu_ready, host>>
  /\ streams' = streams \ {s}
  /\ SetError(err) /\ UNCHANGED <<linkVars, host_allocs, host_live, stageVars>>

\* For a stream of this session, nv_gpu_channel_sync finds nothing pending.
cudaStreamSynchronize(err) == NeedsGpu(err)

\* A launch on no stream takes the first channel there is, and makes one when
\* there is none, which it keeps.  fits: are the dimensions within limits?
cudaLaunchKernel(hasStream, fits, err) ==
  /\ \/ NoGpu(err)
     \/ /\ gpu_ready /\ (hasStream \/ channels # <<>>)
        /\ err = IF fits THEN "success" ELSE "launch"
        /\ UNCHANGED gpuVars
     \/ /\ ~hasStream /\ channels = <<>>
        /\ \/ err = (IF fits THEN "success" ELSE "launch") /\ CreateChannel
           \/ err = "launch" /\ "alloc" \in MallocFails /\ CreateChannelFails
           \/ /\ gpu_ready /\ ChannelRefused /\ err = "launch"
              /\ UNCHANGED <<next_gpu_addr, vram_free, allocations, channels>>
        /\ UNCHANGED <<gpu_ready, host>>
  /\ SetError(err) /\ UNCHANGED <<linkVars, tableVars, stageVars>>

RuntimeStart ==
  /\ GpuStart /\ LinksStart
  /\ stage = "down" /\ next_router = 1 /\ simulation_mode = FALSE
  /\ last_error = "success"
  /\ host_allocs = <<>> /\ host_live = {} /\ streams = {}
=============================================================================
