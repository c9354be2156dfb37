---------------------------- MODULE UserApiProofs ----------------------------
(***************************************************************************)
(* The public API over the runtime, the driver and the links: between      *)
(* calls everything is up or everything is down, errors are kept, a call   *)
(* that fails changes nothing, and the handles of the application stay     *)
(* sound, for tables, sizes and numbers of routers of any kind.            *)
(***************************************************************************)
EXTENDS UserApi, NvGpuProofs, LinksProofs

InitCallers == ViaCuda \cup {"cbInit"}
StopStages  == {"stop_gpu", "stop_pcie", "stop_usb4"}

\* Who waits for what: the one application thread is in initialisation, in
\* shutdown or in neither, and the flags follow.
Control ==
  /\ stage \in Stages /\ caller \in InitCallers \cup {"none", "cbShutdown"}
  /\ caller = "none" => stage \in {"down", "up"}
  /\ caller = "cbShutdown" => stage \in StopStages \cup {"down"}
  /\ caller \in InitCallers => stage \notin StopStages \cup {"down"} /\ ~ g_initialized
  /\ g_initialized /\ caller = "none" => stage = "up"
  /\ gpu_ready <=> stage \in {"up", "stop_gpu"}
  /\ simulation_mode => stage \in StopStages \cup {"up"}

\* The errors: the register of the runtime and what was returned last.
ErrorHeld == Failed => last_error = returned
ErrorsInv ==
  /\ last_error \in Errors /\ returned \in Errors \cup {"invalid"}
  /\ ErrorHeld

ControlInv == Control /\ ErrorsInv /\ vram_free \in Int

-----------------------------------------------------------------------------
(***************************************************************************)
(* The calls that answer at once.                                          *)
(***************************************************************************)
\* A runtime call returns err: the stage and the links stay, the error is
\* kept, and nothing is given or taken when it fails.
Answered(err) ==
  /\ UNCHANGED <<linkVars, stage, next_router, simulation_mode, gpu_ready>>
  /\ vram_free' \in Int
  /\ last_error' = IF err = "success" THEN last_error ELSE err
  /\ err # "success" => UNCHANGED <<vram_free, host_allocs, host_live>>
  /\ err \notin {"success", "launch"} => UNCHANGED <<allocations, channels>>

\* So does a call of the API.
Answers ==
  /\ caller = "none" /\ stage \in {"down", "up"} /\ UNCHANGED <<caller, g_initialized>>
  /\ UNCHANGED <<linkVars, stage, next_router, simulation_mode, gpu_ready>>
  /\ vram_free' \in Int
  /\ last_error' \in Errors /\ returned' \in Errors \cup {"invalid"}
  /\ returned' \in {"success", "invalid"} \/ last_error' = returned'
  /\ last_error' = last_error \/ returned' \notin {"success", "invalid"}
  /\ returned' # "success" => UNCHANGED <<vram_free, host_allocs, host_live, given, held>>
  /\ returned' \notin {"success", "launch"} => UNCHANGED <<allocations, channels>>

\* The calls of Next that answer at once.
Call ==
  \/ cbGetDevice
  \/ \E device \in 0 .. 1 : cbSetDevice(device) \/ cbGetDeviceProperties(device)
  \/ MemoryCalls \/ StreamCalls \/ cbQuery \/ cbGetLastError

LEMMA AllocKeepsInt ==
  ASSUME vram_free \in Int, NEW n \in Nat, NEW type, AllocMemory(n, type)
  PROVE  vram_free' \in Int /\ (type = "system" => vram_free' = vram_free)
<1>1. Rounded(n) \in Nat
  BY RoundedType
<1>2. Charged(n, type) \in Nat /\ (type = "system" => Charged(n, type) = 0)
  BY <1>1 DEF Charged
<1>3. vram_free' = vram_free - Charged(n, type)
  BY DEF AllocMemory
<1> QED
  BY <1>2, <1>3

LEMMA MallocAnswers ==
  ASSUME vram_free \in Int, NEW n \in Nat, NEW err, cudaMalloc(n, err)
  PROVE  Answered(err)
<1>1. UNCHANGED <<linkVars, stage, next_router, simulation_mode, host_allocs, host_live>>
  BY DEF cudaMalloc, tableVars, stageVars
<1>2. last_error' = IF err = "success" THEN last_error ELSE err
  BY DEF cudaMalloc, SetError
<1>3. CASE UNCHANGED gpuVars
  BY <1>1, <1>2, <1>3 DEF gpuVars, Answered
<1>4. CASE AllocMemoryFails(n, "video") /\ UNCHANGED <<gpu_ready, channels>>
  BY <1>1, <1>2, <1>4 DEF AllocMemoryFails, Answered
<1>5. CASE AllocMemory(n, "video") /\ err = "success" /\ UNCHANGED <<gpu_ready, channels>>
  BY <1>1, <1>2, <1>5, AllocKeepsInt DEF Answered
<1> QED
  BY <1>3, <1>4, <1>5 DEF cudaMalloc, NoGpu

LEMMA FreeAnswers ==
  ASSUME vram_free \in Int, NEW p, NEW err, cudaFree(p, err)
  PROVE  Answered(err)
<1>1. UNCHANGED <<linkVars, stage, next_router, simulation_mode>>
  BY DEF cudaFree, stageVars
<1>2. last_error' = IF err = "success" THEN last_error ELSE err
  BY DEF cudaFree, SetError
<1>3. CASE err = "success" /\ UNCHANGED gpuVars
  BY <1>1, <1>2, <1>3 DEF gpuVars, Answered
<1>4. CASE NoGpu(err) /\ UNCHANGED <<host_allocs, host_live>>
  BY <1>1, <1>2, <1>4 DEF NoGpu, gpuVars, Answered
<1>5. CASE FreeMemory(p, 0, "system") /\ err = "success" /\ UNCHANGED gpu_ready
  BY <1>1, <1>2, <1>5 DEF FreeMemory, Answered
<1> QED
  BY <1>3, <1>4, <1>5 DEF cudaFree

LEMMA MemcpyAnswers ==
  ASSUME vram_free \in Int, NEW dst, NEW src, NEW n, NEW kind, NEW err,
         cudaMemcpy(dst, src, n, kind, err)
  PROVE  Answered(err)
<1>1. /\ UNCHANGED <<linkVars, stage, next_router, simulation_mode, host_allocs, host_live>>
      /\ last_error' = IF err = "success" THEN last_error ELSE err
  BY DEF cudaMemcpy, tableVars, stageVars, SetError
<1>2. CASE UNCHANGED gpuVars
  BY <1>1, <1>2 DEF gpuVars, Answered
<1>3. CASE /\ MemcpyH2D(dst, host, n) \/ MemcpyD2H(src, n) \/ MemcpyD2D(dst, src, n)
           /\ err = "success" /\ UNCHANGED gpu_ready
  BY <1>1, <1>3 DEF MemcpyH2D, MemcpyD2H, MemcpyD2D, Answered
<1> QED
  BY <1>2, <1>3 DEF cudaMemcpy, NoGpu

LEMMA MemsetAnswers ==
  ASSUME vram_free \in Int, NEW dst, NEW v, NEW n, NEW err, cudaMemset(dst, v, n, err)
  PROVE  Answered(err)
<1>1. /\ UNCHANGED <<linkVars, stage, next_router, simulation_mode, host_allocs, host_live>>
      /\ last_error' = IF err = "success" THEN last_error ELSE err
  BY DEF cudaMemset, tableVars, stageVars, SetError
<1>2. CASE UNCHANGED gpuVars
  BY <1>1, <1>2 DEF gpuVars, Answered
<1>3. CASE /\ MemcpyH2D(dst, [i \in 0 .. (n - 1) |-> v], n)
           /\ err = "success" /\ UNCHANGED gpu_ready
  BY <1>1, <1>3 DEF MemcpyH2D, Answered
<1> QED
  BY <1>2, <1>3 DEF cudaMemset, NoGpu

LEMMA HostAnswers ==
  ASSUME vram_free \in Int, NEW n, NEW p, NEW err,
         cudaMallocHost(n, p, err) \/ cudaFreeHost(p, err)
  PROVE  Answered(err)
BY DEF cudaMallocHost, cudaFreeHost, gpuVars, stageVars, SetError, Answered

LEMMA StreamCreateAnswers ==
  ASSUME vram_free \in Int, NEW err, cudaStreamCreate(err)
  PROVE  Answered(err)
<1>1. /\ UNCHANGED <<linkVars, stage, next_router, simulation_mode, host_allocs, host_live>>
      /\ last_error' = IF err = "success" THEN last_error ELSE err
  BY DEF cudaStreamCreate, stageVars, SetError
<1>2. CASE UNCHANGED gpuVars
  BY <1>1, <1>2 DEF gpuVars, Answered
<1>3. CASE CreateChannelFails /\ UNCHANGED gpu_ready
  BY <1>1, <1>3 DEF CreateChannelFails, AllocMemoryFails, Answered
<1>4. CASE CreateChannel /\ UNCHANGED gpu_ready /\ err = "success"
  BY <1>1, <1>4, GpuAssumption, AllocKeepsInt DEF CreateChannel, Answered
<1> QED
  BY <1>2, <1>3, <1>4 DEF cudaStreamCreate, NoGpu

LEMMA StreamDestroyAnswers ==
  ASSUME vram_free \in Int, NEW s, NEW err, cudaStreamDestroy(s, err)
  PROVE  Answered(err)
<1>1. /\ UNCHANGED <<linkVars, stage, next_router, simulation_mode, host_allocs, host_live>>
      /\ last_error' = IF err = "success" THEN last_error ELSE err
  BY DEF cudaStreamDestroy, stageVars, SetError
<1>2. CASE NoGpu(err)
  BY <1>1, <1>2 DEF NoGpu, gpuVars, Answered
<1>3. CASE DestroyChannel(s) /\ err = "success" /\ UNCHANGED gpu_ready
  BY <1>1, <1>3 DEF DestroyChannel, FreeMemory, Answered
<1> QED
  BY <1>2, <1>3 DEF cudaStreamDestroy

\* A launch may keep the channel it made, which is not of video memory.
LEMMA LaunchAnswers ==
  ASSUME vram_free \in Int, NEW hasStream, NEW fits, NEW err,
         cudaLaunchKernel(hasStream, fits, err)
  PROVE  Answered(err)
<1>1. /\ UNCHANGED <<linkVars, stage, next_router, simulation_mode, host_allocs, host_live>>
      /\ last_error' = IF err = "success" THEN last_error ELSE err
  BY DEF cudaLaunchKernel, tableVars, stageVars, SetError
<1>2. CASE UNCHANGED gpuVars
  BY <1>1, <1>2 DEF gpuVars, Answered
<1>3. CASE CreateChannelFails /\ UNCHANGED gpu_ready
  BY <1>1, <1>3 DEF CreateChannelFails, AllocMemoryFails, Answered
<1>4. CASE CreateChannel /\ UNCHANGED gpu_ready /\ err \in {"success", "launch"}
  BY <1>1, <1>4, GpuAssumption, AllocKeepsInt DEF CreateChannel, Answered
<1>5. CASE UNCHANGED <<gpu_ready, next_gpu_addr, vram_free, allocations, channels>>
  BY <1>1, <1>5 DEF Answered
<1> QED
  BY <1>2, <1>3, <1>4, <1>5 DEF cudaLaunchKernel, NoGpu

LEMMA QueryAnswers ==
  ASSUME vram_free \in Int, NEW err, NeedsGpu(err)
  PROVE  Answered(err)
BY DEF NeedsGpu, SetError, gpuVars, tableVars, stageVars, Answered

\* From the answer of the runtime to the answer of the API.
LEMMA FromRuntime ==
  ASSUME Idle, last_error \in Errors, NEW err \in Errors, Answered(err),
         Recorded(err) \/ Unrecorded(err), UNCHANGED g_initialized,
         err # "success" => UNCHANGED <<given, held>>
  PROVE  Answers
<1>1. returned' = err
  BY DEF Recorded, Unrecorded
<1>2. err # "invalid"
  BY DEF Errors
<1> QED
  BY <1>1, <1>2 DEF Idle, Recorded, Unrecorded, Answered, Answers

LEMMA FromRefusal ==
  ASSUME Idle, vram_free \in Int, last_error \in Errors, Invalid
  PROVE  Answers
BY DEF Idle, Invalid, Recorded, rtVars, gpuVars, tableVars, stageVars, Answers

LEMMA MemoryAnswers ==
  ASSUME vram_free \in Int, last_error \in Errors, MemoryCalls
  PROVE  Answers
<1>1. Sizes \subseteq Nat
  BY GpuAssumption
<1>2. ASSUME NEW n \in Sizes, cbMalloc(n) PROVE Answers
  <2>1. CASE Invalid
    BY <1>2, <2>1, FromRefusal DEF cbMalloc
  <2>2. ASSUME NEW err \in Errors, cudaMalloc(n, err), Recorded(err),
               err # "success" => UNCHANGED given, UNCHANGED <<g_initialized, held>>
        PROVE  Answers
    <3>1. Answered(err)
      BY <1>1, <2>2, MallocAnswers
    <3> QED
      BY <1>2, <2>2, <3>1, FromRuntime DEF cbMalloc
  <2> QED
    BY <1>2, <2>1, <2>2 DEF cbMalloc
<1>3. ASSUME NEW n \in Sizes, cbMallocHost(n) PROVE Answers
  <2>1. CASE Invalid
    BY <1>3, <2>1, FromRefusal DEF cbMallocHost
  <2>2. ASSUME NEW err \in Errors, NEW h \in Hosts, cudaMallocHost(n, h, err), Unrecorded(err),
               err # "success" => UNCHANGED held, UNCHANGED <<g_initialized, given>>
        PROVE  Answers
    <3>1. Answered(err)
      BY <2>2, HostAnswers
    <3> QED
      BY <1>3, <2>2, <3>1, FromRuntime DEF cbMallocHost
  <2> QED
    BY <1>3, <2>1, <2>2 DEF cbMallocHost
<1>4. ASSUME NEW p \in given \cup held, cbFree(p) PROVE Answers
  <2>1. PICK err \in Errors : /\ cudaFree(p, err) /\ Unrecorded(err)
                              /\ err # "success" => UNCHANGED held
    BY <1>4 DEF cbFree
  <2>2. Answered(err)
    BY <2>1, FreeAnswers
  <2> QED
    BY <1>4, <2>1, <2>2, FromRuntime DEF cbFree
<1>5. ASSUME NEW p, cbFreeHost(p) PROVE Answers
  <2>1. PICK err \in Errors : cudaFreeHost(p, err) /\ Unrecorded(err)
    BY <1>5 DEF cbFreeHost
  <2>2. Answered(err) /\ err = "success"
    BY <2>1, HostAnswers DEF cudaFreeHost
  <2> QED
    BY <1>5, <2>1, <2>2, FromRuntime DEF cbFreeHost
<1>6. ASSUME NEW p, NEW q, NEW n, NEW kind,
             cbMemcpy(p, q, n, kind) \/ cbMemcpyAsync(p, q, n, kind)
      PROVE  Answers
  <2>1. CASE Invalid
    BY <1>6, <2>1, FromRefusal DEF cbMemcpy, cbMemcpyAsync
  <2>2. ASSUME NEW err \in Errors, cudaMemcpy(p, q, n, kind, err),
               Recorded(err) \/ Unrecorded(err), Keeps
        PROVE  Answers
    <3>1. Answered(err)
      BY <2>2, MemcpyAnswers
    <3> QED
      BY <1>6, <2>2, <3>1, FromRuntime DEF cbMemcpy, cbMemcpyAsync, Keeps
  <2> QED
    BY <1>6, <2>1, <2>2 DEF cbMemcpy, cbMemcpyAsync
<1>7. ASSUME NEW p, NEW v, NEW n, cbMemset(p, v, n) PROVE Answers
  <2>1. PICK err \in Errors : cudaMemset(p, v, n, err) /\ Unrecorded(err)
    BY <1>7 DEF cbMemset
  <2>2. Answered(err)
    BY <2>1, MemsetAnswers
  <2> QED
    BY <1>7, <2>1, <2>2, FromRuntime DEF cbMemset, Keeps
<1> QED
  BY <1>2, <1>3, <1>4, <1>5, <1>6, <1>7 DEF MemoryCalls

LEMMA StreamAnswers ==
  ASSUME vram_free \in Int, last_error \in Errors, StreamCalls
  PROVE  Answers
<1>1. ASSUME cbStreamCreate PROVE Answers
  <2>1. PICK err \in Errors : cudaStreamCreate(err) /\ Unrecorded(err)
    BY <1>1 DEF cbStreamCreate
  <2>2. Answered(err)
    BY <2>1, StreamCreateAnswers
  <2> QED
    BY <1>1, <2>1, <2>2, FromRuntime DEF cbStreamCreate, Keeps
<1>2. ASSUME NEW s, cbStreamDestroy(s) PROVE Answers
  <2>1. PICK err \in Errors : cudaStreamDestroy(s, err) /\ Unrecorded(err)
    BY <1>2 DEF cbStreamDestroy
  <2>2. Answered(err)
    BY <2>1, StreamDestroyAnswers
  <2> QED
    BY <1>2, <2>1, <2>2, FromRuntime DEF cbStreamDestroy, Keeps
<1>3. ASSUME NEW s, NEW fits, cbLaunchKernel(s, fits) PROVE Answers
  <2>1. PICK err \in Errors : cudaLaunchKernel(s # 0, fits, err) /\ Recorded(err)
    BY <1>3 DEF cbLaunchKernel
  <2>2. Answered(err)
    BY <2>1, LaunchAnswers
  <2> QED
    BY <1>3, <2>1, <2>2, FromRuntime DEF cbLaunchKernel, Keeps
<1> QED
  BY <1>1, <1>2, <1>3 DEF StreamCalls

LEMMA CallAnswers ==
  ASSUME vram_free \in Int, last_error \in Errors, Call
  PROVE  Answers
<1>1. CASE cbGetDevice \/ cbGetLastError
  BY <1>1
     DEF cbGetDevice, cbGetLastError, Idle, Keeps, Unrecorded, Errors, rtVars,
              gpuVars, tableVars, stageVars, Answers
<1>2. ASSUME NEW device, cbSetDevice(device) \/ cbGetDeviceProperties(device)
      PROVE  Answers
  <2> DEFINE err == IF device = 0 THEN "success" ELSE "device"
  <2>1. /\ Idle /\ SetError(err)
        /\ Recorded(err) \/ Unrecorded(err)
        /\ UNCHANGED <<gpuVars, linkVars, tableVars, stageVars>> /\ Keeps
    BY <1>2 DEF cbSetDevice, cbGetDeviceProperties
  <2>2. err \in Errors
    BY DEF Errors
  <2> HIDE DEF err
  <2>3. Answered(err)
    BY <2>1 DEF SetError, gpuVars, tableVars, stageVars, Answered
  <2> QED
    BY <2>1, <2>2, <2>3, FromRuntime DEF Keeps
<1>3. ASSUME cbQuery PROVE Answers
  <2>1. PICK err \in Errors : NeedsGpu(err) /\ Unrecorded(err)
    BY <1>3
       DEF cbQuery, cudaMemGetInfo, cudaDeviceSynchronize, cudaDeviceReset,
                cudaStreamSynchronize
  <2>2. Answered(err)
    BY <2>1, QueryAnswers
  <2> QED
    BY <1>3, <2>1, <2>2, FromRuntime DEF cbQuery, Keeps
<1> QED
  BY <1>1, <1>2, <1>3, MemoryAnswers, StreamAnswers DEF Call

-----------------------------------------------------------------------------
(***************************************************************************)
(* Control and errors.                                                     *)
(***************************************************************************)
LEMMA InitControl ==
  ASSUME ControlInv, InitStep, UNCHANGED apiVars
  PROVE  ControlInv'
<1>1. UNCHANGED <<g_initialized, caller, returned>>
  BY DEF apiVars
<1>2. ASSUME NEW from \in Stages, NEW to \in Stages, stage = from, stage' = to,
             from \notin StopStages \cup {"down", "up", "stop_gpu"},
             to \notin StopStages \cup {"down"},
             gpu_ready' <=> to = "up",
             simulation_mode' => to = "up", vram_free' \in Int, last_error' \in Errors
      PROVE  ControlInv'
  BY <1>1, <1>2 DEF ControlInv, Control, ErrorsInv, ErrorHeld, Failed, StopStages
<1>3. /\ gpu_ready <=> stage \in {"up", "stop_gpu"}
      /\ vram_free \in Int
      /\ simulation_mode => stage \in StopStages \cup {"up"}
      /\ last_error \in Errors
  BY DEF ControlInv, Control, ErrorsInv
<1>4. VramSize \in Int
  BY GpuAssumption
<1>5. CASE InitController
  BY <1>2, <1>3, <1>5 DEF InitController, gpuVars, Stages, StopStages, Errors
<1>6. CASE InitScan \/ InitPcie \/ InitTunnels \/ InitBus
  BY <1>2, <1>3, <1>6
     DEF InitScan, InitPcie, InitTunnels, InitBus, gpuVars, Stages,
                          StopStages
<1>7. CASE InitGpu
  BY <1>2, <1>3, <1>4, <1>7 DEF InitGpu, GpuInit, Stages, StopStages, Errors
<1>8. CASE InitVirtual
  BY <1>2, <1>3, <1>4, <1>8
     DEF InitVirtual, GpuInit, gpuVars, Stages, StopStages, Errors
<1>9. CASE UndoInit
  BY <1>2, <1>3, <1>9 DEF UndoInit, gpuVars, Stages, StopStages, Errors
<1> QED
  BY <1>5, <1>6, <1>7, <1>8, <1>9 DEF InitStep

LEMMA StopControl ==
  ASSUME ControlInv, StopStep, UNCHANGED apiVars
  PROVE  ControlInv'
<1>1. UNCHANGED <<g_initialized, caller, returned>>
  BY DEF apiVars
<1>2. CASE StopGpu
  BY <1>1, <1>2
     DEF StopGpu, GpuShutdown, ControlInv, Control, ErrorsInv, ErrorHeld, Failed,
                    Stages, StopStages
<1>3. CASE StopPcie
  BY <1>1, <1>3
     DEF StopPcie, gpuVars, ControlInv, Control, ErrorsInv, ErrorHeld, Failed,
                    Stages, StopStages
<1>4. CASE StopController
  BY <1>1, <1>4 DEF StopController, gpuVars, ControlInv, Control, ErrorsInv,
                    ErrorHeld, Failed, Stages, StopStages, Errors
<1> QED
  BY <1>2, <1>3, <1>4 DEF StopStep

LEMMA CallControl ==
  ASSUME ControlInv, Call
  PROVE  ControlInv'
<1>1. Answers
  BY CallAnswers DEF ControlInv, ErrorsInv
<1> QED
  BY <1>1 DEF Answers, ControlInv, Control, ErrorsInv, ErrorHeld, Failed

\* The calls of the API that initialise and shut down.
LEMMA ApiControl ==
  ASSUME ControlInv,
         \/ cbInit \/ InitReturns \/ cbShutdown \/ ShutdownReturns
         \/ \E call \in ViaCuda : AutoInit(call)
  PROVE  ControlInv'
<1>1. CASE cbInit
  <2>1. UNCHANGED <<gpu_ready, vram_free, simulation_mode, last_error>> /\ caller = "none"
    BY <1>1 DEF cbInit, gpuVars
  <2>2. \/ /\ ~ g_initialized /\ g_initialized' = g_initialized /\ returned' = returned
           /\ stage = "down" /\ stage' = "begin" /\ caller' = "cbInit"
        \/ /\ stage = "up" /\ stage' = "up" /\ caller' = "none" /\ g_initialized'
           /\ returned' = "success"
    BY <1>1 DEF cbInit, Unrecorded, ControlInv, Control
  <2> QED
    BY <2>1, <2>2
       DEF ControlInv, Control, ErrorsInv, ErrorHeld, Failed, InitCallers, ViaCuda,
                      Stages, StopStages, Errors
<1>2. ASSUME NEW call \in ViaCuda, AutoInit(call) PROVE ControlInv'
  BY <1>2 DEF AutoInit, gpuVars, ControlInv, Control, ErrorsInv,
              ErrorHeld, Failed, InitCallers, ViaCuda, Stages, StopStages
<1>3. CASE InitReturns
  BY <1>3
     DEF InitReturns, Recorded, Unrecorded, SetError, gpuVars, ControlInv,
         Control,
              ErrorsInv, ErrorHeld, Failed, InitCallers, ViaCuda, Stages, StopStages, Errors
<1>4. CASE cbShutdown
  <2>1. /\ UNCHANGED <<gpu_ready, vram_free, simulation_mode, last_error, g_initialized>>
        /\ caller = "none"
    BY <1>4 DEF cbShutdown, gpuVars
  <2>2. \/ /\ g_initialized /\ returned' = returned
           /\ stage = "up" /\ stage' = "stop_gpu" /\ caller' = "cbShutdown"
        \/ /\ stage' = stage /\ caller' = caller /\ returned' = "success"
    BY <1>4 DEF cbShutdown, Unrecorded, ControlInv, Control
  <2> QED
    BY <2>1, <2>2
       DEF ControlInv, Control, ErrorsInv, ErrorHeld, Failed, InitCallers, ViaCuda,
                      Stages, StopStages, Errors
<1>5. CASE ShutdownReturns
  <2>1. UNCHANGED <<gpu_ready, vram_free, simulation_mode, last_error, stage>>
    BY <1>5 DEF ShutdownReturns, rtVars, gpuVars, stageVars
  <2>2. /\ stage = "down" /\ caller = "cbShutdown" /\ caller' = "none" /\ ~ g_initialized'
        /\ returned' = "success"
    BY <1>5 DEF ShutdownReturns
  <2> QED
    BY <2>1, <2>2
       DEF ControlInv, Control, ErrorsInv, ErrorHeld, Failed, InitCallers, ViaCuda,
                      Stages, StopStages, Errors
<1> QED
  BY <1>1, <1>2, <1>3, <1>4, <1>5

LEMMA ControlInitially == Init => ControlInv
BY
   DEF Init, RuntimeStart, GpuStart, ControlInv, Control, ErrorsInv,
       ErrorHeld, Failed,
       InitCallers, ViaCuda, Stages, StopStages, Errors

\* What every step is.
LEMMA Steps ==
  ASSUME [Next]_allVars
  PROVE  \/ (InitStep \/ StopStep) /\ UNCHANGED apiVars
         \/ \/ cbInit \/ InitReturns \/ cbShutdown \/ ShutdownReturns
            \/ \E call \in ViaCuda : AutoInit(call)
         \/ Call
         \/ UNCHANGED allVars
BY DEF Next, Call

LEMMA ControlNext == ControlInv /\ [Next]_allVars => ControlInv'
<1> SUFFICES ASSUME ControlInv, [Next]_allVars PROVE ControlInv'
  OBVIOUS
<1>1. CASE UNCHANGED allVars
  BY <1>1
     DEF allVars, rtVars, gpuVars, stageVars, apiVars, ControlInv, Control,
         ErrorsInv,
              ErrorHeld, Failed
<1> QED
  BY <1>1, Steps, InitControl, StopControl, CallControl, ApiControl

\* The flags are Booleans.
Flags == gpu_ready \in BOOLEAN /\ simulation_mode \in BOOLEAN /\ g_initialized \in BOOLEAN

LEMMA FlagsInitially == Init => Flags
<1> SUFFICES ASSUME Init PROVE Flags
  OBVIOUS
<1>1. gpu_ready = FALSE /\ simulation_mode = FALSE /\ g_initialized = FALSE
  BY DEF Init, RuntimeStart, GpuStart
<1> QED
  BY <1>1, Zenon DEF Flags

LEMMA FlagsNext ==
  ASSUME ControlInv, Flags, [Next]_allVars
  PROVE  Flags'
<1> DEFINE Sets(x, y) == y = x \/ y = TRUE \/ y = FALSE
<1>1. /\ Sets(gpu_ready, gpu_ready') /\ Sets(simulation_mode, simulation_mode')
      /\ g_initialized' \in BOOLEAN
  <2>1. CASE (InitStep \/ StopStep) /\ UNCHANGED apiVars
    <3>1. g_initialized' = g_initialized
      BY <2>1 DEF apiVars
    <3>2. CASE InitStep
      BY <3>1, <3>2
         DEF Flags, InitStep, InitController, InitScan, InitPcie, InitTunnels,
             InitBus, InitGpu,
             InitVirtual, UndoInit, GpuInit, gpuVars
    <3>3. CASE StopStep
      BY <3>1, <3>3
         DEF Flags, StopStep, StopGpu, StopPcie, StopController, GpuShutdown,
             gpuVars
    <3> QED
      BY <2>1, <3>2, <3>3
  <2>2. CASE \/ cbInit \/ InitReturns \/ cbShutdown \/ ShutdownReturns
             \/ \E call \in ViaCuda : AutoInit(call)
    <3>1. UNCHANGED <<gpu_ready, simulation_mode>>
      BY <2>2
         DEF cbInit, InitReturns, cbShutdown, ShutdownReturns, AutoInit,
             rtVars,
                  gpuVars, stageVars
    <3>2. \/ Sets(g_initialized, g_initialized')
          \/ g_initialized' = (g_initialized \/ (stage = "up" /\ caller = "cbInit"))
      BY <2>2 DEF cbInit, InitReturns, cbShutdown, ShutdownReturns, AutoInit
    <3>3. g_initialized' \in BOOLEAN
      BY <3>2, Zenon DEF Flags
    <3> QED
      BY <3>1, <3>3
  <2>3. CASE Call
    BY <2>3, CallAnswers DEF ControlInv, ErrorsInv, Answers, Flags
  <2>4. CASE UNCHANGED allVars
    BY <2>4 DEF allVars, rtVars, gpuVars, stageVars, apiVars, Flags
  <2> QED
    BY <2>1, <2>2, <2>3, <2>4, Steps
<1> QED
  BY <1>1, Zenon DEF Flags

\* The runtime keeps an error until another call fails, an initialisation ends
\* or the runtime is shut down, through automatic initialisation and calls that
\* the API answers itself.
THEOREM ErrorsAreKept == Spec => CudaErrorKept
<1> DEFINE Kept == /\ Failed' => last_error' = returned'
                   /\ last_error' # last_error => Failed' \/ InitEnds \/ ShutdownEnds
<1>1. ASSUME ControlInv, [Next]_allVars PROVE [Kept]_allVars
  <2>1. Failed' => last_error' = returned'
    <3>1. ControlInv'
      BY <1>1, ControlNext
    <3> QED
      BY <3>1 DEF ControlInv, ErrorsInv, ErrorHeld
  <2>2. ASSUME ~ UNCHANGED allVars, last_error' # last_error
        PROVE  Failed' \/ InitEnds \/ ShutdownEnds
    <3>1. CASE InitStep
      BY <2>2, <3>1
         DEF InitStep, InitController, InitScan, InitPcie, InitTunnels, InitBus,
             InitGpu, InitVirtual, UndoInit, InitEnds
    <3>2. CASE StopStep
      BY <2>2, <3>2 DEF StopStep, StopGpu, StopPcie, StopController, ShutdownEnds
    <3>3. CASE \/ cbInit \/ InitReturns \/ cbShutdown \/ ShutdownReturns
               \/ \E call \in ViaCuda : AutoInit(call)
      BY <2>2, <3>3
         DEF cbInit, InitReturns, cbShutdown, ShutdownReturns, AutoInit, rtVars,
             SetError, Recorded, Unrecorded, Failed
    <3>4. CASE Call
      <4>1. Answers
        BY <1>1, <3>4, CallAnswers DEF ControlInv, ErrorsInv
      <4> QED
        BY <2>2, <4>1 DEF Answers, Failed
    <3> QED
      BY <1>1, <2>2, <3>1, <3>2, <3>3, <3>4, Steps
  <2> QED
    BY <2>1, <2>2
<1> QED
  BY ControlInitially, ControlNext, <1>1, PTL DEF Spec, CudaErrorKept

\* A call that fails gives nothing and takes nothing, on any of its error
\* paths: device memory, its account and the host buffers stay as they were.
THEOREM FailuresChangeNothing == Spec => FailedCallsKeepState
<1> DEFINE Step == caller = "none" /\ caller' = "none" /\ returned' # "success" =>
              /\ UNCHANGED <<vram_free, host_allocs, host_live, given, held>>
              /\ returned' # "launch" => UNCHANGED <<allocations, channels>>
<1>1. ASSUME ControlInv, [Next]_allVars PROVE [Step]_allVars
  <2>1. CASE (InitStep \/ StopStep) /\ UNCHANGED apiVars
    <3>1. stage \in {"down", "up"} => ~ (InitStep \/ StopStep)
      BY
         DEF InitStep, StopStep, InitController, InitScan, InitPcie,
             InitTunnels, InitBus,
             InitGpu, InitVirtual, UndoInit, StopGpu, StopPcie, StopController
    <3> QED
      BY <1>1, <2>1, <3>1 DEF ControlInv, Control
  <2>2. CASE \/ cbInit \/ InitReturns \/ cbShutdown \/ ShutdownReturns
             \/ \E call \in ViaCuda : AutoInit(call)
    BY <2>2
       DEF cbInit, InitReturns, cbShutdown, ShutdownReturns, AutoInit,
           Unrecorded,
                ViaCuda
  <2>3. CASE Call
    <3>1. Answers
      BY <1>1, <2>3, CallAnswers DEF ControlInv, ErrorsInv
    <3> QED
      BY <3>1 DEF Answers
  <2> QED
    BY <1>1, <2>1, <2>2, <2>3, Steps
<1> QED
  BY ControlInitially, ControlNext, <1>1, PTL DEF Spec, FailedCallsKeepState

-----------------------------------------------------------------------------
(***************************************************************************)
(* The links, stage by stage.                                              *)
(***************************************************************************)
\* There is memory for the virtual GPU: when there is none, cudaBridgeInit
\* fails without the way back, and the links stay up.
VirtualGpuFits == "virtual" \notin MallocFails

\* What the links are when each stage begins.
LinkStages ==
  /\ stage \in {"down", "begin", "failed"} => NoLinks /\ ~ usb4_up
  /\ stage = "usb4" => NoLinks
  /\ stage = "scanned" => tunnels = <<>> /\ devices = <<>>
  /\ stage \in {"tunnels", "bus", "stop_usb4"} => devices = <<>>
  /\ stage = "undo_pcie" => routers = <<>> /\ tunnels = <<>> /\ ~ usb4_up
  /\ stage \in {"up", "stop_gpu"} /\ ~ simulation_mode
       => devices # <<>> /\ devices[1].mapped = {0, 1}

LinkOrder == LinksInv /\ LinkStages /\ next_router \in Nat \ {0}

LEMMA SameLinks ==
  ASSUME LinksInv, UNCHANGED linkVars
  PROVE  LinksInv' /\ UNCHANGED <<usb4_up, routers, tunnels, devices>>
BY DEF linkVars, LinksInv, RoutesInv, Behind, ObjectsInTables

LEMMA InitOrder ==
  ASSUME VirtualGpuFits, Control, LinkOrder, InitStep
  PROVE  LinkOrder'
<1>0. LinksInv /\ next_router \in Nat \ {0} /\ (simulation_mode => stage \in StopStages \cup {"up"})
  BY DEF LinkOrder, Control
<1>1. CASE InitController
  <2>1. NoLinks /\ (ControllerInit \/ ControllerInitFails)
    BY <1>1 DEF InitController, LinkOrder, LinkStages
  <2>2. LinksInv' /\ NoLinks'
    BY <1>0, <1>1, <2>1, ControllerInitLinks
       DEF InitController, LinkOrder, LinkStages
  <2>3. \/ stage' = "usb4"
        \/ stage' = "failed" /\ ~ usb4_up'
    BY <1>1 DEF InitController, ControllerInitFails
  <2>4. next_router' = next_router
    BY <1>1 DEF InitController
  <2> QED
    BY <1>0, <2>2, <2>3, <2>4 DEF LinkOrder, LinkStages, NoLinks
<1>2. CASE InitScan
  <2>1. NoLinks /\ ScanRouters /\ stage' = "scanned" /\ next_router' = next_router
    BY <1>2 DEF InitScan, LinkOrder, LinkStages
  <2>2. LinksInv' /\ tunnels' = <<>> /\ devices' = <<>>
    BY <1>0, <2>1, ScanRoutersLinks
  <2> QED
    BY <1>0, <2>1, <2>2 DEF LinkOrder, LinkStages
<1>3. CASE InitPcie
  <2>1. devices = <<>> /\ PcieInit /\ stage' = "tunnels" /\ next_router' = 1
    BY <1>3 DEF InitPcie, LinkOrder, LinkStages
  <2>2. LinksInv' /\ devices' = <<>>
    BY <1>0, <2>1, PcieInitLinks
  <2> QED
    BY <2>1, <2>2 DEF LinkOrder, LinkStages
<1>4. CASE InitTunnels
  <2>1. devices = <<>> /\ next_router' \in Nat \ {0} /\ stage' \in {"tunnels", "bus"}
    BY <1>0, <1>4 DEF InitTunnels, LinkOrder, LinkStages
  <2>2. LinksInv' /\ devices' = <<>>
    <3>1. CASE UNCHANGED linkVars
      BY <1>0, <2>1, <3>1, SameLinks
    <3>2. CASE /\ next_router <= Len(routers)
               /\ \/ CreateTunnel(routers[next_router])
                  \/ CreateTunnelFails(routers[next_router])
      <4>1. Len(routers) \in Nat
        BY <1>0, LenProperties DEF LinksInv, RoutesInv
      <4>2. next_router \in 1 .. Len(routers)
        BY <1>0, <3>2, <4>1
      <4> QED
        BY <1>0, <2>1, <3>2, <4>2, CreateTunnelLinks
    <3> QED
      BY <1>4, <3>1, <3>2 DEF InitTunnels
  <2> QED
    BY <2>1, <2>2 DEF LinkOrder, LinkStages
<1>5. CASE InitBus
  <2>1. devices = <<>> /\ ScanBus /\ stage' = "gpu" /\ next_router' = next_router
    BY <1>5 DEF InitBus, LinkOrder, LinkStages
  <2>2. LinksInv'
    BY <1>0, <2>1, ScanBusLinks
  <2> QED
    BY <1>0, <2>1, <2>2 DEF LinkOrder, LinkStages
<1>6. CASE InitGpu
  <2>1. next_router' = next_router /\ stage = "gpu"
    BY <1>6 DEF InitGpu
  <2>2. CASE devices # <<>> /\ AttachDevice(1) /\ stage' = "up"
    BY <1>0, <2>1, <2>2, AttachLinks DEF LinkOrder, LinkStages
  <2>3. CASE UNCHANGED linkVars /\ stage' \in {"virtual", "undo_usb4"}
    BY <1>0, <2>1, <2>3, SameLinks DEF LinkOrder, LinkStages
  <2> QED
    BY <1>6, <2>2, <2>3 DEF InitGpu, AttachFails
<1>7. CASE InitVirtual
  <2>1. stage' = "up" /\ simulation_mode' /\ UNCHANGED <<linkVars, next_router>>
    BY <1>7 DEF InitVirtual, VirtualGpuFits
  <2> QED
    BY <1>0, <2>1, SameLinks DEF LinkOrder, LinkStages
<1>8. CASE UndoInit
  <2>1. CASE stage' = "undo_pcie" /\ ControllerShutdown /\ next_router' = next_router
    BY <1>0, <2>1, ControllerShutdownLinks DEF LinkOrder, LinkStages
  <2>2. CASE /\ stage = "undo_pcie" /\ stage' = "failed" /\ PcieShutdown
             /\ next_router' = next_router
    BY <1>0, <2>2, PcieShutdownLinks DEF LinkOrder, LinkStages, NoLinks
  <2> QED
    BY <1>8, <2>1, <2>2 DEF UndoInit
<1> QED
  BY <1>1, <1>2, <1>3, <1>4, <1>5, <1>6, <1>7, <1>8 DEF InitStep

LEMMA StopOrder ==
  ASSUME LinkOrder, StopStep
  PROVE  LinkOrder'
<1>0. LinksInv /\ next_router' \in Nat \ {0}
  BY DEF LinkOrder, StopStep, StopGpu, StopPcie, StopController
<1>1. CASE StopGpu
  <2>1. stage' = "stop_pcie"
    BY <1>1 DEF StopGpu
  <2>2. LinksInv'
    BY <1>0, <1>1, SameLinks, DetachLinks DEF StopGpu, LinkOrder, LinkStages
  <2> QED
    BY <1>0, <2>1, <2>2 DEF LinkOrder, LinkStages
<1>2. CASE StopPcie
  <2>1. stage' = "stop_usb4" /\ PcieShutdown
    BY <1>2 DEF StopPcie
  <2> QED
    BY <1>0, <2>1, PcieShutdownLinks DEF LinkOrder, LinkStages
<1>3. CASE StopController
  <2>1. stage' = "down" /\ ControllerShutdown /\ devices = <<>>
    BY <1>3 DEF StopController, LinkOrder, LinkStages
  <2> QED
    BY <1>0, <2>1, ControllerShutdownLinks DEF LinkOrder, LinkStages, NoLinks
<1> QED
  BY <1>1, <1>2, <1>3 DEF StopStep

LEMMA OrderInitially == Init => LinkOrder
BY LinksInitially DEF Init, RuntimeStart, LinksStart, LinkOrder, LinkStages

LEMMA OrderNext ==
  ASSUME VirtualGpuFits, ControlInv, LinkOrder, [Next]_allVars
  PROVE  LinkOrder'
<1>0. LinksInv /\ Control
  BY DEF LinkOrder, ControlInv
<1>1. ASSUME UNCHANGED <<linkVars, next_router, simulation_mode>>,
             \/ stage' = stage
             \/ stage = "down" /\ stage' = "begin"
             \/ stage = "failed" /\ stage' = "down"
             \/ stage = "up" /\ stage' = "stop_gpu"
      PROVE  LinkOrder'
  BY <1>0, <1>1, SameLinks DEF LinkOrder, LinkStages, NoLinks
<1>2. CASE InitStep \/ StopStep
  BY <1>0, <1>2, InitOrder, StopOrder
<1>3. CASE UNCHANGED allVars
  BY <1>1, <1>3 DEF allVars, rtVars, stageVars
<1>4. CASE Call
  BY <1>1, <1>4, CallAnswers DEF ControlInv, ErrorsInv, Answers
<1>5. CASE \/ cbInit \/ InitReturns \/ cbShutdown \/ ShutdownReturns
           \/ \E call \in ViaCuda : AutoInit(call)
  <2>1. UNCHANGED <<linkVars, next_router, simulation_mode>>
    BY <1>5
       DEF cbInit, InitReturns, cbShutdown, ShutdownReturns, AutoInit, rtVars,
           stageVars
  <2>2. CASE cbInit \/ InitReturns \/ \E call \in ViaCuda : AutoInit(call)
    BY <1>1, <2>1, <2>2 DEF cbInit, InitReturns, AutoInit
  <2>3. CASE cbShutdown
    BY <1>0, <1>1, <2>1, <2>3 DEF cbShutdown, Control
  <2>4. CASE ShutdownReturns
    BY <1>1, <2>1, <2>4 DEF ShutdownReturns, rtVars, stageVars
  <2> QED
    BY <1>5, <2>2, <2>3, <2>4
<1> QED
  BY <1>2, <1>3, <1>4, <1>5, Steps

\* Between calls the runtime is wholly up or wholly down, whichever step of
\* initialisation failed and however many routers, tunnels and BARs there
\* were to undo.
THEOREM NothingHalfDone == ASSUME VirtualGpuFits PROVE Spec => []WhollyUpOrDown
<1>1. ControlInv /\ LinkOrder /\ [Next]_allVars => LinkOrder'
  BY OrderNext
<1>2. ControlInv /\ Flags /\ [Next]_allVars => Flags'
  BY FlagsNext
<1>3. ASSUME ControlInv, Flags, LinkOrder PROVE WhollyUpOrDown
  <2>1. ObjectsInTables /\ TunnelsSound
    <3>1. DOMAIN tunnels = 1 .. Len(tunnels)
      BY <1>3, LenProperties DEF LinkOrder, LinksInv, RoutesInv
    <3> QED
      BY <1>3, <3>1
         DEF LinkOrder, LinksInv, RoutesInv, Behind, Distinct, TunnelsSound
  <2>2. stage = "down" => ~ usb4_up /\ objects = 0
    BY <1>3, NothingLeft DEF LinkOrder, LinkStages
  <2>3. caller = "none" =>
          /\ stage \in {"down", "up"} /\ (g_initialized => stage = "up")
          /\ (gpu_ready <=> stage = "up")
          /\ stage = "up" /\ ~ simulation_mode
               => devices # <<>> /\ devices[1].mapped = {0, 1}
    BY <1>3 DEF ControlInv, Control, LinkOrder, LinkStages
  <2>4. (gpu_ready <=> stage = "up") => gpu_ready = (stage = "up")
    BY <1>3, Zenon DEF Flags
  <2> QED
    BY <2>1, <2>2, <2>3, <2>4 DEF WhollyUpOrDown
<1> QED
  BY ControlInitially, ControlNext, FlagsInitially, OrderInitially, <1>1, <1>2,
     <1>3, PTL
     DEF Spec

-----------------------------------------------------------------------------
(***************************************************************************)
(* The tables of the driver under the runtime, which frees by address      *)
(* alone.                                                                  *)
(***************************************************************************)
\* The application's buffers are as large as the requests it makes of them.
RequestsFit == \A n \in Sizes : n <= HostCells

ChannelsInv ==
  /\ channels \in Seq(Nat) /\ Injective(channels) /\ Len(channels) <= MaxChannels
  /\ Range(channels) = Pushed(allocations)

TablesInv ==
  /\ TableInv /\ Sized(allocations) /\ HeapInv /\ ChannelsInv
  /\ Len(allocations) <= MaxAllocs
  /\ next_gpu_addr <= AddrLimit /\ vram_free \in 0 .. VramSize
  /\ ~ gpu_ready => allocations = <<>> /\ channels = <<>>

\* A step of the driver, as its callers see it: addresses only grow, and the
\* push buffers become those of pushes.
Serves(pushes) ==
  TablesInv' /\ next_gpu_addr <= next_gpu_addr' /\ Pushed(allocations') = pushes

LEMMA TablesInitially == GpuStart => TablesInv
<1> SUFFICES ASSUME GpuStart PROVE TablesInv
  OBVIOUS
<1>1. <<>> \in Seq(Nat) /\ Len(<<>>) = 0 /\ DOMAIN <<>> = {}
  BY EmptySeq
<1>2. {MaxAllocs, MaxChannels, VramSize} \subseteq Nat /\ FirstAddr <= AddrLimit
  BY GpuAssumption
<1>3. allocations = <<>> /\ channels = <<>> /\ vram_free = 0 /\ next_gpu_addr = FirstAddr
  BY DEF GpuStart
<1>4. ChannelsInv /\ Sized(allocations)
  BY <1>1, <1>2, <1>3 DEF ChannelsInv, Sized, Injective, Range, Pushed
<1>5. Len(allocations) <= MaxAllocs /\ next_gpu_addr <= AddrLimit /\ vram_free \in 0 .. VramSize
  BY <1>1, <1>2, <1>3
<1> QED
  BY <1>3, <1>4, <1>5, TableInitially, HeapInitially DEF TablesInv

\* The context is opened or wiped.
LEMMA WipeTables ==
  ASSUME TablesInv, GpuInit \/ GpuShutdown, UNCHANGED host
  PROVE  TablesInv' /\ UNCHANGED next_gpu_addr /\ Pushed(allocations') = {}
<1>1. <<>> \in Seq(Nat) /\ Len(<<>>) = 0 /\ DOMAIN <<>> = {}
  BY EmptySeq
<1>2. {MaxAllocs, MaxChannels, VramSize} \subseteq Nat
  BY GpuAssumption
<1>3. /\ allocations' = <<>> /\ channels' = <<>> /\ UNCHANGED next_gpu_addr
      /\ vram_free' \in {0, VramSize}
  BY DEF GpuInit, GpuShutdown
<1>4. ChannelsInv' /\ Sized(allocations') /\ Pushed(allocations') = {}
  BY <1>1, <1>2, <1>3 DEF ChannelsInv, Sized, Injective, Range, Pushed
<1>5. Len(allocations') <= MaxAllocs /\ vram_free' \in 0 .. VramSize
  BY <1>1, <1>2, <1>3
<1>6. TableInv'
  BY <1>3, EmptyTable DEF TablesInv, TableInv
<1>7. HeapInv'
  BY <1>3, WipeHeap DEF TablesInv
<1> QED
  BY <1>3, <1>4, <1>5, <1>6, <1>7 DEF TablesInv

LEMMA AllocServes ==
  ASSUME NoWrap, TablesInv, NEW n \in Sizes \cup {PushBuffer}, NEW type \in Types,
         AllocMemory(n, type), UNCHANGED <<gpu_ready, host>>, ChannelsInv'
  PROVE  /\ Serves(Pushed(allocations) \cup (IF type = "system" THEN {next_gpu_addr} ELSE {}))
         /\ next_gpu_addr < next_gpu_addr'
<1>1. /\ Sized(allocations') /\ vram_free' = vram_free - Charged(n, type)
      /\ Charged(n, type) \in Nat /\ (vram_free \in Nat => vram_free' \in Nat)
      /\ Pushed(allocations') = Pushed(allocations)
           \cup (IF type = "system" THEN {next_gpu_addr} ELSE {})
      /\ Len(allocations') = Len(allocations) + 1 /\ Len(allocations) < MaxAllocs
      /\ gpu_ready
  BY AllocTotals DEF TablesInv
<1>2. n # 0
  BY DEF AllocMemory, Refused
<1>3. n \in Nat /\ Rounded(n) \in Nat /\ Rounded(n) > 0
  BY <1>2, RoundedPositive
<1>4. /\ next_gpu_addr \in Nat /\ next_gpu_addr' = next_gpu_addr + Rounded(n)
      /\ next_gpu_addr + Rounded(n) <= AddrLimit
  BY DEF AllocMemory, Advance, TablesInv, TableInv
<1>5. TableInv' /\ HeapInv'
  BY <1>3, AllocTable, AllocHeap DEF TablesInv
<1>6. vram_free' \in 0 .. VramSize /\ Len(allocations') <= MaxAllocs
  <2>1. Len(allocations) \in Nat /\ {MaxAllocs, VramSize} \subseteq Nat
    BY TableLen, GpuAssumption DEF TablesInv, TableInv
  <2>2. vram_free \in Nat /\ vram_free <= VramSize
    BY <2>1 DEF TablesInv
  <2> QED
    BY <1>1, <2>1, <2>2
<1>7. next_gpu_addr < next_gpu_addr' /\ next_gpu_addr' <= AddrLimit /\ next_gpu_addr <= next_gpu_addr'
  BY <1>3, <1>4
<1> QED
  BY <1>1, <1>5, <1>6, <1>7 DEF TablesInv, Serves

LEMMA AllocFailsServes ==
  ASSUME TablesInv, NEW n \in Nat, NEW type, AllocMemoryFails(n, type),
         UNCHANGED <<gpu_ready, channels, host>>
  PROVE  Serves(Pushed(allocations))
<1>1. Rounded(n) \in Nat
  BY RoundedType
<1>2. /\ next_gpu_addr \in Nat /\ next_gpu_addr' = next_gpu_addr + Rounded(n)
      /\ next_gpu_addr + Rounded(n) <= AddrLimit /\ UNCHANGED <<vram_free, allocations>>
      /\ gpu_ready
  BY DEF AllocMemoryFails, Advance, TablesInv, TableInv
<1>3. TableInv' /\ HeapInv'
  BY AllocFailsTable, AllocFailsHeap DEF TablesInv
<1>4. next_gpu_addr <= next_gpu_addr' /\ next_gpu_addr' <= AddrLimit
  BY <1>1, <1>2
<1> QED
  BY <1>2, <1>3, <1>4 DEF TablesInv, ChannelsInv, Serves

\* What no record is at is not freed.
LEMMA NothingFreed ==
  ASSUME NEW p, \A i \in 1 .. Len(allocations) : allocations[i].addr # p
  PROVE  WithoutRecord(p) = allocations
<1> DEFINE I == {j \in 1 .. Len(allocations) : allocations[j].addr = p}
<1>1. RecordAt(p) = IF I # {} THEN Min(I) ELSE 0
  BY DEF RecordAt, SelectInSeq
<1>2. I = {}
  OBVIOUS
<1> HIDE DEF I
<1> QED
  BY <1>1, <1>2 DEF WithoutRecord

\* A free by address: of a push buffer with its channel, or of anything that
\* is no push buffer.
LEMMA FreeServes ==
  ASSUME TablesInv, NEW p, FreeMemory(p, 0, "system"), UNCHANGED <<gpu_ready, host>>,
         \/ p \notin Pushed(allocations) /\ UNCHANGED channels
         \/ p \in Range(channels) /\ channels' = RemoveFirst(channels, p)
  PROVE  Serves(Pushed(allocations) \ {p})
<1>0. /\ next_gpu_addr \in Nat /\ next_gpu_addr' = next_gpu_addr /\ gpu_ready
      /\ vram_free' = vram_free + 0 /\ VramSize \in Nat /\ Len(allocations) \in Nat
      /\ MaxAllocs \in Nat
  BY TableLen, GpuAssumption DEF FreeMemory, TablesInv, TableInv
<1>1. vram_free' \in 0 .. VramSize
  BY <1>0 DEF TablesInv
<1>2. TableInv'
  BY FreeTable DEF TablesInv
<1> DEFINE Freed == /\ Sized(allocations') /\ HeapInv' /\ Len(allocations') <= MaxAllocs
                    /\ Pushed(allocations') = Pushed(allocations) \ {p}
<1>3. Freed
  <2>1. CASE \A i \in 1 .. Len(allocations) : allocations[i].addr # p
    <3>1. allocations' = allocations
      BY <2>1, NothingFreed DEF FreeMemory
    <3>2. p \notin Pushed(allocations)
      BY <2>1 DEF Pushed
    <3> QED
      BY <1>0, <3>1, <3>2 DEF TablesInv, HeapInv, StoresInv, HostTyped
  <2>2. ASSUME NEW i \in 1 .. Len(allocations), allocations[i].addr = p
        PROVE  Freed
    <3>1. allocations' = RemoveAt(allocations, i)
      BY <2>2, FirstAtAddress DEF FreeMemory, TablesInv
    <3>2. Sized(allocations') /\ Pushed(allocations') = Pushed(allocations) \ {p}
      BY <2>2, <3>1, RemoveAccount DEF TablesInv, TableInv
    <3>3. Len(allocations') = Len(allocations) - 1
      BY <3>1, RemoveAtItems DEF TablesInv, TableInv, Table
    <3>4. HeapInv'
      BY <2>2, FreeHeap DEF TablesInv
    <3>5. Len(allocations') <= MaxAllocs
      BY <1>0, <3>3 DEF TablesInv
    <3> QED
      BY <3>2, <3>4, <3>5
  <2> QED
    BY <2>1, <2>2
<1>4. ChannelsInv'
  <2>1. CASE p \notin Pushed(allocations) /\ UNCHANGED channels
    BY <1>3, <2>1 DEF TablesInv, ChannelsInv
  <2>2. CASE p \in Range(channels) /\ channels' = RemoveFirst(channels, p)
    <3>1. Len(channels) \in Nat /\ MaxChannels \in Nat /\ Len(channels) <= MaxChannels
      BY LenProperties, GpuAssumption DEF TablesInv, ChannelsInv
    <3>2. PICK c \in 1 .. Len(channels) : channels[c] = p
      BY <2>2, LenProperties DEF TablesInv, ChannelsInv, Range
    <3>3. /\ channels' \in Seq(Nat) /\ Injective(channels')
          /\ Range(channels') = Range(channels) \ {p} /\ Len(channels') = Len(channels) - 1
      BY <2>2, <3>2, RemoveItem DEF TablesInv, ChannelsInv
    <3> QED
      BY <1>3, <3>1, <3>3 DEF TablesInv, ChannelsInv
  <2> QED
    BY <2>1, <2>2
<1> QED
  BY <1>0, <1>1, <1>2, <1>3, <1>4 DEF TablesInv, Serves

LEMMA TransferServes ==
  ASSUME TablesInv, NEW a \in Nat, NEW b \in Nat, NEW n \in Nat, NEW src,
         \/ MemcpyH2D(a, src, n) /\ \A i \in 0 .. (n - 1) : src[i] \in Values
         \/ n <= HostCells /\ MemcpyD2H(a, n)
         \/ n <= HostCells /\ MemcpyD2D(a, b, n),
         UNCHANGED gpu_ready
  PROVE  Serves(Pushed(allocations))
<1>1. n \in Nat \ {0} /\ gpu_ready
  BY DEF MemcpyH2D, MemcpyD2H, MemcpyD2D
<1>2. n <= HostCells => n \in 1 .. HostCells
  BY <1>1, GpuAssumption
<1>3. HeapInv'
  BY <1>1, <1>2, StoredFromAnywhere, ReadHeap, CopyHeap DEF TablesInv
<1>4. TableInv'
  BY TransferTable DEF TablesInv
<1>5. /\ Sized(allocations') /\ Pushed(allocations') = Pushed(allocations)
      /\ Len(allocations') = Len(allocations)
      /\ UNCHANGED <<next_gpu_addr, vram_free, channels>>
  BY TransferTotals DEF TablesInv
<1>6. next_gpu_addr \in Nat
  BY DEF TablesInv, TableInv
<1> QED
  BY <1>1, <1>3, <1>4, <1>5, <1>6 DEF TablesInv, ChannelsInv, Serves

LEMMA NothingServes ==
  ASSUME TablesInv, UNCHANGED gpuVars
  PROVE  Serves(Pushed(allocations))
<1>1. next_gpu_addr \in Nat
  BY DEF TablesInv, TableInv
<1> QED
  BY <1>1
     DEF gpuVars, TablesInv, TableInv, HeapInv, StoresInv, HostTyped,
         ChannelsInv, Serves

\* A channel is made, or is not.
LEMMA ChannelServes ==
  ASSUME NoWrap, TablesInv, CreateChannel, UNCHANGED <<gpu_ready, host>>
  PROVE  Serves(Pushed(allocations) \cup {next_gpu_addr})
<1>1. PushBuffer \in Sizes \cup {PushBuffer} /\ "system" \in Types
  BY DEF Types
<1>2. AllocMemory(PushBuffer, "system") /\ channels' = Append(channels, next_gpu_addr)
  BY DEF CreateChannel
<1>3. /\ Pushed(allocations') = Pushed(allocations) \cup {next_gpu_addr}
      /\ next_gpu_addr \notin Pushed(allocations)
  BY <1>1, <1>2, AllocTotals DEF TablesInv
<1>4. next_gpu_addr \in Nat /\ Len(channels) \in Nat /\ MaxChannels \in Nat
      /\ Len(channels) < MaxChannels
  <2>1. MaxChannels \in Nat
    BY GpuAssumption
  <2> QED
    BY <2>1, LenProperties DEF TablesInv, TableInv, ChannelsInv, CreateChannel
<1>5. ChannelsInv'
  <2>1. /\ channels' \in Seq(Nat) /\ Injective(channels')
        /\ Len(channels') = Len(channels) + 1
        /\ Range(channels') = Range(channels) \cup {next_gpu_addr}
    BY <1>2, <1>3, <1>4, AppendItem DEF TablesInv, ChannelsInv
  <2> QED
    BY <1>3, <1>4, <2>1 DEF TablesInv, ChannelsInv
<1> QED
  BY <1>1, <1>2, <1>5, AllocServes

LEMMA ChannelFailsServes ==
  ASSUME TablesInv, CreateChannelFails, UNCHANGED <<gpu_ready, host>>
  PROVE  Serves(Pushed(allocations))
<1>1. UNCHANGED channels
  BY DEF CreateChannelFails
<1>2. CASE AllocMemoryFails(PushBuffer, "system")
  BY <1>1, <1>2, GpuAssumption, AllocFailsServes
<1>3. CASE UNCHANGED <<next_gpu_addr, vram_free, allocations>>
  <2>1. UNCHANGED gpuVars
    BY <1>1, <1>3 DEF gpuVars
  <2> QED
    BY <2>1, NothingServes
<1> QED
  BY <1>2, <1>3 DEF CreateChannelFails

-----------------------------------------------------------------------------
(***************************************************************************)
(* What the application holds.                                             *)
(***************************************************************************)
\* A device pointer was handed out once, and is no push buffer's.
GivenInv ==
  /\ given \subseteq FirstAddr .. (next_gpu_addr - 1)
  /\ given \cap Pushed(allocations) = {}

HostInv ==
  /\ host_allocs \in Seq(Hosts) /\ Injective(host_allocs)
  /\ Len(host_allocs) <= MaxHostAllocs
  /\ host_live \subseteq Hosts /\ Range(host_allocs) \cup held \subseteq host_live

HandlesInv == TablesInv /\ GivenInv /\ HostInv

Follows ==
  gpu_ready' => \A ch \in Range(channels) \ Range(channels') : ch \in streams \ streams'

\* A step of the application: what it holds stays sound, and no channel goes
\* without its stream.
Sound == HandlesInv' /\ Follows

LEMMA PushBuffersBelow ==
  ASSUME TablesInv
  PROVE  Pushed(allocations) \subseteq 0 .. (next_gpu_addr - 1) /\ next_gpu_addr \in Nat
<1>1. ASSUME NEW i \in 1 .. Len(allocations)
      PROVE  allocations[i].addr \in 0 .. (next_gpu_addr - 1)
  <2>1. /\ allocations[i].addr \in Nat /\ allocations[i].size \in Nat
        /\ allocations[i].size > 0 /\ next_gpu_addr \in Nat
        /\ allocations[i].addr + allocations[i].size <= next_gpu_addr
    BY DEF TablesInv, TableInv, Table, IsRecord, Ends, Sized
  <2> QED
    BY <2>1
<1>2. next_gpu_addr \in Nat
  BY DEF TablesInv, TableInv
<1> QED
  BY <1>1, <1>2 DEF Pushed

LEMMA LaterAddresses ==
  ASSUME NEW a \in Nat, NEW b \in Nat, NEW c \in Nat, b <= c
  PROVE  /\ a .. (b - 1) \subseteq a .. (c - 1)
         /\ a <= b /\ b < c => b \in a .. (c - 1)
OBVIOUS

LEMMA GivenKept ==
  ASSUME TablesInv, GivenInv, NEW S, Serves(S), UNCHANGED given,
         S \subseteq Pushed(allocations) \cup {next_gpu_addr}
  PROVE  GivenInv'
<1>1. /\ next_gpu_addr \in Nat /\ next_gpu_addr' \in Nat /\ next_gpu_addr <= next_gpu_addr'
      /\ FirstAddr \in Nat
  BY GpuAssumption DEF TablesInv, TableInv, Serves
<1>2. given' \subseteq FirstAddr .. (next_gpu_addr' - 1)
  BY <1>1, LaterAddresses DEF GivenInv
<1>3. next_gpu_addr \notin given
  BY <1>1 DEF GivenInv
<1>4. given' \cap S = {}
  BY <1>3 DEF GivenInv
<1> QED
  BY <1>2, <1>4 DEF GivenInv, Serves

LEMMA FollowsKept ==
  ASSUME TablesInv, NEW S, Serves(S), Pushed(allocations) \subseteq S
  PROVE  Follows
BY DEF TablesInv, ChannelsInv, Serves, Follows

\* A step that leaves the host buffers alone.
LEMMA HostKept ==
  ASSUME HostInv, UNCHANGED <<host_allocs, host_live>>, held' \subseteq held
  PROVE  HostInv'
BY DEF HostInv

LEMMA UntrackKeeps ==
  ASSUME HostInv, NEW p \in Range(host_allocs), Untrack(p), held' = held \ {p}
  PROVE  HostInv'
<1>1. PICK i \in 1 .. Len(host_allocs) : host_allocs[i] = p
  BY LenProperties DEF HostInv, Range
<1>2. /\ host_allocs' \in Seq(Hosts) /\ Injective(host_allocs')
      /\ Range(host_allocs') = Range(host_allocs) \ {p}
      /\ Len(host_allocs') = Len(host_allocs) - 1
  BY <1>1, RemoveItem DEF HostInv, Untrack
<1>3. Len(host_allocs) \in Nat /\ MaxHostAllocs \in Nat
  BY LenProperties, RuntimeAssumption DEF HostInv
<1> QED
  BY <1>2, <1>3 DEF HostInv, Untrack

LEMMA TrackKeeps ==
  ASSUME HostInv, NEW h \in Hosts \ host_live, TrackHostAlloc(h),
         host_live' = host_live \cup {h}, held' = held \cup {h}
  PROVE  HostInv'
<1>1. Len(host_allocs) \in Nat /\ MaxHostAllocs \in Nat /\ h \notin Range(host_allocs)
  BY LenProperties, RuntimeAssumption DEF HostInv
<1>2. CASE Len(host_allocs) < MaxHostAllocs
  <2>1. /\ host_allocs' \in Seq(Hosts) /\ Injective(host_allocs')
        /\ Range(host_allocs') = Range(host_allocs) \cup {h}
        /\ Len(host_allocs') = Len(host_allocs) + 1
    BY <1>1, <1>2, AppendItem DEF HostInv, TrackHostAlloc
  <2> QED
    BY <1>1, <1>2, <2>1 DEF HostInv
<1>3. CASE host_allocs' = host_allocs
  BY <1>3 DEF HostInv
<1> QED
  BY <1>2, <1>3 DEF TrackHostAlloc

\* Calls that free nothing and hand out nothing of the host or the device.
LEMMA PlainSound ==
  ASSUME HandlesInv, NEW S, Serves(S), Pushed(allocations) \subseteq S,
         S \subseteq Pushed(allocations) \cup {next_gpu_addr},
         UNCHANGED <<given, held, host_allocs, host_live>>
  PROVE  Sound
BY GivenKept, FollowsKept, HostKept DEF HandlesInv, Serves, Sound

LEMMA SameSound ==
  ASSUME HandlesInv, UNCHANGED <<gpuVars, given>>, HostInv'
  PROVE  Sound
<1>1. Serves(Pushed(allocations))
  BY NothingServes DEF HandlesInv
<1> QED
  BY <1>1, GivenKept, FollowsKept DEF HandlesInv, Serves, Sound

LEMMA MallocSound ==
  ASSUME NoWrap, HandlesInv, NEW n \in Sizes, cbMalloc(n)
  PROVE  Sound
<1>1. CASE Invalid
  BY <1>1, SameSound, HostKept DEF Invalid, rtVars, tableVars, HandlesInv
<1>2. ASSUME NEW err \in Errors, cudaMalloc(n, err), UNCHANGED held,
             given' = IF err = "success" THEN given \cup {next_gpu_addr} ELSE given
      PROVE  Sound
  <2>1. UNCHANGED <<host_allocs, host_live>> /\ n \in Nat
    BY <1>2, GpuAssumption DEF cudaMalloc, tableVars
  <2>2. HostInv'
    BY <1>2, <2>1, HostKept DEF HandlesInv
  <2>3. CASE UNCHANGED gpuVars /\ err # "success"
    BY <1>2, <2>2, <2>3, SameSound
  <2>4. CASE AllocMemoryFails(n, "video") /\ UNCHANGED <<gpu_ready, channels, host>> /\ err # "success"
    <3>1. Serves(Pushed(allocations))
      BY <2>1, <2>4, AllocFailsServes DEF HandlesInv
    <3> QED
      BY <1>2, <2>1, <2>4, <3>1, PlainSound
  <2>5. CASE AllocMemory(n, "video") /\ UNCHANGED <<gpu_ready, channels, host>> /\ err = "success"
    <3>1. /\ Pushed(allocations') = Pushed(allocations)
          /\ next_gpu_addr \notin Pushed(allocations)
      BY <2>5, AllocTotals DEF HandlesInv, TablesInv, Types
    <3>2. ChannelsInv'
      BY <2>5, <3>1 DEF HandlesInv, TablesInv, ChannelsInv
    <3>3. Serves(Pushed(allocations)) /\ next_gpu_addr < next_gpu_addr'
      BY <2>5, <3>2, AllocServes DEF HandlesInv, Types
    <3>4. GivenInv'
      <4>1. /\ next_gpu_addr \in Nat /\ next_gpu_addr' \in Nat /\ FirstAddr \in Nat
            /\ FirstAddr <= next_gpu_addr
        BY <3>3, GpuAssumption
           DEF HandlesInv, TablesInv, TableInv, HeapInv, Serves
      <4>2. given' = given \cup {next_gpu_addr}
        BY <1>2, <2>5
      <4>3. given' \subseteq FirstAddr .. (next_gpu_addr' - 1)
        <5>1. /\ FirstAddr .. (next_gpu_addr - 1) \subseteq FirstAddr .. (next_gpu_addr' - 1)
              /\ next_gpu_addr \in FirstAddr .. (next_gpu_addr' - 1)
          <6>1. next_gpu_addr <= next_gpu_addr'
            BY <3>3, <4>1
          <6> QED
            BY <3>3, <4>1, <6>1, LaterAddresses
        <5> QED
          BY <4>2, <5>1 DEF HandlesInv, GivenInv
      <4> QED
        BY <3>1, <4>2, <4>3 DEF HandlesInv, GivenInv
    <3> QED
      BY <2>2, <3>3, <3>4, FollowsKept DEF HandlesInv, Serves, Sound
  <2> QED
    BY <1>2, <2>3, <2>4, <2>5 DEF cudaMalloc, NoGpu
<1> QED
  BY <1>1, <1>2 DEF cbMalloc

\* A late or double cbFree reaches no push buffer: a device pointer is never
\* one, and a host buffer is at no address of the device.
LEMMA FreeSound ==
  ASSUME HandlesInv, NEW p \in given \cup held, cbFree(p)
  PROVE  Sound
<1>1. PICK err \in Errors : /\ cudaFree(p, err)
                            /\ held' = IF err = "success" THEN held \ {p} ELSE held
  BY DEF cbFree
<1>2. UNCHANGED given
  BY DEF cbFree
<1>3. CASE p \in Range(host_allocs)
  BY <1>1, <1>2, <1>3, UntrackKeeps, SameSound DEF cudaFree, HandlesInv
<1>4. CASE NoGpu(err) /\ UNCHANGED <<host_allocs, host_live>>
  BY <1>1, <1>2, <1>4, HostKept, SameSound DEF NoGpu, HandlesInv
<1>5. CASE /\ FreeMemory(p, 0, "system") /\ UNCHANGED <<gpu_ready, channels, host>>
           /\ UNCHANGED <<host_allocs, host_live>>
  <2>1. p \notin Pushed(allocations)
    <3>1. CASE p \in given
      BY <3>1 DEF HandlesInv, GivenInv
    <3>2. CASE p \in held
      <4>1. p \in Hosts
        BY <3>2 DEF HandlesInv, HostInv
      <4>2. 0 .. (next_gpu_addr - 1) \subseteq 0 .. AddrLimit
        BY PushBuffersBelow, GpuAssumption DEF HandlesInv, TablesInv
      <4>3. Pushed(allocations) \subseteq 0 .. AddrLimit
        BY <4>2, PushBuffersBelow DEF HandlesInv
      <4> QED
        BY <4>1, <4>3, RuntimeAssumption
    <3> QED
      BY <3>1, <3>2
  <2>2. Serves(Pushed(allocations) \ {p})
    BY <1>5, <2>1, FreeServes DEF HandlesInv
  <2>3. Serves(Pushed(allocations))
    BY <2>1, <2>2
  <2>4. HostInv'
    BY <1>1, <1>5, HostKept DEF HandlesInv
  <2> QED
    BY <1>2, <2>3, <2>4, GivenKept, FollowsKept DEF HandlesInv, Serves, Sound
<1> QED
  BY <1>1, <1>3, <1>4, <1>5 DEF cudaFree

LEMMA TransferSound ==
  ASSUME RequestsFit, HandlesInv, NEW p \in given, NEW q \in given, NEW n \in Sizes,
         NEW kind, cbMemcpy(p, q, n, kind) \/ cbMemcpyAsync(p, q, n, kind)
  PROVE  Sound
<1>1. CASE Invalid
  BY <1>1, SameSound, HostKept DEF Invalid, rtVars, tableVars, HandlesInv
<1>2. ASSUME NEW err \in Errors, cudaMemcpy(p, q, n, kind, err), Keeps
      PROVE  Sound
  <2>1. UNCHANGED <<host_allocs, host_live, given, held>>
    BY <1>2 DEF cudaMemcpy, tableVars, Keeps
  <2>2. CASE UNCHANGED gpuVars
    BY <2>1, <2>2, SameSound, HostKept DEF HandlesInv
  <2>3. CASE /\ MemcpyH2D(p, host, n) \/ MemcpyD2H(q, n) \/ MemcpyD2D(p, q, n)
             /\ UNCHANGED gpu_ready
    <3>1. FirstAddr \in Nat /\ next_gpu_addr \in Nat /\ HostCells \in Nat
      BY GpuAssumption DEF HandlesInv, TablesInv, TableInv
    <3>2. p \in Nat /\ q \in Nat
      BY <3>1 DEF HandlesInv, GivenInv
    <3>3. n \in Nat /\ n <= HostCells
      BY GpuAssumption DEF RequestsFit
    <3>4. \A i \in 0 .. (n - 1) : host[i] \in Values
      BY <3>1, <3>3 DEF HandlesInv, TablesInv, HeapInv, StoresInv, HostTyped
    <3>5. Serves(Pushed(allocations))
      <4>1. CASE MemcpyH2D(p, host, n)
        BY <2>3, <3>2, <3>3, <3>4, <4>1, TransferServes DEF HandlesInv
      <4>2. CASE MemcpyD2H(q, n)
        BY <2>3, <3>2, <3>3, <4>2, TransferServes DEF HandlesInv
      <4>3. CASE MemcpyD2D(p, q, n)
        BY <2>3, <3>2, <3>3, <4>3, TransferServes DEF HandlesInv
      <4> QED
        BY <2>3, <4>1, <4>2, <4>3
    <3> QED
      BY <2>1, <3>5, PlainSound
  <2> QED
    BY <1>2, <2>2, <2>3 DEF cudaMemcpy, NoGpu
<1> QED
  BY <1>1, <1>2 DEF cbMemcpy, cbMemcpyAsync

LEMMA MemsetSound ==
  ASSUME HandlesInv, NEW p \in given, NEW v \in Values, NEW n \in Sizes, cbMemset(p, v, n)
  PROVE  Sound
<1>1. PICK err \in Errors : cudaMemset(p, v, n, err)
  BY DEF cbMemset
<1>2. UNCHANGED <<host_allocs, host_live, given, held>>
  BY <1>1 DEF cbMemset, cudaMemset, tableVars, Keeps
<1>3. CASE UNCHANGED gpuVars
  BY <1>2, <1>3, SameSound, HostKept DEF HandlesInv
<1>4. CASE MemcpyH2D(p, [i \in 0 .. (n - 1) |-> v], n) /\ UNCHANGED gpu_ready
  <2> DEFINE src == [i \in 0 .. (n - 1) |-> v]
  <2>1. FirstAddr \in Nat /\ next_gpu_addr \in Nat /\ n \in Nat
    BY GpuAssumption DEF HandlesInv, TablesInv, TableInv
  <2>2. p \in Nat
    BY <2>1 DEF HandlesInv, GivenInv
  <2>3. MemcpyH2D(p, src, n) /\ \A i \in 0 .. (n - 1) : src[i] \in Values
    BY <1>4
  <2> HIDE DEF src
  <2>4. Serves(Pushed(allocations))
    BY <1>4, <2>1, <2>2, <2>3, TransferServes DEF HandlesInv
  <2> QED
    BY <1>2, <2>4, PlainSound
<1> QED
  BY <1>1, <1>3, <1>4 DEF cudaMemset, NoGpu

LEMMA HostSound ==
  ASSUME HandlesInv, NEW n, NEW p, cbMallocHost(n) \/ (p \in held /\ cbFreeHost(p))
  PROVE  Sound
<1>1. CASE Invalid
  BY <1>1, SameSound, HostKept DEF Invalid, rtVars, tableVars, HandlesInv
<1>2. ASSUME NEW h \in Hosts, NEW err \in Errors, cudaMallocHost(n, h, err), UNCHANGED given,
             held' = IF err = "success" THEN held \cup {h} ELSE held
      PROVE  Sound
  <2>1. UNCHANGED gpuVars
    BY <1>2 DEF cudaMallocHost
  <2>2. HostInv'
    <3>1. CASE err # "success" /\ UNCHANGED <<host_allocs, host_live>>
      BY <1>2, <3>1, HostKept DEF HandlesInv
    <3>2. CASE /\ h \in Hosts \ host_live /\ err = "success"
               /\ TrackHostAlloc(h) /\ host_live' = host_live \cup {h}
      BY <1>2, <3>2, TrackKeeps DEF HandlesInv
    <3> QED
      BY <1>2, <3>1, <3>2 DEF cudaMallocHost
  <2> QED
    BY <1>2, <2>1, <2>2, SameSound
<1>3. CASE p \in held /\ cbFreeHost(p)
  <2>1. PICK err \in Errors : cudaFreeHost(p, err)
    BY <1>3 DEF cbFreeHost
  <2>2. UNCHANGED <<gpuVars, given>> /\ held' = held \ {p}
    BY <1>3, <2>1 DEF cbFreeHost, cudaFreeHost
  <2>3. HostInv'
    BY <2>1, <2>2, UntrackKeeps, HostKept DEF cudaFreeHost, HandlesInv
  <2> QED
    BY <2>2, <2>3, SameSound
<1> QED
  BY <1>1, <1>2, <1>3 DEF cbMallocHost

LEMMA MemorySound ==
  ASSUME NoWrap, RequestsFit, HandlesInv, MemoryCalls
  PROVE  Sound
<1>1. CASE \E n \in Sizes : cbMalloc(n) \/ cbMallocHost(n)
  BY <1>1, MallocSound, HostSound
<1>2. CASE \E p \in given \cup held : cbFree(p) \/ cbFreeHost(p)
  BY <1>2, FreeSound, HostSound DEF cbFreeHost
<1>3. CASE \E p \in given, n \in Sizes :
             \/ \E kind \in {"h2h", "h2d", "d2h", "other"} :
                  cbMemcpy(p, p, n, kind) \/ cbMemcpyAsync(p, p, n, kind)
             \/ \E q \in given : cbMemcpy(p, q, n, "d2d") \/ cbMemcpyAsync(p, q, n, "d2d")
             \/ \E v \in Values : cbMemset(p, v, n)
  BY <1>3, TransferSound, MemsetSound
<1> QED
  BY <1>1, <1>2, <1>3 DEF MemoryCalls

\* Only the channel of the stream that is destroyed goes.
LEMMA StreamDestroySound ==
  ASSUME HandlesInv, NEW s \in streams, cbStreamDestroy(s)
  PROVE  Sound
<1>1. PICK err \in Errors : cudaStreamDestroy(s, err)
  BY DEF cbStreamDestroy
<1>2. /\ UNCHANGED <<host_allocs, host_live, given, held>> /\ streams' = streams \ {s}
      /\ (gpu_ready => s \in Range(channels))
  BY <1>1 DEF cbStreamDestroy, cudaStreamDestroy, OwnStream, Keeps
<1>3. CASE NoGpu(err)
  BY <1>2, <1>3, SameSound, HostKept DEF NoGpu, HandlesInv
<1>4. CASE DestroyChannel(s) /\ UNCHANGED <<gpu_ready, host>>
  <2>1. FreeMemory(s, 0, "system") /\ channels' = RemoveFirst(channels, s)
    BY <1>4 DEF DestroyChannel
  <2>2. s \in Range(channels)
    BY <1>2, <2>1 DEF FreeMemory
  <2>3. Serves(Pushed(allocations) \ {s})
    BY <1>4, <2>1, <2>2, FreeServes DEF HandlesInv
  <2>4. GivenInv'
    BY <1>2, <2>3, GivenKept DEF HandlesInv
  <2>5. Follows
    <3>1. Range(channels') = Range(channels) \ {s}
      BY <2>3 DEF HandlesInv, TablesInv, ChannelsInv, Serves
    <3> QED
      BY <1>2, <3>1 DEF Follows
  <2>6. HostInv'
    BY <1>2, HostKept DEF HandlesInv
  <2> QED
    BY <2>3, <2>4, <2>5, <2>6 DEF HandlesInv, Serves, Sound
<1> QED
  BY <1>1, <1>3, <1>4 DEF cudaStreamDestroy

\* A stream or a launch makes a channel, fails to, or has one already.
LEMMA ChannelSound ==
  ASSUME NoWrap, HandlesInv, UNCHANGED <<given, held, host_allocs, host_live>>,
         \/ (CreateChannel \/ CreateChannelFails) /\ UNCHANGED <<gpu_ready, host>>
         \/ UNCHANGED gpuVars
  PROVE  Sound
<1>1. CASE CreateChannel /\ UNCHANGED <<gpu_ready, host>>
  <2>1. Serves(Pushed(allocations) \cup {next_gpu_addr})
    BY <1>1, ChannelServes DEF HandlesInv
  <2> QED
    BY <2>1, PlainSound
<1>2. CASE CreateChannelFails /\ UNCHANGED <<gpu_ready, host>>
  <2>1. Serves(Pushed(allocations))
    BY <1>2, ChannelFailsServes DEF HandlesInv
  <2> QED
    BY <2>1, PlainSound
<1>3. CASE UNCHANGED gpuVars
  BY <1>3, SameSound, HostKept DEF HandlesInv
<1> QED
  BY <1>1, <1>2, <1>3

LEMMA StreamsSound ==
  ASSUME NoWrap, HandlesInv, StreamCalls
  PROVE  Sound
<1>1. CASE cbStreamCreate
  <2>1. PICK err \in Errors : cudaStreamCreate(err)
    BY <1>1 DEF cbStreamCreate
  <2>2. UNCHANGED <<given, held, host_allocs, host_live>>
    BY <1>1, <2>1 DEF cbStreamCreate, cudaStreamCreate, Keeps
  <2> QED
    BY <2>1, <2>2, ChannelSound DEF cudaStreamCreate, NoGpu
<1>2. CASE \E s \in streams : cbStreamDestroy(s)
  BY <1>2, StreamDestroySound
<1>3. ASSUME NEW s, NEW fits, cbLaunchKernel(s, fits) PROVE Sound
  <2>1. PICK err \in Errors : cudaLaunchKernel(s # 0, fits, err)
    BY <1>3 DEF cbLaunchKernel
  <2>2. UNCHANGED <<given, held, host_allocs, host_live>>
    BY <1>3, <2>1 DEF cbLaunchKernel, cudaLaunchKernel, tableVars, Keeps
  <2>3. \/ (CreateChannel \/ CreateChannelFails) /\ UNCHANGED <<gpu_ready, host>>
        \/ UNCHANGED gpuVars
    BY <2>1 DEF cudaLaunchKernel, NoGpu, gpuVars
  <2> QED
    BY <2>2, <2>3, ChannelSound
<1> QED
  BY <1>1, <1>2, <1>3 DEF StreamCalls

LEMMA OtherCallsSound ==
  ASSUME HandlesInv,
         \/ cbGetDevice \/ cbQuery \/ cbGetLastError
         \/ \E device \in 0 .. 1 : cbSetDevice(device) \/ cbGetDeviceProperties(device)
  PROVE  Sound
<1>1. UNCHANGED <<gpuVars, host_allocs, host_live, given, held>>
  BY
     DEF cbGetDevice, cbQuery, cbGetLastError, cbSetDevice,
         cbGetDeviceProperties,
         cudaMemGetInfo, cudaDeviceSynchronize, cudaDeviceReset, cudaStreamSynchronize,
         NeedsGpu, rtVars, tableVars, Keeps
<1> QED
  BY <1>1, SameSound, HostKept DEF HandlesInv

\* Initialisation and shutdown open and wipe the tables of the driver, and
\* the last step of a shutdown the table of host buffers.
LEMMA StepsSound ==
  ASSUME HandlesInv, (InitStep \/ StopStep) /\ UNCHANGED apiVars
  PROVE  Sound
<1>1. UNCHANGED <<given, held>>
  BY DEF apiVars
<1>2. HostInv'
  <2>1. CASE UNCHANGED <<host_allocs, host_live>>
    BY <1>1, <2>1, HostKept DEF HandlesInv
  <2>2. CASE host_allocs' = <<>> /\ host_live' = host_live
    <3>1. /\ <<>> \in Seq(Hosts) /\ Len(<<>>) = 0 /\ DOMAIN <<>> = {}
          /\ MaxHostAllocs \in Nat
      BY EmptySeq, RuntimeAssumption
    <3>2. Range(<<>>) = {} /\ Injective(<<>>)
      BY <3>1 DEF Range, Injective
    <3> QED
      BY <1>1, <2>2, <3>1, <3>2 DEF HandlesInv, HostInv
  <2> QED
    BY <2>1, <2>2
       DEF InitStep, InitController, InitScan, InitPcie, InitTunnels, InitBus,
           InitGpu,
           InitVirtual, UndoInit, StopStep, StopGpu, StopPcie, StopController, tableVars
<1>3. CASE UNCHANGED gpuVars
  BY <1>1, <1>2, <1>3, SameSound
<1>4. CASE (GpuInit \/ GpuShutdown) /\ UNCHANGED host
  <2>1. TablesInv' /\ UNCHANGED next_gpu_addr /\ Pushed(allocations') = {}
    BY <1>4, WipeTables DEF HandlesInv
  <2>2. GivenInv'
    BY <1>1, <2>1 DEF HandlesInv, GivenInv
  <2>3. Follows
    <3>1. CASE GpuInit
      <4>1. channels = <<>>
        BY <3>1 DEF GpuInit, HandlesInv, TablesInv
      <4>2. DOMAIN <<>> = {}
        BY EmptySeq
      <4>3. Range(channels) = {}
        BY <4>1, <4>2 DEF Range
      <4> QED
        BY <4>3 DEF Follows
    <3>2. CASE GpuShutdown
      BY <3>2 DEF GpuShutdown, Follows
    <3> QED
      BY <1>4, <3>1, <3>2
  <2> QED
    BY <1>2, <2>1, <2>2, <2>3 DEF HandlesInv, Sound
<1> QED
  BY <1>3, <1>4
     DEF InitStep, InitController, InitScan, InitPcie, InitTunnels, InitBus,
         InitGpu,
         InitVirtual, UndoInit, StopStep, StopGpu, StopPcie, StopController, gpuVars

LEMMA HandlesInitially == Init => HandlesInv
<1> SUFFICES ASSUME Init PROVE HandlesInv
  OBVIOUS
<1>1. /\ GpuStart /\ host_allocs = <<>> /\ host_live = {} /\ given = {} /\ held = {}
  BY DEF Init, RuntimeStart
<1>2. <<>> \in Seq(Hosts) /\ Len(<<>>) = 0 /\ DOMAIN <<>> = {} /\ MaxHostAllocs \in Nat
  BY EmptySeq, RuntimeAssumption
<1>3. Range(<<>>) = {} /\ Injective(<<>>)
  BY <1>2 DEF Range, Injective
<1> QED
  BY <1>1, <1>2, <1>3, TablesInitially DEF HandlesInv, GivenInv, HostInv

LEMMA HandlesNext ==
  ASSUME NoWrap, RequestsFit, HandlesInv, [Next]_allVars
  PROVE  Sound
<1>1. CASE UNCHANGED allVars
  BY <1>1, SameSound, HostKept
     DEF allVars, rtVars, tableVars, apiVars, HandlesInv
<1>2. CASE Call
  BY <1>2, MemorySound, StreamsSound, OtherCallsSound DEF Call
<1>3. CASE \/ cbInit \/ InitReturns \/ cbShutdown \/ ShutdownReturns
           \/ \E call \in ViaCuda : AutoInit(call)
  <2>1. UNCHANGED <<gpuVars, host_allocs, host_live, given, held>>
    BY <1>3
       DEF cbInit, InitReturns, cbShutdown, ShutdownReturns, AutoInit, rtVars,
           tableVars
  <2> QED
    BY <2>1, SameSound, HostKept DEF HandlesInv
<1> QED
  BY <1>1, <1>2, <1>3, StepsSound, Steps

\* A channel lives until its own stream is destroyed or the runtime is shut
\* down, although nv_gpu_free_memory goes by the address alone and takes the
\* application's word for it.
THEOREM ChannelsAreTheirStreams ==
  ASSUME NoWrap, RequestsFit PROVE Spec => ChannelsFollowStreams
<1>1. HandlesInv /\ [Next]_allVars
        => HandlesInv' /\ (gpu_ready' => \A ch \in Range(channels) \ Range(channels') :
                                           ch \in streams \ streams')
  BY HandlesNext DEF Sound, Follows
<1> QED
  BY HandlesInitially, <1>1, PTL DEF Spec, ChannelsFollowStreams

\* What the application holds is accounted for through any sequence of calls,
\* sessions and failures: host buffers are tracked once and live, and no
\* late or double cbFree reaches the push buffer of a channel.
THEOREM HandlesStaySound ==
  ASSUME NoWrap, RequestsFit, VirtualGpuFits PROVE Spec => []HandlesSound
<1>1. HandlesInv /\ [Next]_allVars => HandlesInv'
  BY HandlesNext DEF Sound
<1>2. ControlInv /\ LinkOrder /\ [Next]_allVars => LinkOrder'
  BY OrderNext
<1>3. ControlInv /\ Flags /\ [Next]_allVars => Flags'
  BY FlagsNext
<1>4. ASSUME ControlInv, Flags, LinkOrder, HandlesInv PROVE HandlesSound
  <2>1. GpuTypeOK
    <3>1. DOMAIN allocations = 1 .. Len(allocations) /\ next_gpu_addr \in Nat
      BY <1>4, TableLen DEF HandlesInv, TablesInv, TableInv
    <3>2. next_gpu_addr \in FirstAddr .. AddrLimit
      BY <1>4, <3>1, GpuAssumption DEF HandlesInv, TablesInv, HeapInv
    <3> QED
      BY <1>4, <3>1, <3>2
         DEF GpuTypeOK, Flags, HandlesInv, TablesInv, ChannelsInv, HeapInv,
             StoresInv,
             Stored, HostTyped, Sized
  <2>2. LinksTypeOK
    <3>1. Range(routers) \subseteq 1 .. MaxRouters
      <4>1. routers \in Seq(1 .. MaxRouters)
        BY <1>4 DEF LinkOrder, LinksInv, RoutesInv
      <4>2. routers \in [1 .. Len(routers) -> 1 .. MaxRouters]
        BY <4>1, LenProperties
      <4> QED
        BY <4>2 DEF Range
    <3> DEFINE Mapped == \A i \in DOMAIN devices : devices[i].mapped \subseteq 0 .. 2
    <3>2. Mapped
      <4>1. CASE devices = <<>>
        BY <4>1, EmptySeq
      <4>2. ASSUME NEW d, IsDevice(d), devices = <<d>> PROVE Mapped
        BY <4>2 DEF IsDevice
      <4> QED
        BY <1>4, <4>1, <4>2 DEF LinkOrder, LinksInv, OnBus
    <3> QED
      BY <1>4, <3>1, <3>2 DEF LinksTypeOK, LinkOrder, LinksInv, RoutesInv
  <2>3. RtTypeOK
    BY <1>4, <2>1, <2>2
       DEF RtTypeOK, ControlInv, Control, ErrorsInv, InitCallers, Flags,
       HandlesInv, HostInv
  <2>4. \A i, j \in DOMAIN host_allocs : host_allocs[i] = host_allocs[j] => i = j
    <3>1. DOMAIN host_allocs = 1 .. Len(host_allocs)
      BY <1>4, LenProperties DEF HandlesInv, HostInv
    <3> QED
      BY <1>4, <3>1 DEF HandlesInv, HostInv, Injective
  <2>5. PushBuffers /\ Disjoint
    <3>1. DOMAIN allocations = 1 .. Len(allocations) /\ DOMAIN channels = 1 .. Len(channels)
      BY <1>4, TableLen, LenProperties
         DEF HandlesInv, TablesInv, TableInv, ChannelsInv
    <3>2. PushBuffers
      BY <1>4, <3>1
         DEF HandlesInv, TablesInv, ChannelsInv, Injective, Pushed, Range,
             PushBuffers
    <3>3. Disjoint
      BY <1>4, <3>1 DEF HandlesInv, TablesInv, TableInv, Table, Ends, Disjoint
    <3> QED
      BY <3>2, <3>3
  <2> QED
    BY <1>4, <2>3, <2>4, <2>5 DEF HandlesSound, HandlesInv, HostInv
<1> QED
  BY ControlInitially, ControlNext, FlagsInitially, OrderInitially,
     HandlesInitially,
     <1>1, <1>2, <1>3, <1>4, PTL DEF Spec

=============================================================================
