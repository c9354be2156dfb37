# CudaBridge in TLA+

Specifications, model-checking runs and proofs about CudaBridge, a C library
that lets a Mac use an NVIDIA GPU over USB4: a stack of a USB4 controller, a
PCIe tunnel, a GPU driver, a CUDA-like runtime and a public API, with an eGPU
connection safety manager, a memory manager and a log beside it.

Run `tlc -config <run>.cfg MC<...>.tla` for a run of the tables below (the
module of each is in `PROJECT.json`), and `tlapm <module>Proofs.tla` for the
proofs. `PROJECT.json` also holds the correspondence of every definition to the
lines of the source, the hazards each property is aimed at, and for every
property a mutated definition that makes it fail.

## The system

| Part | State | Operations | Meets the others by | Hard behaviour |
|---|---|---|---|---|
| eGPU safety manager `src/egpu/egpu_safety.c` | the global `g_egpu`: connection state, last error, retry count, health, policy, mutex, monitor flag and handle | init, shutdown, connect, safe and forced disconnection, recovery, start and stop monitoring, the monitoring thread | the CLI calls it; it calls back `event_callback` | threads, unlocked reads, a monitor that disconnects and recovers on its own, retries |
| GPU memory manager `src/cuda/memory/memory_manager.c` | three pools (device, pinned, managed), each a free and a used list; statistics | malloc and free of three kinds, lookup, advise, prefetch | built with the library; no other part calls it yet | pointer surgery on doubly linked lists, partial failure, full pools, width of `size_t` |
| NVIDIA driver `src/driver/nvidia/nvidia_gpu.c` | VRAM free, 4096 allocation records with their stores, 64 channels, a static next address | init, channels, alloc/free, copy, launch | called by the runtime; sits on a PCIe device | accounting across calls, table limits, records found by address |
| CUDA runtime `src/cuda/runtime/cuda_runtime.c` | `g_state`: devices, last error, tracked host buffers | init, shutdown, memory, streams, launch | calls USB4, PCIe and the driver | undoing a failed init, handles that outlive a shutdown, unlocked tables |
| USB4 controller `src/kernel/usb4/usb4_controller.c` | routers, 8 tunnels | init, scan, create/destroy tunnel, shutdown | called by the runtime and by PCIe | partial failure, limits |
| PCIe tunnel `src/kernel/pcie/pcie_tunnel.c` | devices, BARs, tags | scan, map, register access, DMA | on USB4 | splitting and tag wrap-around |
| Public API `src/userspace/lib/cudabridge.c` | an initialised flag and a last error of its own | one per runtime call | on the runtime | two flags and two error registers that must agree |
| Log `src/logging/cb_log.c` | file, size, mutex, the files on disk | init, write, flush, rotate, shutdown | called by the safety manager and the CLI | a check outside the lock, rename by rename rotation, a crash in between |
| Python bindings, CLI | arrays; nothing | one call each | on the runtime; the CLI on the safety manager | lifetimes of arrays |

What makes each part correct: the safety manager must never show a connection
that is not there, must watch the one that is, and must be out of the way after
a shutdown; the memory manager must never give an address twice nor lose one,
and must find again what it gave; the driver and the runtime must give back
what they charged, never use a handle of an earlier life, and leave nothing
behind when a call fails; the tunnels must stay within their table; the log
must not be written by two threads, nor lose or reorder entries but the oldest.

## Modules

| Module | What it is |
|---|---|
| `EgpuSafety` | the safety manager, step by step, for any set of threads and monitors |
| `EgpuLifecycle` | what its header promises of the connection: phases and hardware, no threads |
| `EgpuSafetyProofs` | theorems about `EgpuSafety`, whatever is called when and in the use its README documents, or when its monitor disconnects by force |
| `PagePool` | one address pool: first fit, split, merge, on sets of blocks |
| `PagePoolProofs` | theorems about `PagePool` |
| `MemoryManager` | the memory manager with its linked lists, pointers, host buffers and failures; its three pools each implement `PagePool` |
| `MemoryPoolProofs` | lemmas about one pool of `MemoryManager`: traversal, `pool_alloc`, `pool_free` |
| `MemoryManagerProofs` | theorems about `MemoryManager` |
| `NvGpu` | the driver's tables: allocation records with their contents, VRAM account, channels, transfers |
| `DeviceHeap` | what the driver promises of device memory: fresh zeroed blocks, transfers that touch only what they name |
| `NvGpuProofs` | theorems about the tables of `NvGpu`: addresses, account, push buffers, and that they implement `DeviceHeap` |
| `Links` | the USB4 controller and the PCIe bus behind it |
| `LinksProofs` | theorems about `Links` |
| `CudaRuntime` | the runtime: extends `NvGpu` and `Links` with initialisation and shutdown step by step, memory, streams, launches |
| `UserApi` | the public API over `CudaRuntime`, with an application that calls it |
| `UserApiProofs` | theorems about `UserApi`, on those of the driver and the links |
| `CbLog` | the log, its rotation, its threads and its files, with crashes |
| `CbLogProofs` | theorems about `CbLog` |
| `MC...` | instances for TLC |

### The safety manager

`EgpuSafety` has one program counter per thread. `egpu_get_state` and
`egpu_get_last_error` (`egpu_safety.c:514-520`), the monitor's poll and the
shutdown's branch read without the mutex, so every write of the state, of the
last error and of `retry_count` is an action of its own, also in a locked region:
CONNECTED is shown with the old error until `:431` clears it, and ERROR over the
tunnel of a connection that failed until `:423` has taken the tunnel down. Taking
the mutex is one action with the write that follows it, releasing it with the
write before it: nothing can be seen in between. The setting up and the taking
down of the tunnel and of the GPU, which sleep, are actions too, and so are the
unlocked reads and writes that another thread can tell apart: the monitor's loop
conditions, the test and the increment of `retry_count`, `monitor_running`, and
the shutdown's test of the state.

`egpu_connect` calls itself to retry and `egpu_try_recovery` falls back on a
forced disconnection followed by a connection: `ret` says what a thread does
after the call it is in. A monitor runs the same actions as an application
thread when it disconnects or recovers; `Home` sends it back to its loop.
Thread ids are a finite set; an id that is never joined stays a zombie.

The hardware is `tunnel` and `gpu`, set by the simulated steps of
`egpu_safety.c:106-195`. `MayFail` says which steps may fail; `Telemetry` lets
the health metrics show any fault of `Faults` at any time. Both are constants,
so a run can say which environment it assumes.

What the application does is a constant too (`AppOps`, `ConnectWhen`,
`Reinit`). The contract assumed throughout: only one thread initialises and
shuts down, and no call is made while it shuts down.

`EgpuLifecycle` forgets threads, monitors, counters and errors. A connection is
opened (`Open`), gets its tunnel (`BringTunnel`), then its GPU (`BringGpu`), and is
shown only over both (`Ready`). Without a device or a tunnel it is refused
(`Reject`); when the GPU does not start, the fault is shown over the tunnel
(`Fail`), which is then given back (`Undo`), and the fault is dropped (`Dismiss`).
A connection that is up may show a fault (`Fault`) and be repaired (`Repair`).
`Close`, `DropGpu`, `DropTunnel` and `Done` are the disconnections, in that order.
`ImplementsLifecycle` is the refinement.

### The memory manager

`PagePool` has a pool as two sets of blocks. `MemoryManager` has cells of the C
heap with `next` and `prev`, and each pointer assignment of `pool_alloc` and
`pool_free` in its order. `calloc` may fail where the code tests for it
(`CallocFails`, or no cell left), `posix_memalign` when no address of `Hosts` is
left. A handle is what a caller holds; callers free with the matching call
(`cb_free_device` does not check, see the hazards). `DevicePool`, `PinnedPool`
and `ManagedPool` show that each pool, seen through its lists, is a `PagePool`.
The abstract step `Bounce` is `cb_malloc_managed` giving a block back at once.
Both builds of `cb_free_host` are there: Linux frees a pointer no list knows,
macOS leaves it. Freed cells hold no stale data (`Garbage`): a read of one would
show as a broken list.

### The driver, the links and the runtime

`NvGpu` keeps the table of allocations as a sequence of records, in the order of
the C array: an allocation appends, a free closes the gap, and a search takes
the first match, as the loops do. Sizes and addresses count cells, so that a
page is a few of them, and each record has the contents of its store. The bounds
test of a transfer adds offset and length in a word of `Width` values, as the
code does in a `size_t` (`nvidia_gpu.c:574`, `:600`, `:630`). A copy that does
not fit moves nothing and succeeds, as in the code; a copy within the device
whose sum wraps passes the test, and its `memcpy` runs out of the stores: the
process dies (`MemcpyD2DDies`). A transfer from or to the host is of a buffer
the caller has, and so never that long. The address counter is a `static` of
`nv_gpu_alloc_memory`, and so survives `GpuShutdown`. A failed `malloc` leaves
the counter moved and the VRAM account as it was; of a channel, the structure
may fail before the counter moves, or the push buffer after.

`DeviceHeap` has no table, account or channel: blocks, the contents of every
cell, the addresses that were ever used, and a process that dies of a copy nearly
as long as the address space (`Die`). `HeapSpec` shows that the driver
implements it. The mapping reads a cell through `Find`, the lookup of the code,
so that a lookup that finds another record shows as memory that changes by
itself.

`Links` has the tables of the controller and of the bus, and counts the C
objects the two allocate (`objects`), to see that a failed initialisation and a
shutdown free them all. `CudaRuntime` runs `cudaBridgeInit` and
`cudaBridgeShutdown` as one action per call they make below, with `stage` the
place in the code; every other runtime function is an operator of its
arguments and the error it returns. A call of the runtime is one action, since
the API is called from one thread (see the hazards).

`UserApi` wraps each of them: whether the API records the error (`Recorded`) or
hands it on without (`Unrecorded`) follows the source call by call. Its
application frees only pointers it was given, but may free one late, twice, or
in a later session, and copies to and from pointers it has freed. What it asks
for fits the buffers it has; the lengths that do not are left to `gpu`.

### The log

One action per step that another thread, or a crash, can tell apart: the test of
`initialized`, taking the mutex, looking for the file, the write, each `rename`,
reopening, leaving. The file system is a function from names to entries. `fopen`
and `rename` may fail (`FopenFails`, `RenameFails`). The code does not look at
the result of `rename`: the rotation goes on, and its next rename may replace a
file that is not the oldest. `stayed`, which no action reads, records the files
left behind. A log's name is made of the second it is opened in, so `now` is a
clock that ticks. A crash stops the process anywhere; the files stay. A mutex
that was destroyed lets a late writer through (`pthread_mutex_lock` of an
invalid mutex returns an error that `cb_log_write` does not look at): the model
allows exactly that outcome, which is the one the Linux and macOS libraries
produce for a mutex that `pthread_mutex_destroy` marked invalid. On one that is
destroyed while held, `pthread_mutex_destroy` fails and the mutex stays.

## Runs

Passing:

| Run | Shows |
|---|---|
| `egpu_usage` | The use the README documents (one thread: connect, safe disconnection, shutdown, again), while the link degrades, fails and recovers: exactly one joinable monitor watches it, a shutdown leaves nothing, every call returns, every fault is acted on, and the manager implements `EgpuLifecycle`. |
| `egpu_setup_faults` | Any step of a connection may fail, and `pthread_create` too: each failure is shown before what was built is taken down, nothing stays allocated (the life cycle forbids it), no fault is shown without its error nor, once the mutex is free, a connection with one, retries are counted and end. |
| `egpu_races` | Every call in any order, resets failing, orphaned monitors: connection sequences stay atomic, and the racy retry counter exceeds its maximum by less than the number of threads (3.7 million states). |
| `egpu_thermal` | A GPU over its limit is disconnected and stays so. |
| `pool` | All call sequences on a pool of six and a half pages, sizes up to the largest of the type. |
| `memory_device` | Device memory, six pages, `calloc` failing at will: lists well formed, refinement of `PagePool`. |
| `memory_mixed` | Pinned and managed memory together, with a pinned pool that fills up and too few host buffers: pointers lead back to their own blocks, blocks made outside the pinned pool leave it intact. |
| `gpu` | The driver under a caller that frees with the record it was given: no two allocations overlap, the VRAM account is exact, and transfers move what they name and nothing else (`DeviceHeap`); copies within the device are asked for with lengths up to nearly the address space, and those alone whose sum wraps kill the process. |
| `runtime` | The public API over the whole stack, several sessions, every allocation and link step failing at will: the runtime is wholly up or wholly down between calls, failed calls take nothing, late and double frees hit nothing, channels live as long as their streams, the error of a failed call is kept until another call fails or the runtime starts or stops; whenever the bus changes, of each device the registers accepted are the aligned words of its mapped BARs and the last word of the address space, whose sum wraps, and the packets of a DMA transfer cover the request once and in order (1.1 million states). |
| `log` | Two threads log, a third shuts down and logs too, files rotate, `fopen` and `rename` fail, the process crashes anywhere: the file is used by the holder of the mutex only, entries stay in order, a rotation loses the oldest file or one that it failed to move and no other, and a write returns. |

Violations, each a statement of a header that the code does not keep:

| Run | Shows |
|---|---|
| `egpu_force_recovery` | A monitor that has just found the connection up waits for the mutex during a forced disconnection, does not look at the state again, and writes DEGRADED over DISCONNECTED. |
| `runtime_vram` | `cudaFree` never gives VRAM back: after as many allocations and frees as it holds, an empty device is full. The driver by itself keeps the account exactly (run `gpu`), since it is handed the record. |

The passing runs hold under their constants, and these are why the constants
are what they are. Changing one of them shows the code at odds with its header:

- `egpu_usage` with `"recover"` in `AppOps`: `egpu_try_recovery`
  (`egpu_safety.c:538`) looks at no state, and called while disconnected it ends
  in CONNECTED with no link: `ImplementsLifecycle` fails.
- `egpu_usage` with `"force"`: `egpu_force_disconnect` clears the monitor's flag
  (`:496`, under the comment that the monitor stops at once) without a join; a
  connection made before the monitor wakes sets it again and two monitors run, one
  of which outlives a shutdown: `OneMonitor` and `ShutdownClean` fail.
- `egpu_usage` with `"hot"` in `Faults`: a shutdown during the monitor's own
  thermal disconnection finds `monitor_running` cleared, joins nothing, and
  destroys the mutex that the monitor uses: `ShutdownClean` fails.
- `egpu_usage` with `"thread"` in `MayFail`: `egpu_connect` does not look at the
  result of `egpu_start_monitoring` (`:449`): `WatchedWhileUp` fails.
- Two application threads with `"recover"`: `retry_count` is tested and
  incremented without the mutex (`:541`, `:549`): `RetryBudget` fails, while
  `RetryOvershoot` still holds.
- `runtime` with `"virtual"` in `MallocFails`: when the virtual GPU cannot be
  allocated (`cuda_runtime.c:185`), what was set up below is not undone:
  `WhollyUpOrDown` fails.

Some definitions state what one would expect and the code does not do. No run
checks them; they are kept, each with a comment, next to the properties that do
hold: `UsedSizeExact` of `PagePool` (`used_size` is charged the request and
credited the block, `memory_manager.c:264`), `PointersFound` of `MemoryManager`
(pinned memory beyond the pool is found by no lookup), and `LastErrorKept` of
`UserApi` (`cudabridge.h:396` says `cbGetLastError` returns the last error, while
`cbFree`, `cbMemset`, `cbMallocHost`, `cbStreamCreate` and others return theirs
without recording it).

### Bounds

One application thread and two monitor ids: the races need an application
thread and a monitor, and two ids are what an orphan and its successor need (the
theorems hold for any number of either). `MaxRetry` of 1 or 2 (3 in the code)
leaves a retry that succeeds and one that is refused. Symmetry is used for the
monitors of `egpu_races`, a run of invariants only. Six pages of device memory
are the fewest with a split of a block that has a successor on the free list;
eight or sixteen values of a `size_t` hold every pool address and one size that
overflows. The pool of `pool` is not a whole number of pages, so that its end
is not page-aligned either.

Addresses are never reused, so `AddrLimit` bounds the allocations of a whole
behaviour. In `gpu` it leaves three pages of two cells and a VRAM of two, enough
for three records with a gap closed between them, for requests of part of a
page, and for one that the VRAM refuses; two host cells give copies of one and
two cells, at an offset, and across the end of a record. Copies within the
device are also of ten cells, too many for any block, and of thirteen, which at
the offset three of a block of four wraps a word of sixteen; ten would wrap only
in a sum of half the width, as of an `unsigned int`. In `runtime` two
allocations or channels fit over all sessions: two streams, a stream and a
buffer, or an allocation before and one after a restart; contents are left to
`gpu`. One router and one tunnel give every branch of the set-up and of its
undoing. Two host buffers and a table of one give the untracked case. Transfers
of one to five bytes in packets of two, with two tags, give the remainder, the
exact multiple and the wrap of the tag; sixteen addresses hold two of the
longest words, and every offset and size is tried. `HostsAlike` is a symmetry of
the host addresses, which are never compared with anything but each other; the
action properties of that run mention them as sets only. A run of the API lets
no request exceed its two host cells.

In `log` three entries in files of one, with two rotated files, are the fewest
that make a rotation replace the oldest, and enough for a rename that fails and the
next one that overwrites what stayed; one tick gives two names, and a log that
changes its name at a rotation.

Deadlock is off where a system may stop for good: an application that has
nothing more to call, a join of an orphaned monitor, a pool without requests
that fit, a log whose entries are used up. It is on in `egpu_usage`,
`egpu_setup_faults`, `gpu`, `runtime` and the runs of `MemoryManager`.

### Fairness

`FairSpec` of `EgpuSafety` asks weak fairness of each thread's next step, and of
the shutdown once begun. `usleep` returns, each locked region ends without
waiting for anything but time, and a POSIX scheduler runs every runnable thread.
Nothing is assumed of the application (it need not call anything) nor of the
telemetry (faults may come and go or stay). Weak fairness gives a thread the
mutex only if it stays free. A monitor takes it again and again, so that an
application thread is also given strong fairness of its step while the mutex is
free: between two of its locked regions the monitor sleeps, for a heartbeat
interval or during a reset, and a thread that waits has all that time to take the
mutex. The monitor needs no such assumption, since an application thread is not
assumed to call for ever, and its calls end.

`Spec` of `CbLog` asks weak fairness of each thread inside a call and of a
shutdown once begun, and strong fairness of taking the mutex: threads that log
without a file come back to it for ever, and a thread that waits for a mutex
that is released again and again gets it, which the scheduler provides in
practice though POSIX does not promise it. Nobody need log, and a crash may
happen at any time or never.

## Proofs

The theorems of `PROJECT.json`; "for" says for which constants.

| Theorem | Module | States | For |
|---|---|---|---|
| `TypeCorrect` | `EgpuSafetyProofs` | `[]TypeOK` | every set of threads, policy and failures |
| `SequencesAreAtomic` | `EgpuSafetyProofs` | `[]LockedRegions` | a manager initialised once |
| `OvershootIsBounded` | `EgpuSafetyProofs` | `[]RetryOvershoot` | finitely many threads |
| `UsageIsInvariant` | `EgpuSafetyProofs` | `[]UsageInv` | `Usage` (below) |
| `OneMonitorRuns`, `ShutdownLeavesNothing`, `ErrorsExplained`, `RetriesWithinBudget`, `SequencesAtomicInUse` | `EgpuSafetyProofs` | `OneMonitor`, `ShutdownClean`, `ErrorExplained`, `RetryBudget`, `LockedRegions`, always | `Usage` |
| `LinkIsWatched` | `EgpuSafetyProofs` | `[]WatchedWhileUp` | `Usage`, threads that can be created |
| `StaysDisconnected` | `EgpuSafetyProofs` | `DownUntilConnect` | `Usage` |
| `FollowsLifecycle` | `EgpuSafetyProofs` | `Lifecycle!Safety` | `Usage` |
| `OneConnectionIsInvariant` | `EgpuSafetyProofs` | `[]OneConnectionInv` | `OneConnection` |
| `StaysDownWhenForced`, `OneMonitorWhenForced`, `FollowsLifecycleWhenForced` | `EgpuSafetyProofs` | `DownUntilConnect`, `[]OneMonitor`, `Lifecycle!Safety` | `OneConnection` |
| `PoolTypes`, `PoolPartition`, `PoolCoalesced`, `PoolEmptyIsWhole`, `PoolFailsOnlyWhenFull` | `PagePoolProofs` | `TypeOK`, `Partition`, `Coalesced`, `EmptyIsWhole`, `FailsOnlyWhenFull`, always | every pool, page, width and sequence of calls |
| `ManagerInvariant` | `MemoryManagerProofs` | `[]Inv` | any heap, hosts, pools and sizes |
| `ListsStaySound`, `NothingIsKept`, `PointersLeadBack` | `MemoryManagerProofs` | `ListsSound`, `NothingKept`, `PooledPointersFound`, always | as above |
| `NoBlockIsLost`, `CountsStayExact` | `MemoryManagerProofs` | `NoBlockLost`, `CountsExact`, always | no pinned memory |
| `DeviceIsAPool`, `PinnedIsAPool`, `ManagedIsAPool` | `MemoryManagerProofs` | `DevicePool`, `PinnedPool`, `ManagedPool` | `CallocFails = TRUE` |
| `TableIsDisjoint` | `NvGpuProofs` | `[]Disjoint` | every page, word, table, VRAM and request |
| `AccountIsExact`, `ChannelsOwnTheirBuffers` | `NvGpuProofs` | `[]VramExact`, `[]PushBuffers` | `NoWrap` |
| `TablesImplementHeap` | `NvGpuProofs` | `HeapSpec` | `NoWrap`, copies of every length |
| `RequestsAreCovered` | `LinksProofs` | `RequestsCovered` | every address width in whole 64-bit words (`LinkAssumption`), every payload and tag width |
| `ErrorsAreKept`, `FailuresChangeNothing` | `UserApiProofs` | `CudaErrorKept`, `FailedCallsKeepState` | every constant |
| `NothingHalfDone` | `UserApiProofs` | `[]WhollyUpOrDown` | `VirtualGpuFits` |
| `ChannelsAreTheirStreams` | `UserApiProofs` | `ChannelsFollowStreams` | `NoWrap`, `RequestsFit` |
| `HandlesStaySound` | `UserApiProofs` | `[]HandlesSound` | `NoWrap`, `RequestsFit`, `VirtualGpuFits` |
| `FileIsGuarded`, `EntriesInOrder`, `RotationKeeps` | `CbLogProofs` | `[]FileByHolder`, `[]InOrder`, `OnlyTheOldestIsLost` | any number of threads, files and entries, `fopen` and `rename` failing or not |

Each hypothesis excludes something the code does, but for the last, which
allows more:

- `Usage`: one application thread connects, disconnects safely and shuts down,
  recovery is on with a maximum above zero, the link can be reset, the GPU stays
  below its thermal limit; and either no step of a connection fails, or connect
  is called on a disconnected eGPU only. Any number of thread ids, any maximum,
  and any number of initialisations are allowed. `egpu_usage` and
  `egpu_setup_faults` are instances of it. The list after the table of runs says
  what fails without the main ones.
- `OneConnection`: what `Usage` leaves out, a monitor that disconnects by force
  because the GPU is too hot or the maximum of recoveries (which may be zero) is
  spent. One application thread connects while the eGPU is disconnected and shows
  no error, does not call the manager again until it shuts it down, and does not
  initialise it again; the link can be reset. Any faults, either policy flag, any
  other failing step. `egpu_thermal` is an instance of it. A second connection, or
  another initialisation, may meet the monitor of the first still on its way out.
- `NoWrap`: no allocation is asked for of a size within a page of the end of the
  word (2^64 - 4095 bytes or more, in the code). Such a request is rounded to
  nothing, and its record, of no size, would share its address with the next one.
  It says nothing of the lengths of copies, which may be anything.
- `RequestsFit`: no more is asked for than the memory of the host that transfers
  go to and from, which the model bounds by `HostCells`.
- `VirtualGpuFits`: the virtual GPU can be allocated (see the list of runs).
- No pinned memory, `"pinned" \notin Kinds`: `cb_malloc_host` makes a block of its
  own when the pinned pool is full and puts it on no list, so `cb_free_host` does
  not find it, neither frees it nor counts it (see the hazards).
- `CallocFails = TRUE`: `calloc` may return null even while cells are left. A pool
  whose block cannot be split for want of a cell gives all of it, which in
  `PagePool` is a step that is always open or never (`Splits`). A heap that fails
  only when it is full would need an abstract pool that knows how full it is. Both
  memory runs have it.

### The safety manager

`TypeOK` is inductive; the proof has one lemma per handler. `LockedRegions` is
inductive with it. That a published state of a sequence belongs to the owner of
the mutex, and not to a monitor that is looking, is what lets the monitor
release it. Its assumption `~Reinit` is needed: initialising again makes a new
mutex while a monitor that outlived a forced disconnection may hold the old one.
In the documented use there is no such monitor, and `SequencesAtomicInUse` has
the property with initialisations again.

`RetryOvershoot` is not inductive: a thread that has passed the test of
`retry_count` may increment it later. The invariant `RetryBound` counts the
threads between test and increment: the counter and they together stay below
`MaxRetry` plus the number of threads.

None of the properties of the documented use is inductive, nor are all of them
together. `UsageInv` has four parts, and each needs the others. `Places` says
where the two threads may be and that only the application's is ever in a locked
sequence; `Handle` that the one monitor is the one whose handle is kept, and
what `monitor_running` says of it at each step of starting and stopping;
`Link` what state, error and hardware say of each other; and `Attempts` that a
recovery in this use is always the first one, because the one before it reset
the counter. A step of the monitor meets the application's thread at any of its
places, and `Handle` is what rules out the places that would hurt. The
refinement follows from it step by step: `FollowsLifecycle` maps every action
to a step of `EgpuLifecycle` or a stutter. It is the safety part of
`ImplementsLifecycle`, as `EgpuLifecycle` defines it.

A monitor that disconnects by force clears `monitor_running` before it takes the
mutex and ends by itself, so `Handle` does not hold of it. `OneConnectionInv` says
instead (`Handover`) that a monitor told to stop is being joined, or told itself
and has disconnected or is past every other write of the state; `Explained`, which
states and errors it leaves behind at each of its steps; `Underneath`, which
hardware. That the connection is not opened a second time over it rests on the
error it leaves: `last_error` keeps the reason of a forced disconnection, and only
the disconnection of the shutdown, which finds no monitor, clears it.
`OneConnectionInv` needs `LockedRegions`, proved before it.

### The pool

The inductive invariant is the type of the blocks, `Partition`
and `Coalesced`. `Partition` alone is inductive; the merged block's neighbours
are unique because blocks do not overlap, which is what makes both merges of
`pool_free` take the right ones, and `Coalesced` gives that the merged block
touches no other. `EmptyIsWhole` and `FailsOnlyWhenFull` follow from the two
without induction. The assumption on the constants is that the pool's end is an
address (`Base + Total <= Width`), which init guarantees.

### The memory manager

`Inv` has four parts. `PoolsSound` says that three pools share no block, that each
list is linked in both directions, in address order if it is the free one, and that
blocks do not overlap in their pool. `HandlesKept` and `InUse` tie the pointers held
to blocks in use, and host pointers to buffers, one each and none over; `Tracked`
puts every block on a list, unless a pinned one was made outside its pool.
`ListsSound`, `NothingKept` and `PooledPointersFound` follow from it: a pointer leads
back to its own block because no other block on a list holds its address.

A list is read by `List`, a recursive function of the heap. The lemmas of
`MemoryPoolProofs` show that it visits exactly a chain of `next` pointers when there
is one, and from then on speak of chains: what linking, unlinking, cutting and
splicing a cell make of them. There is one lemma for each way `pool_alloc` and
`pool_free` can go (whole or split; alone, or merged before, after or both), with
the pointer assignments in the order of the code.

`CountsExact` sums sizes over a set with a fold, of which the library has no
theorem that the provers here can use. The sum is shown to be the number of units in
the blocks, a cardinality: by the smallest of the sets for which they would differ.

The refinements map blocks to values (`Image`). Two more facts are needed. No two
free blocks touch (`FreeParted`), so that a block taken and given back merges into
exactly what it was cut from, which is what `Bounce` says of a managed allocation
without a host buffer. And `used_size`, a machine word, is the same whether it is
charged and credited in turn or at once (`ModSum`). `GrantedRefined`,
`ReleasedRefined` and `BounceRefined` match each call with a step of `PagePool`, and
what it does to the two other pools with a stutter.

### The driver

`TableInv` adds to `Disjoint` only the types it needs: a
sequence of records with natural addresses and sizes. It is inductive because
addresses are never reused: an append starts at the counter, which is past
every record, and removing one keeps the order of the rest. The proof has a
lemma for each thing that happens to a table (append, removal of one entry, new
contents), and cites the least-element property of the naturals for the two
searches, which take a minimum. A size that wraps to zero when it is rounded is
covered.

The account is a sum over the table, which the model writes as the last of its
running totals (`VramHeld`), so that its lemmas need no induction beyond that on
the naturals: an append adds one total, and removing entry `k` lowers every total
from `k` on by one size. Half-failed allocations and channels then leave
`vram_free + VramHeld` as it was. `PushBuffers` needs in addition that every
record has a size, hence `NoWrap`: addresses are then distinct, and a lookup by
the address of a push buffer finds that record and no other.

For `DeviceHeap`, `HeapInv` says that a record's contents are a function on
exactly its cells. The mapping reads a cell through the code's own lookup, so
the step from table to memory is one lemma: in a table whose records do not
overlap, the lookup of any cell of a record finds that record. Appending,
removing and rewriting a record are then shown to extend, restrict and override
the mapped memory, and each action of the driver is matched with an action of
the heap or a stutter.

### The links

`LinksInv` keeps the tables' types, that no two tunnels share a router, and that
the count of C objects is what the tables hold. What `RequestsCovered` says at
each change of the bus is a fact about `MmioAccepted` and `Packets`, whatever
the state: the remainder of the division by the payload gives the number and the
lengths of the packets, and the tag is a counter modulo `TagWidth`. For the
registers, `RegistersExact` names what the test `offset + n > size` lets through
at every offset of the word, its sum wrapping: an aligned access of `n` bytes
wraps at one offset only, the last word, where the sum is zero and no size is
below it. The property says so, and says that there is no other. That `n`
divides the address width is what aligns the last word; `LinkAssumption` has it.

### The public API

A call goes through three modules, and its proof too. `ControlInv` is the
control alone: which stage may be shown to which caller, what the two flags and
`gpu_ready` say of it, and what both error registers hold; with one lemma per
call it gives `CudaErrorKept` and `FailedCallsKeepState`. The first says that a
call that fails leaves its error in the runtime's register, and that no step
takes it out but another failing call, the end of an initialisation or that of a
shutdown. Both hold for every value of the constants. `LinkOrder` adds
`LinksInv` and, for each stage of initialisation and shutdown, what exists below
at that point (`LinkStages`); every failure leads to a stage whose part has not
been made or has been undone, and `WhollyUpOrDown` is what that says between
calls.

`HandlesInv` is about what the application holds. `TablesInv` says that the
channels are those of the push buffers in the table, each once, within the
limits of both tables; `GivenInv` that the addresses ever given are below the
counter and never those of push buffers; `HostInv` that tracked host buffers are
tracked once and allocated. The static address counter is what makes it
inductive: an address handed out in an earlier session is below every address of
this one, so a late or double free finds its own record or none. Streams of an
earlier session are not destroyed by this application (see the hazards).

### The log

`FileByHolder` is not inductive: a thread may be past a destroyed
mutex without holding it. `Guarded` says why this is harmless: the mutex is
destroyed only once the flag is cleared, the file is closed with the flag, and
so whoever got past without the mutex finds no file.

`InOrder` is not inductive either. In the middle of a rotation one suffix has no
file, and the next rename must go there: `MovedOn` relates the thread's index to
the suffix that is free, for a rename to be shown not to overwrite any file but the
oldest. Where a rename failed, the suffix is not free: the history variable
`stayed` holds the files that a rotation has failed to move, and `MovedOn` says that
there is nothing else in its way. `InOrder` does not need the suffix to be free: a
file that is overwritten leaves the rest in order. The rest is that the current
file has the latest name, and every entry on disk is earlier than the next one to be
written. `RotationKeeps` is the same step lemma read as an action property.

### Only model-checked

- Liveness, which the provers do not reach: `CallsReturn`, `FaultsHandled`,
  `OverheatDisconnects`, `WriteReturns`, and the fairness part of
  `ImplementsLifecycle`.
- The races outside `Usage` and `OneConnection`.

## Not modelled

- Safety manager: setters and getters of callbacks and policies, device
  information, the CRC-32 helpers. `event_callback` runs under the non-recursive
  mutex, so a callback that calls the manager would hang. Failing link and hard
  resets make the monitor reconnect by itself and start a second monitor, so the
  usage properties assume resets that work, as this build's always do.
- Memory manager: advice, prefetch, statistics that only grow. `cb_free_device`
  of a pinned or managed pointer moves a block between pools;
  `cb_free_managed` wipes `block->size` bytes of a host buffer that may be
  smaller (`memory_manager.c:565`); from 8 GB on, managed and device addresses
  overlap (`:80`). Buffers callers hold at a shutdown are leaked.
- Driver: registers, clocks, power, temperature, statistics and the state field;
  device contents of the virtual GPU are those of any other. `nvidia_gpu.h:144`
  declares a lock that nothing takes.
- Runtime and API: `cudaGetLastError`, which clears the runtime's register
  (`cuda_runtime.c:1020-1024`): the API never calls it, and its header gives the
  name to `cbGetLastError` (`cudabridge.h:504`); events, which are timestamps,
  stream callbacks and priorities, peer access, property values, version and
  error names, hot-plug registration. Calls from two threads: no table has a
  lock that an allocation takes. A stream used after the session that made it:
  its channel is freed. `cbShutdown` does nothing for a runtime that
  `cudaGetDevice` and its like brought up (`cudabridge.c:125`;
  `cudabridge.h:129` says it releases all resources). A 1025th host buffer is
  never freed.
- Links: contents of the configuration space, adapters and BARs, bandwidth
  figures, the hot-plug callback, which nothing calls; the `io_service` handles
  of routers, which nothing releases.
- Log: levels, formatting, console, callback, counters; `cb_log_rotate` called by
  the application, which takes no lock. Names are made of the second a file is
  opened in, so the files of earlier seconds are never rotated away, whereas the
  repository's `README.md:157` speaks of five files kept; a log reopened in the
  same second is appended to with a size that starts at zero.
- The Python bindings and the command-line tool, which hold no state of their own
  beyond the handles of `UserApi` and `EgpuSafety`. (The tool stops reading
  options at the first word without a dash, so `disconnect --force` is not
  parsed as an option; an array of Python freed after a shutdown is a late
  `cbFree`.) Examples, tests, scripts.

## Plan

1. `EgpuSafety`, `EgpuLifecycle` and proofs (done).
2. `PagePool` with proofs, `MemoryManager` (done).
3. `NvGpu`, `DeviceHeap`, `Links`, `CudaRuntime`, `UserApi` (done).
4. `CbLog` and its first theorem (done).
5. Proofs of what the runs check: the order of the log's entries, the documented
   use of the safety manager and its refinement, the driver's tables and their
   refinement, the links, and the public API over all of them (done).
6. Proofs about `MemoryManager`: its traversal, its inductive invariant, its
   statistics, and the three refinements (done).

Every invariant and every action property that a passing run checks is stated by a
theorem, for the constants its hypothesis allows; liveness stays with TLC.
