------------------------------- MODULE NvGpu -------------------------------
(***************************************************************************)
(* The GPU driver's tables (src/driver/nvidia/nvidia_gpu.c): the records   *)
(* of device allocations with their backing stores, the VRAM account, and  *)
(* the channels, each with a push buffer of its own.  There is one GPU, as *)
(* the bus scan finds one and the virtual GPU is one.  Sizes and addresses *)
(* count cells; a page is Page cells.                                      *)
(***************************************************************************)
EXTENDS Integers, Sequences, SequencesExt

CONSTANTS
  Page,         \* cells in a page of 4 KB
  Width,        \* 2^w, for a size_t of w bits, in cells
  VramSize,     \* info.vram_size
  MaxAllocs,    \* entries of allocations[]
  MaxChannels,  \* entries of channels[]
  PushBuffer,   \* pb_size
  FirstAddr,    \* where next_gpu_addr starts
  AddrLimit,    \* bound: no allocation goes past this address
  Sizes,        \* sizes callers ask for
  Values,       \* contents of a cell
  HostCells,    \* cells of the host buffer used in transfers
  CopyLengths   \* lengths of copies within the device, in cells

ASSUME GpuAssumption ==
  /\ {Page, Width, PushBuffer} \subseteq Nat \ {0}
  /\ {VramSize, MaxAllocs, MaxChannels, AddrLimit, HostCells} \subseteq Nat
  /\ FirstAddr \in 1 .. AddrLimit
  /\ Sizes \cup CopyLengths \subseteq 0 .. (Width - 1)
  /\ 0 \in Values

VARIABLES
  gpu_ready,      \* is there an initialised NVGpuContext?
  next_gpu_addr,  \* static in nv_gpu_alloc_memory: survives the context
  vram_free,      \* ctx->vram_free
  allocations,    \* ctx->allocations[0 .. alloc_count - 1]
  channels,       \* ctx->channels, each by its pb_base
  host            \* the host memory of the caller

gpuVars == <<gpu_ready, next_gpu_addr, vram_free, allocations, channels, host>>

Types == {"system", "video"}

-----------------------------------------------------------------------------
(***************************************************************************)
(* nv_gpu_alloc_memory and nv_gpu_free_memory.                             *)
(***************************************************************************)
\* Whole pages, in w-bit arithmetic.
Rounded(n) ==
  LET up == (n + Page - 1) % Width IN up - (up % Page)

\* What an allocation is refused for before anything changes.
Refused(n, type) ==
  \/ n = 0
  \/ Len(allocations) >= MaxAllocs
  \/ type = "video" /\ Rounded(n) > vram_free

Charged(n, type) == IF type = "video" THEN Rounded(n) ELSE 0

\* The record of a granted request, whose store is cleared.
Record(n, type) ==
  [addr |-> next_gpu_addr, size |-> Rounded(n), type |-> type,
   data |-> [c \in 0 .. (Rounded(n) - 1) |-> 0]]

\* Mutant: the next address is the end of the request, not of its pages.
AdvanceUnrounded(n) ==
  /\ next_gpu_addr + n <= AddrLimit
  /\ next_gpu_addr' = next_gpu_addr + n
Advance(n) ==
  /\ next_gpu_addr + Rounded(n) <= AddrLimit
  /\ next_gpu_addr' = next_gpu_addr + Rounded(n)

\* What malloc grants lies in one address space with the caller's buffer.
Mappable(n) == Rounded(n) + HostCells <= Width

AllocMemory(n, type) ==
  /\ gpu_ready /\ ~Refused(n, type) /\ Mappable(n)
  /\ Advance(n)
  /\ vram_free' = vram_free - Charged(n, type)
  /\ allocations' = Append(allocations, Record(n, type))

\* malloc fails for the store or for the record: the charge is taken back,
\* the address is not.  Mutant: nor is the charge.
AllocMemoryKeepsCharge(n, type) ==
  /\ gpu_ready /\ ~Refused(n, type)
  /\ Advance(n)
  /\ vram_free' = vram_free - Charged(n, type)
  /\ UNCHANGED allocations
AllocMemoryFails(n, type) ==
  /\ gpu_ready /\ ~Refused(n, type)
  /\ Advance(n)
  /\ UNCHANGED <<vram_free, allocations>>

\* The first record at an address leaves the table.
RecordAt(addr) == SelectInSeq(allocations, LAMBDA r : r.addr = addr)
WithoutRecord(addr) ==
  IF RecordAt(addr) = 0 THEN allocations ELSE RemoveAt(allocations, RecordAt(addr))

\* The caller's word is taken for what is given back.
FreeMemory(addr, size, type) ==
  /\ gpu_ready
  /\ vram_free' = vram_free + (IF type = "video" THEN size ELSE 0)
  /\ allocations' = WithoutRecord(addr)
  /\ UNCHANGED next_gpu_addr

-----------------------------------------------------------------------------
(***************************************************************************)
(* Channels.                                                               *)
(***************************************************************************)
ChannelRefused == Len(channels) >= MaxChannels \/ Refused(PushBuffer, "system")

CreateChannel ==
  /\ Len(channels) < MaxChannels
  /\ AllocMemory(PushBuffer, "system")
  /\ channels' = Append(channels, next_gpu_addr)

\* There is no memory for the channel, or none for its push buffer.
CreateChannelFails ==
  /\ gpu_ready /\ Len(channels) < MaxChannels
  /\ \/ UNCHANGED <<next_gpu_addr, vram_free, allocations>>
     \/ AllocMemoryFails(PushBuffer, "system")
  /\ UNCHANGED channels

\* The push buffer goes by its address alone.
DestroyChannel(ch) ==
  /\ FreeMemory(ch, 0, "system")
  /\ channels' = RemoveFirst(channels, ch)

-----------------------------------------------------------------------------
(***************************************************************************)
(* Transfers.  One that fails the test is reported as done and moves       *)
(* nothing.                                                                *)
(***************************************************************************)
\* nv_find_alloc_by_addr: the record an address lies in, 0 if none.
Find(addr) ==
  SelectInSeq(allocations, LAMBDA r : r.addr <= addr /\ addr < r.addr + r.size)

\* The test of a transfer of n cells from addr on, whose sum is of w bits.
\* Mutant: the sum is a bit narrower.
AcceptedNarrow(addr, n) ==
  /\ Find(addr) # 0
  /\ ((addr - allocations[Find(addr)].addr) + n) % (Width \div 2)
       <= allocations[Find(addr)].size
Accepted(addr, n) ==
  /\ Find(addr) # 0
  /\ ((addr - allocations[Find(addr)].addr) + n) % Width <= allocations[Find(addr)].size

\* The n cells are the record's indeed: the sum did not wrap.
Within(addr, n) ==
  /\ Find(addr) # 0
  /\ (addr - allocations[Find(addr)].addr) + n <= allocations[Find(addr)].size

Cell(addr) == allocations[Find(addr)].data[addr - allocations[Find(addr)].addr]

\* The n cells from addr on are given new contents.
Store(addr, n, new) ==
  LET r == allocations[Find(addr)]
      o == addr - r.addr
      d == [c \in DOMAIN r.data |->
              IF c >= o /\ c < o + n THEN new[c - o] ELSE r.data[c]]
  IN  allocations' = [allocations EXCEPT ![Find(addr)].data = d]

\* From src, n cells of host memory.
MemcpyH2D(dst, src, n) ==
  /\ gpu_ready /\ n # 0
  /\ IF Accepted(dst, n) THEN Store(dst, n, [i \in 0 .. (n - 1) |-> src[i]])
                         ELSE UNCHANGED allocations
  /\ UNCHANGED <<next_gpu_addr, vram_free, channels, host>>

MemcpyD2H(src, n) ==
  /\ gpu_ready /\ n # 0
  /\ IF Accepted(src, n)
       THEN host' = [i \in DOMAIN host |-> IF i < n THEN Cell(src + i) ELSE host[i]]
       ELSE UNCHANGED host
  /\ UNCHANGED <<next_gpu_addr, vram_free, channels, allocations>>

\* Both ends pass the test, one of them because its sum wrapped.
Overruns(dst, src, n) ==
  /\ Accepted(src, n) /\ Accepted(dst, n)
  /\ ~(Within(src, n) /\ Within(dst, n))

\* memcpy: ranges that overlap are excluded, as in C.
MemcpyD2D(dst, src, n) ==
  /\ gpu_ready /\ n # 0 /\ ~Overruns(dst, src, n)
  /\ IF Accepted(src, n) /\ Accepted(dst, n)
       THEN /\ dst + n <= src \/ src + n <= dst
            /\ Store(dst, n, [i \in 0 .. (n - 1) |-> Cell(src + i)])
       ELSE UNCHANGED allocations
  /\ UNCHANGED <<next_gpu_addr, vram_free, channels, host>>

\* No buffer of the caller limits this length.  memcpy runs off the stores,
\* for nearly the whole address space, and the process dies of it; the next
\* one starts anew.
MemcpyD2DDies(dst, src, n) ==
  /\ gpu_ready /\ n # 0 /\ Overruns(dst, src, n)
  /\ gpu_ready' = FALSE /\ next_gpu_addr' = FirstAddr /\ vram_free' = 0
  /\ allocations' = <<>> /\ channels' = <<>>
  /\ host' = [i \in 0 .. (HostCells - 1) |-> 0]

-----------------------------------------------------------------------------
(***************************************************************************)
(* The context as a whole.                                                 *)
(***************************************************************************)
\* The tables of a zeroed context with its VRAM account opened.
GpuInit ==
  /\ ~gpu_ready /\ gpu_ready' = TRUE
  /\ vram_free' = VramSize /\ allocations' = <<>> /\ channels' = <<>>
  /\ UNCHANGED next_gpu_addr

\* Channels, then allocations, each from the last; then the context is wiped.
GpuShutdown ==
  /\ gpu_ready /\ gpu_ready' = FALSE
  /\ allocations' = <<>> /\ channels' = <<>> /\ vram_free' = 0
  /\ UNCHANGED next_gpu_addr

GpuStart ==
  /\ gpu_ready = FALSE
  /\ next_gpu_addr = FirstAddr /\ vram_free = 0
  /\ allocations = <<>> /\ channels = <<>>
  /\ host = [i \in 0 .. (HostCells - 1) |-> 0]

\* The caller fills its own memory.
HostFill ==
  /\ host' \in [0 .. (HostCells - 1) -> Values]
  /\ UNCHANGED <<gpu_ready, next_gpu_addr, vram_free, allocations, channels>>

\* A caller of the driver frees with the record the allocation gave it, and
\* leaves the push buffers to their channels.
CallerFrees ==
  \E i \in DOMAIN allocations :
    LET r == allocations[i] IN
    /\ r.type = "video" /\ FreeMemory(r.addr, r.size, r.type)
    /\ UNCHANGED <<gpu_ready, channels, host>>

Addresses == FirstAddr .. (next_gpu_addr - 1)

Transfers ==
  /\ \/ \E n \in 1 .. HostCells, a \in Addresses : MemcpyH2D(a, host, n) \/ MemcpyD2H(a, n)
     \/ \E n \in CopyLengths : \E a, b \in Addresses : MemcpyD2D(a, b, n)
  /\ UNCHANGED gpu_ready

FatalCopy == \E n \in CopyLengths : \E a, b \in Addresses : MemcpyD2DDies(a, b, n)

GpuNext ==
  \/ (GpuInit \/ GpuShutdown) /\ UNCHANGED host
  \/ \E n \in Sizes : /\ AllocMemory(n, "video") \/ AllocMemoryFails(n, "video")
                      /\ UNCHANGED <<gpu_ready, channels, host>>
  \/ CallerFrees
  \/ (CreateChannel \/ CreateChannelFails) /\ UNCHANGED <<gpu_ready, host>>
  \/ \E i \in DOMAIN channels : DestroyChannel(channels[i]) /\ UNCHANGED <<gpu_ready, host>>
  \/ Transfers \/ FatalCopy \/ HostFill

GpuSpec == GpuStart /\ [][GpuNext]_gpuVars

-----------------------------------------------------------------------------
(***************************************************************************)
(* Properties.                                                             *)
(***************************************************************************)
GpuTypeOK ==
  /\ gpu_ready \in BOOLEAN
  /\ next_gpu_addr \in FirstAddr .. AddrLimit
  /\ vram_free \in 0 .. VramSize
  /\ Len(allocations) <= MaxAllocs /\ Len(channels) <= MaxChannels
  /\ \A i \in DOMAIN allocations :
       /\ allocations[i].type \in Types
       /\ allocations[i].data \in [0 .. (allocations[i].size - 1) -> Values]
  /\ host \in [0 .. (HostCells - 1) -> Values]

\* The table is in address order and no two records overlap, whatever was
\* freed in between: nv_find_alloc_by_addr has at most one answer, and
\* nv_gpu_free_memory, which takes the first record at an address, takes the
\* caller's.
Disjoint ==
  /\ \A i, j \in DOMAIN allocations :
       i < j => allocations[i].addr + allocations[i].size <= allocations[j].addr
  /\ \A i \in DOMAIN allocations :
       allocations[i].addr + allocations[i].size <= next_gpu_addr

\* Every channel has a push buffer of its own for as long as it lives, and no
\* push buffer outlives its channel, although it is freed by its address alone.
PushBuffers ==
  /\ \A i, j \in DOMAIN channels : channels[i] = channels[j] => i = j
  /\ {channels[i] : i \in DOMAIN channels}
       = {allocations[i].addr : i \in {k \in DOMAIN allocations :
                                         allocations[k].type = "system"}}

\* The VRAM that is not free is what the records of video memory hold, after
\* every half-failed allocation (nv_gpu_alloc_memory takes its charge back).
VideoSize(r) == IF r.type = "video" THEN r.size ELSE 0
VramHeld(table) ==
  LET upTo[i \in 0 .. Len(table)] ==
        IF i = 0 THEN 0 ELSE upTo[i - 1] + VideoSize(table[i])
  IN  upTo[Len(table)]
VramExact == gpu_ready => vram_free + VramHeld(allocations) = VramSize

\* The tables implement the heap of DeviceHeap, whatever lengths are asked of
\* the copies of nv_gpu_memcpy_d2d.
LiveCells(r) == r.addr .. (r.addr + r.size - 1)
HeapBlocks == {[addr |-> allocations[i].addr, size |-> allocations[i].size]
                 : i \in DOMAIN allocations}
HeapMem    == [a \in UNION {LiveCells(allocations[i]) : i \in DOMAIN allocations}
                 |-> Cell(a)]
Heap == INSTANCE DeviceHeap WITH
  Zero <- 0, Lengths <- 1 .. HostCells,
  blocks <- HeapBlocks, mem <- HeapMem, used <- Addresses
HeapSpec == Heap!Spec
=============================================================================
