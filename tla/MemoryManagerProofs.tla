------------------------- MODULE MemoryManagerProofs -------------------------
(***************************************************************************)
(* Theorems about MemoryManager: whatever is allocated, split, merged,     *)
(* refused and freed, its linked lists stay lists in both directions, no   *)
(* block is lost or kept, each pointer leads back to its own block, the    *)
(* statistics are exact, and each pool of lists implements PagePool.       *)
(***************************************************************************)
EXTENDS MemoryPoolProofs

FreeL(p) == List(heap, pool[p].free_list)
UsedL(p) == List(heap, pool[p].used_list)
On(p)    == Range(FreeL(p)) \cup Range(UsedL(p))

\* Three pools, which share no block.
PoolsSound ==
  /\ heap \in Heaps /\ live \subseteq Cells /\ pool \in [Pools -> PoolRec]
  /\ \A p \in Pools : Sound(p, Memory(p), FreeL(p), UsedL(p))
  /\ \A p, q \in Pools : p # q => On(p) \cap On(q) = {}

\* A pointer that is held: its block is in use, in the pool of its kind or on
\* no list, and is what the caller asked for.
Handle == [kind : Kinds, block : Cells, size : Sizes, ptr : Nat]
Kept(h) ==
  LET b == heap[h.block] IN
  /\ h \in Handle /\ h.block \in live
  /\ b.allocated = TRUE /\ b.flags = h.kind /\ b.size >= h.size
  /\ b.managed = (h.kind = "managed")
  /\ \/ h.block \in Range(UsedL(h.kind))
     \/ h.kind = "pinned" /\ \A p \in Pools : h.block \notin On(p)
  /\ h.kind = "device" => b.addr = h.ptr
  /\ h.kind # "device" => b.host = h.ptr /\ h.ptr \in buffers
\* No two pointers share a block, nor two host pointers a buffer.
Distinct(g, h) ==
  /\ g.block # h.block
  /\ g.kind # "device" /\ h.kind # "device" => g.ptr # h.ptr
HandlesKept ==
  /\ \A h \in handles : Kept(h)
  /\ \A g, h \in handles : g # h => Distinct(g, h)
\* Every block in use is a held pointer's.
InUse ==
  \A p \in Pools : \A c \in Range(UsedL(p)) :
    \E h \in handles : h.kind = p /\ h.block = c

\* Unless a pinned block was put on no list, every block is on one.
Tracked == "pinned" \notin Kinds => \A c \in live : \E p \in Pools : c \in On(p)

Inv ==
  /\ up \in BOOLEAN /\ buffers \subseteq Hosts
  /\ total_allocated \in Int /\ net_count \in Int
  /\ ~ up => handles = {} /\ pool = Nothing
  /\ PoolsSound /\ HandlesKept /\ InUse /\ Tracked

-----------------------------------------------------------------------------
(***************************************************************************)
(* A pool seen from a call.                                                *)
(***************************************************************************)
LEMMA SoundLists ==
  ASSUME NEW p \in Pools, NEW m, NEW f, NEW u, Sound(p, m, f, u)
  PROVE  /\ List(m.heap, m.pool.free_list) = f /\ List(m.heap, m.pool.used_list) = u
         /\ Range(f) \subseteq Cells /\ Range(u) \subseteq Cells
         /\ Range(f) \cap Range(u) = {} /\ Range(f) \cup Range(u) \subseteq m.live
         /\ m.heap \in Heaps /\ m.live \subseteq Cells /\ m.pool \in PoolRec
         /\ Null \notin Range(f) /\ Null \notin Range(u)
<1>1. /\ m.heap \in Heaps /\ m.live \subseteq Cells /\ m.pool \in PoolRec
      /\ Chain(m.heap, m.pool.free_list, f) /\ Chain(m.heap, m.pool.used_list, u)
      /\ Range(f) \cap Range(u) = {} /\ Range(f) \cup Range(u) \subseteq m.live
  BY DEF Sound, Holds, MemRec
<1>2. List(m.heap, m.pool.free_list) = f /\ List(m.heap, m.pool.used_list) = u
  BY <1>1, ListOfChain
<1>3. f \in Seq(Cells) /\ Injective(f) /\ u \in Seq(Cells) /\ Injective(u)
  BY <1>1 DEF Chain
<1>4. Null \notin Range(f) /\ Null \notin Range(u)
  BY <1>3, Place
<1> QED
  BY <1>1, <1>2, <1>4

\* What a call does to other memory leaves the pool alone.
LEMMA FrameSound ==
  ASSUME NEW p \in Pools, NEW m, NEW f, NEW u, Sound(p, m, f, u),
         NEW t \in MemRec, t.pool = m.pool, Range(f) \cup Range(u) \subseteq t.live,
         \A c \in Range(f) \cup Range(u) : t.heap[c] = m.heap[c]
  PROVE  Sound(p, t, f, u)
<1> DEFINE S == Range(f) \cup Range(u)
<1>1. /\ Chain(m.heap, m.pool.free_list, f) /\ Chain(m.heap, m.pool.used_list, u)
      /\ Range(f) \cap Range(u) = {} /\ m.pool.used_size \in 0 .. (Width - 1)
      /\ Laid(p, m.heap, S) /\ Tame(p, m.heap, S) /\ Sorted(m.heap, f)
      /\ \A c \in Range(f) : m.heap[c].allocated = FALSE
      /\ \A c \in Range(u) : m.heap[c].allocated = TRUE
  BY DEF Sound, Holds
<1>2. f \in Seq(Cells) /\ Injective(f)
  BY <1>1 DEF Chain
<1>3. Chain(t.heap, t.pool.free_list, f) /\ Chain(t.heap, t.pool.used_list, u)
  BY <1>1, ChainKept
<1>4. Holds(t, f, u)
  BY <1>1, <1>3 DEF Holds
<1>5. Laid(p, t.heap, S)
  BY <1>1, LaidSame DEF Same
<1>6. Tame(p, t.heap, S)
  BY <1>1, TameSame
<1>7. Sorted(t.heap, f)
  BY <1>1, <1>2, Place DEF Sorted
<1> QED
  BY <1>1, <1>4, <1>5, <1>6, <1>7 DEF Sound

\* The caller of pool_alloc fills in the block it got.
LEMMA MarkSound ==
  ASSUME NEW p \in Pools, NEW m, NEW f, NEW u, Sound(p, m, f, u), NEW b \in Cells,
         NEW cell \in CellRec,
         cell.addr = m.heap[b].addr, cell.size = m.heap[b].size,
         cell.allocated = m.heap[b].allocated,
         cell.next = m.heap[b].next, cell.prev = m.heap[b].prev,
         p # "managed" => cell.managed = m.heap[b].managed,
         NEW t, t = [m EXCEPT !.heap = [m.heap EXCEPT ![b] = cell]]
  PROVE  Sound(p, t, f, u)
<1> DEFINE S == Range(f) \cup Range(u)
<1>1. /\ Chain(m.heap, m.pool.free_list, f) /\ Chain(m.heap, m.pool.used_list, u)
      /\ Range(f) \cap Range(u) = {} /\ m.pool.used_size \in 0 .. (Width - 1)
      /\ Range(f) \cup Range(u) \subseteq m.live
      /\ Laid(p, m.heap, S) /\ Tame(p, m.heap, S) /\ Sorted(m.heap, f)
      /\ \A c \in Range(f) : m.heap[c].allocated = FALSE
      /\ \A c \in Range(u) : m.heap[c].allocated = TRUE
      /\ m \in MemRec /\ S \subseteq Cells
  BY SoundLists DEF Sound, Holds
<1>2. f \in Seq(Cells) /\ Injective(f)
  BY <1>1 DEF Chain
<1>3. /\ t.heap = [m.heap EXCEPT ![b] = cell] /\ t.live = m.live /\ t.pool = m.pool
      /\ t \in MemRec
  BY <1>1 DEF MemRec, Heaps
<1>4. ASSUME NEW c \in Cells
      PROVE  /\ t.heap[c].addr = m.heap[c].addr /\ t.heap[c].size = m.heap[c].size
             /\ t.heap[c].allocated = m.heap[c].allocated
             /\ t.heap[c].next = m.heap[c].next /\ t.heap[c].prev = m.heap[c].prev
             /\ p # "managed" => t.heap[c].managed = m.heap[c].managed
  <2>1. t.heap[c] = IF c = b THEN cell ELSE m.heap[c]
    BY <1>1, <1>3 DEF MemRec, Heaps
  <2> QED
    BY <2>1
<1>5. Chain(t.heap, t.pool.free_list, f) /\ Chain(t.heap, t.pool.used_list, u)
  <2>1. \A c \in Range(f) \cup Range(u) :
          t.heap[c].next = m.heap[c].next /\ t.heap[c].prev = m.heap[c].prev
    BY <1>1, <1>4
  <2> DEFINE hq == t.heap
             hp == m.heap
  <2>2. /\ Chain(hp, m.pool.free_list, f) /\ Chain(hp, m.pool.used_list, u)
        /\ \A c \in Range(f) : hq[c].next = hp[c].next /\ hq[c].prev = hp[c].prev
        /\ \A c \in Range(u) : hq[c].next = hp[c].next /\ hq[c].prev = hp[c].prev
    BY <1>1, <2>1
  <2> HIDE DEF hq, hp
  <2>3. Chain(hq, m.pool.free_list, f) /\ Chain(hq, m.pool.used_list, u)
    BY ONLY <2>2, ChainKept
  <2> QED
    BY <1>3, <2>3 DEF hq
<1>6. Holds(t, f, u)
  BY <1>1, <1>3, <1>4, <1>5 DEF Holds
<1>7. Laid(p, t.heap, S)
  BY <1>1, <1>4 DEF Laid, Apart
<1>8. Tame(p, t.heap, S)
  BY <1>1, <1>4 DEF Tame
<1>9. Sorted(t.heap, f)
  BY <1>1, <1>2, <1>4, Place DEF Sorted
<1> QED
  BY <1>1, <1>3, <1>6, <1>7, <1>8, <1>9 DEF Sound

\* A call changes one pool's lists and memory no list had.
Changes(p, m, g, v) ==
  /\ Sound(p, m, g, v) /\ Lists(p, m)
  /\ Only(m.heap, heap, On(p) \cup (Cells \ live))
  /\ Range(g) \cup Range(v) \subseteq On(p) \cup (Cells \ live)
  /\ m.live = (live \ On(p)) \cup Range(g) \cup Range(v)

LEMMA PoolStep ==
  ASSUME PoolsSound, NEW p \in Pools, NEW m, NEW g, NEW v, Changes(p, m, g, v)
  PROVE  /\ PoolsSound' /\ FreeL(p)' = g /\ UsedL(p)' = v
         /\ \A q \in Pools \ {p} : FreeL(q)' = FreeL(q) /\ UsedL(q)' = UsedL(q)
         /\ On(p)' = Range(g) \cup Range(v) /\ \A q \in Pools \ {p} : On(q)' = On(q)
         /\ Memory(p)' = m /\ (Tracked => Tracked')
<1>0. /\ Sound(p, m, g, v) /\ Lists(p, m)
      /\ Only(m.heap, heap, On(p) \cup (Cells \ live))
      /\ Range(g) \cup Range(v) \subseteq On(p) \cup (Cells \ live)
      /\ m.live = (live \ On(p)) \cup Range(g) \cup Range(v)
  BY DEF Changes
<1>1. /\ heap' = m.heap /\ live' = m.live /\ pool' = [pool EXCEPT ![p] = m.pool]
      /\ m \in MemRec /\ m.heap \in Heaps /\ m.live \subseteq Cells /\ m.pool \in PoolRec
      /\ pool \in [Pools -> PoolRec]
  BY <1>0 DEF Lists, Sound, MemRec, PoolsSound
<1>2. pool' \in [Pools -> PoolRec] /\ pool'[p] = m.pool
      /\ \A q \in Pools \ {p} : pool'[q] = pool[q]
  BY <1>1
<1>3. Memory(p)' = m
  <2>1. m = [heap |-> m.heap, live |-> m.live, pool |-> m.pool]
    BY <1>1 DEF MemRec
  <2> QED
    BY <1>1, <1>2, <2>1 DEF Memory
<1>4. FreeL(p)' = g /\ UsedL(p)' = v
  BY <1>0, <1>1, <1>2, SoundLists DEF FreeL, UsedL
<1>5. ASSUME NEW q \in Pools \ {p}
      PROVE  /\ Sound(q, Memory(q)', FreeL(q), UsedL(q))
             /\ FreeL(q)' = FreeL(q) /\ UsedL(q)' = UsedL(q)
  <2>1. Sound(q, Memory(q), FreeL(q), UsedL(q)) /\ On(q) \cap On(p) = {}
    BY DEF PoolsSound
  <2>2. On(q) \subseteq live /\ On(q) \subseteq Cells /\ live \subseteq Cells
    <3>1. Memory(q).live = live
      BY DEF Memory
    <3> QED
      BY <2>1, <3>1, SoundLists DEF On
  <2>3. \A c \in On(q) : m.heap[c] = heap[c]
    BY <1>0, <2>1, <2>2 DEF Only
  <2>4. Memory(q)' \in MemRec /\ Memory(q)'.pool = pool[q] /\ Memory(q)'.live = m.live
        /\ Memory(q)'.heap = m.heap
    BY <1>1, <1>2 DEF Memory, MemRec
  <2>5. Memory(q).pool = pool[q] /\ Memory(q).heap = heap
    BY DEF Memory
  <2>6. On(q) \subseteq m.live
    BY <1>0, <2>1, <2>2
  <2>7. Sound(q, Memory(q)', FreeL(q), UsedL(q))
    BY <2>1, <2>3, <2>4, <2>5, <2>6, FrameSound DEF On
  <2>8. pool'[q] = pool[q] /\ heap' = m.heap
    BY <1>1, <1>2
  <2> QED
    BY <2>4, <2>7, <2>8, SoundLists DEF FreeL, UsedL
<1>6. On(p)' = Range(g) \cup Range(v) /\ \A q \in Pools \ {p} : On(q)' = On(q)
  BY <1>4, <1>5 DEF On
<1>7. \A q \in Pools : Sound(q, Memory(q)', FreeL(q)', UsedL(q)')
  BY <1>0, <1>3, <1>4, <1>5
<1>8. ASSUME NEW q \in Pools \ {p} PROVE On(p)' \cap On(q)' = {}
  <2>1. Sound(q, Memory(q), FreeL(q), UsedL(q)) /\ On(q) \cap On(p) = {}
    BY DEF PoolsSound
  <2>2. Memory(q).live = live
    BY DEF Memory
  <2>3. On(q) \subseteq live
    BY <2>1, <2>2, SoundLists DEF On
  <2> QED
    BY <1>0, <1>6, <2>1, <2>3
<1>9. ASSUME NEW q \in Pools, NEW r \in Pools, q # r PROVE On(q)' \cap On(r)' = {}
  <2>1. q # p /\ r # p => On(q) \cap On(r) = {}
    BY <1>9 DEF PoolsSound
  <2> QED
    BY <1>6, <1>8, <1>9, <2>1
<1>10. PoolsSound'
  BY <1>1, <1>2, <1>7, <1>9 DEF PoolsSound
<1>11. Tracked => Tracked'
  BY <1>0, <1>1, <1>6 DEF Tracked
<1> QED
  BY <1>3, <1>4, <1>5, <1>6, <1>10, <1>11

-----------------------------------------------------------------------------
(***************************************************************************)
(* cb_find_block.                                                          *)
(***************************************************************************)
LEMMA FindPlace ==
  ASSUME PoolsSound, NEW p \in Pools, NEW ptr
  PROVE  \/ FindIn(p, ptr) = Null /\ \A c \in Range(UsedL(p)) : ~ Names(c, p, ptr)
         \/ /\ FindIn(p, ptr) \in Range(UsedL(p)) /\ FindIn(p, ptr) # Null
            /\ Names(FindIn(p, ptr), p, ptr)
<1> DEFINE u == UsedL(p)
           I == {i \in 1 .. Len(u) : Names(u[i], p, ptr)}
           k == IF I # {} THEN Min(I) ELSE 0
<1>1. u \in Seq(Cells) /\ Injective(u)
  BY DEF PoolsSound, Sound, Holds, Chain
<1>2. FindIn(p, ptr) = IF k = 0 THEN Null ELSE u[k]
  BY DEF FindIn, First, SelectInSeq, UsedL
<1> HIDE DEF u
<1>3. /\ Len(u) \in Nat /\ DOMAIN u = 1 .. Len(u)
      /\ \A i \in 1 .. Len(u) : u[i] \in Range(u) /\ u[i] # Null
  BY <1>1, Place
<1>4. IsFirst(k, I)
  <2>1. I \subseteq Nat
    OBVIOUS
  <2> HIDE DEF I
  <2> QED
    BY <2>1, FirstIndex
<1> HIDE DEF k
<1>5. CASE I = {}
  <2>1. FindIn(p, ptr) = Null
    BY <1>2, <1>4, <1>5 DEF IsFirst
  <2>2. \A c \in Range(u) : ~ Names(c, p, ptr)
    BY <1>3, <1>5 DEF Range
  <2> QED
    BY <2>1, <2>2 DEF u
<1>6. CASE I # {}
  <2>1. k \in I
    BY <1>4, <1>6 DEF IsFirst
  <2>2. k # 0 /\ u[k] \in Range(u) /\ u[k] # Null /\ Names(u[k], p, ptr)
    BY <1>3, <2>1
  <2> QED
    BY <1>2, <2>2 DEF u
<1> QED
  BY <1>5, <1>6

LEMMA UsedBlock ==
  ASSUME Inv, NEW p \in Pools, NEW c \in Range(UsedL(p))
  PROVE  /\ c \in Cells /\ c \in On(p) /\ heap[c].addr \in Nat /\ heap[c].size \in Nat
         /\ heap[c].size > 0 /\ PoolBase[p] <= heap[c].addr
         /\ heap[c].addr + heap[c].size <= PoolBase[p] + PoolTotal[p]
         /\ \E h \in handles : h.kind = p /\ h.block = c /\ Kept(h)
<1>1. Sound(p, Memory(p), FreeL(p), UsedL(p)) /\ Memory(p).heap = heap
  BY DEF Inv, PoolsSound, Memory
<1>2. c \in On(p) /\ c \in Cells /\ heap \in Heaps
  BY <1>1, SoundLists DEF On
<1>3. Laid(p, heap, On(p))
  BY <1>1 DEF Sound, On
<1>4. \E h \in handles : h.kind = p /\ h.block = c /\ Kept(h)
  BY DEF Inv, InUse, HandlesKept
<1> QED
  BY <1>2, <1>3, <1>4, CellTypes DEF Laid

\* A host address is no address of the device or the managed pool.
LEMMA HostApart ==
  ASSUME Inv, NEW p \in {"device", "managed"}, NEW x \in buffers,
         NEW c \in Range(UsedL(p))
  PROVE  heap[c].addr # x
<1>1. p \in Pools /\ x \in Hosts
  BY DEF Pools, Inv
<1>2. /\ heap[c].addr \in Nat /\ heap[c].size \in Nat /\ heap[c].size > 0
      /\ PoolBase[p] <= heap[c].addr
      /\ heap[c].addr + heap[c].size <= PoolBase[p] + PoolTotal[p]
  BY <1>1, UsedBlock
<1>3. PoolBase[p] \in Nat /\ PoolTotal[p] \in Nat
  BY <1>1, PoolNumbers
<1>4. heap[c].addr \in PoolBase[p] .. (PoolBase[p] + PoolTotal[p] - 1)
  BY <1>2, <1>3
<1>5. x \notin PoolBase[p] .. (PoolBase[p] + PoolTotal[p] - 1)
  BY <1>1, ManagerAssumption DEF ManagerAssumption
<1> QED
  BY <1>4, <1>5

\* A held pointer's block is found, and no other block is.
LEMMA FindOwn ==
  ASSUME Inv, NEW h \in handles
  PROVE  Find(h.ptr) = IF h.block \in Range(UsedL(h.kind)) THEN h.block ELSE Null
<1> DEFINE x == h.ptr
<1>1. Kept(h) /\ h.kind \in Pools /\ PoolsSound
      /\ {"device", "pinned", "managed"} \subseteq Pools
  BY ManagerAssumption DEF Inv, HandlesKept, Kept, Handle, ManagerAssumption, Pools
<1>2. \A g \in handles : g # h => Distinct(g, h)
  BY DEF Inv, HandlesKept
\* The block a host address names is its holder's.
<1>3. ASSUME h.kind # "device", NEW p \in {"pinned", "managed"},
             NEW c \in Range(UsedL(p)), heap[c].host = x
      PROVE  h.kind = p /\ h.block = c
  <2>1. PICK g \in handles : g.kind = p /\ g.block = c /\ Kept(g)
    BY <1>1, UsedBlock
  <2>2. g.ptr = x /\ g.kind # "device"
    BY <1>3, <2>1 DEF Kept
  <2>3. g = h
    BY <1>2, <1>3, <2>2 DEF Distinct
  <2> QED
    BY <2>1, <2>3
<1>4. CASE h.kind = "device"
  <2>1. h.block \in Range(UsedL("device")) /\ heap[h.block].addr = x
    BY <1>1, <1>4 DEF Kept
  <2>2. Names(h.block, "device", x)
    BY <2>1 DEF Names
  <2>3. /\ FindIn("device", x) \in Range(UsedL("device")) /\ FindIn("device", x) # Null
        /\ Names(FindIn("device", x), "device", x)
    BY <1>1, <2>1, <2>2, FindPlace
  <2>4. heap[FindIn("device", x)].addr = x
    BY <2>3 DEF Names
  <2>5. FindIn("device", x) = h.block
    <3> DEFINE c == FindIn("device", x)
               d == h.block
    <3>1. Sound("device", Memory("device"), FreeL("device"), UsedL("device"))
          /\ Memory("device").heap = heap
      BY <1>1 DEF PoolsSound, Memory
    <3>2. Laid("device", heap, On("device")) /\ c \in On("device") /\ d \in On("device")
      BY <2>1, <2>3, <3>1 DEF Sound, On
    <3>3. heap[c].addr \in Nat /\ heap[c].size \in Nat /\ heap[c].size > 0
          /\ heap[d].addr \in Nat /\ heap[d].size \in Nat /\ heap[d].size > 0
      BY <1>1, <2>1, <2>3, UsedBlock
    <3> HIDE DEF c, d
    <3>4. c # d => Apart(heap, c, d)
      BY <3>2 DEF Laid
    <3>5. heap[c].addr = heap[d].addr
      BY <2>1, <2>4 DEF c, d
    <3>6. c = d
      BY <3>3, <3>4, <3>5 DEF Apart
    <3> QED
      BY <3>6 DEF c, d
  <2> QED
    BY <1>4, <2>1, <2>3, <2>5 DEF Find
<1>5. CASE h.kind # "device"
  <2>1. x \in buffers /\ heap[h.block].host = x
    BY <1>1, <1>5 DEF Kept
  <2>2. \A c \in Range(UsedL("device")) : ~ Names(c, "device", x)
    BY <2>1, HostApart DEF Names
  <2>3. FindIn("device", x) = Null
    BY <1>1, <2>2, FindPlace
  <2>4. ASSUME NEW p \in {"pinned", "managed"}, NEW c \in Range(UsedL(p)), Names(c, p, x)
        PROVE  h.kind = p /\ h.block = c
    <3>1. heap[c].host = x
      BY <2>1, <2>4, HostApart DEF Names
    <3> QED
      BY <1>3, <1>5, <3>1
  <2>5. ASSUME NEW p \in {"pinned", "managed"}
        PROVE  FindIn(p, x) = IF h.kind = p /\ h.block \in Range(UsedL(p)) THEN h.block ELSE Null
    <3>1. CASE h.kind = p /\ h.block \in Range(UsedL(p))
      <4>1. Names(h.block, p, x)
        BY <2>1 DEF Names
      <4>2. FindIn(p, x) \in Range(UsedL(p)) /\ Names(FindIn(p, x), p, x)
        BY <1>1, <3>1, <4>1, FindPlace
      <4> QED
        BY <2>4, <3>1, <4>2
    <3>2. CASE ~ (h.kind = p /\ h.block \in Range(UsedL(p)))
      <4>1. \A c \in Range(UsedL(p)) : ~ Names(c, p, x)
        BY <2>4, <3>2
      <4>2. FindIn(p, x) = Null
        BY <1>1, <4>1, FindPlace
      <4> QED
        BY <3>2, <4>2
    <3> QED
      BY <3>1, <3>2
  <2>6. h.kind = "pinned" \/ h.kind = "managed"
    BY <1>1, <1>5 DEF Pools
  <2>7. h.block # Null
    BY <1>1, ManagerAssumption DEF Kept, Handle, ManagerAssumption
  <2> QED
    BY <2>3, <2>5, <2>6, <2>7 DEF Find
<1> QED
  BY <1>4, <1>5

-----------------------------------------------------------------------------
(***************************************************************************)
(* The steps.                                                              *)
(***************************************************************************)
\* A call leaves a pointer alone that it leaves in use.
LEMMA KeptStays ==
  ASSUME Inv, NEW p \in Pools, NEW m, NEW g, NEW v, Changes(p, m, g, v),
         NEW h \in handles,
         h.block \in Range(UsedL(p))
           => h.block \in Range(v) /\ Same(m.heap[h.block], heap[h.block]),
         h.kind # "device" => h.ptr \in buffers'
  PROVE  Kept(h)'
<1> DEFINE c == h.block
<1>1. /\ PoolsSound' /\ FreeL(p)' = g /\ UsedL(p)' = v
      /\ \A q \in Pools \ {p} : FreeL(q)' = FreeL(q) /\ UsedL(q)' = UsedL(q)
      /\ On(p)' = Range(g) \cup Range(v) /\ \A q \in Pools \ {p} : On(q)' = On(q)
  BY PoolStep DEF Inv
<1>2. /\ Sound(p, m, g, v) /\ heap' = m.heap /\ live' = m.live
      /\ Only(m.heap, heap, On(p) \cup (Cells \ live))
      /\ Range(g) \cup Range(v) \subseteq On(p) \cup (Cells \ live)
      /\ m.live = (live \ On(p)) \cup Range(g) \cup Range(v)
  BY DEF Changes, Lists
<1>3. Kept(h) /\ c \in Cells /\ c \in live /\ h.kind \in Pools
  BY ManagerAssumption DEF Inv, HandlesKept, Kept, Handle, ManagerAssumption
<1>4. CASE c \in Range(UsedL(p))
  <2>1. c \in Range(v) /\ Same(heap'[c], heap[c])
    BY <1>2, <1>4
  <2>2. heap'[c].allocated = TRUE /\ c \in live'
    BY <1>2, <2>1, SoundLists DEF Sound, Holds
  <2>3. h.kind = p
    <3>1. PICK k \in handles : k.kind = p /\ k.block = c
      BY <1>4 DEF Inv, InUse
    <3>2. k = h
      BY <3>1 DEF Inv, HandlesKept, Distinct
    <3> QED
      BY <3>1, <3>2
  <2>4. c \in Range(UsedL(h.kind)')
    BY <1>1, <2>1, <2>3
  <2> HIDE DEF c
  <2>5. /\ h \in Handle /\ c \in live' /\ heap'[c].allocated = TRUE
        /\ heap'[c].flags = h.kind /\ heap'[c].size >= h.size
        /\ heap'[c].managed = (h.kind = "managed")
        /\ h.kind = "device" => heap'[c].addr = h.ptr
        /\ h.kind # "device" => heap'[c].host = h.ptr /\ h.ptr \in buffers'
    BY <1>3, <2>1, <2>2 DEF Kept, Same, c
  <2> QED
    BY <2>4, <2>5 DEF Kept, c
<1>5. CASE c \notin Range(UsedL(p))
  <2>1. c \notin On(p)
    <3>1. CASE h.kind # p /\ c \in Range(UsedL(h.kind))
      BY <1>3, <3>1 DEF Inv, PoolsSound, On
    <3>2. CASE \A q \in Pools : c \notin On(q)
      BY <3>2
    <3> QED
      BY <1>3, <1>5, <3>1, <3>2 DEF Kept
  <2>2. heap'[c] = heap[c] /\ c \in live' /\ c \notin On(p)'
    BY <1>1, <1>2, <1>3, <2>1 DEF Only
  <2>3. \/ c \in Range(UsedL(h.kind)')
        \/ h.kind = "pinned" /\ \A q \in Pools : c \notin On(q)'
    <3>1. CASE c \in Range(UsedL(h.kind))
      BY <1>1, <1>3, <1>5, <3>1
    <3>2. CASE h.kind = "pinned" /\ \A q \in Pools : c \notin On(q)
      <4>1. \A q \in Pools : c \notin On(q)'
        BY <1>1, <2>2, <3>2
      <4> QED
        BY <3>2, <4>1
    <3> QED
      BY <1>3, <3>1, <3>2 DEF Kept
  <2> HIDE DEF c
  <2> QED
    BY <1>3, <2>2, <2>3 DEF Kept, c
<1> QED
  BY <1>4, <1>5

\* An allocation: the pool it leaves, the block it took from the free list,
\* and the pointer it returns.
Marked(t, m) ==
  /\ t.pool = m.pool
  /\ \A c \in Cells : t.heap[c].addr = m.heap[c].addr /\ t.heap[c].size = m.heap[c].size
Grants(kind, n, b, host, t, g, v, k) ==
  /\ \E m : /\ Marked(t, m)
            /\ Allocated(kind, Memory(kind), m, FreeL(kind), UsedL(kind), b, g, v, n)
  /\ b \in Range(FreeL(kind)) /\ Changes(kind, t, g, v)
  /\ Range(v) = Range(UsedL(kind)) \cup {b}
  /\ \A c \in Range(UsedL(kind)) : Same(t.heap[c], heap[c])
  /\ handles' = handles \cup {k} /\ k \in Handle /\ k.kind = kind /\ k.block = b
  /\ t.heap[b].size >= n /\ k.size = n /\ t.heap[b].flags = kind
  /\ t.heap[b].managed = (kind = "managed")
  /\ kind = "device" => t.heap[b].addr = k.ptr
  /\ kind # "device" => t.heap[b].host = k.ptr /\ k.ptr = host

LEMMA GrantedGrants ==
  ASSUME Inv, NEW kind \in Kinds, NEW n \in Sizes, NEW host, Granted(kind, n, host),
         kind # "device" => host \in Hosts
  PROVE  \E t, g, v, k : Grants(kind, n, Fit(kind, n), host, t, g, v, k)
<1> DEFINE b == Fit(kind, n)
           f == FreeL(kind)
           u == UsedL(kind)
           Mark(m) == [m.heap[b] EXCEPT !.flags = kind,
                         !.host = IF kind = "device" THEN @ ELSE host,
                         !.managed = @ \/ kind = "managed"]
           k == [kind |-> kind, block |-> b, size |-> n,
                 ptr |-> IF kind = "device" THEN heap[b].addr ELSE host]
<1>1. kind \in Pools /\ n \in Nat
  BY ManagerAssumption DEF ManagerAssumption
<1>2. Sound(kind, Memory(kind), f, u) /\ b # Null /\ Memory(kind).heap = heap
      /\ Memory(kind).live = live
  BY <1>1 DEF Inv, PoolsSound, Granted, Memory
<1>3. PICK m \in PoolAlloc(kind, b, n) :
        Lists(kind, [m EXCEPT !.heap = [m.heap EXCEPT ![b] = Mark(m)]])
  BY DEF Granted
<1>4. handles' = handles \cup {k}
  BY DEF Granted
<1> HIDE DEF k
<1>5. /\ b \in Range(f) /\ b \notin Range(u) /\ b \in Cells
      /\ \E g, v : Allocated(kind, Memory(kind), m, f, u, b, g, v, n)
  <2> HIDE DEF f, u
  <2> QED
    BY <1>1, <1>2, <1>3, PoolAllocSound
<1>6. PICK g, v : Allocated(kind, Memory(kind), m, f, u, b, g, v, n)
  BY <1>5
<1>7. /\ Sound(kind, m, g, v) /\ Range(v) = Range(u) \cup {b}
      /\ Only(m.heap, heap, Range(f) \cup Range(u) \cup (Cells \ live))
  BY <1>2, <1>6 DEF Allocated
<1>8. \/ \E r \in Cells \ live :
           Split(Memory(kind), m, f, b, g, r, AlignUp(kind, n))
      \/ Whole(Memory(kind), m, f, b, g)
  BY <1>2, <1>6 DEF Allocated
<1>9. heap \in Heaps /\ m.heap \in Heaps /\ Range(f) \subseteq live /\ Range(u) \subseteq live
      /\ Range(u) \subseteq Cells /\ m \in MemRec
  BY <1>1, <1>2, <1>7, SoundLists DEF Sound
<1> HIDE DEF b, f, u
<1>10. \E i \in 1 .. Len(f) : b = f[i] /\ AlignUp(kind, n) >= n
                              /\ heap[b].size >= AlignUp(kind, n)
  BY <1>1, <1>2, FitPlace DEF b
<1>11. AlignUp(kind, n) \in Nat /\ heap[b].size \in Nat /\ heap[b].addr \in Nat
  BY <1>1, <1>5, <1>9, AlignNumber, CellTypes
\* What it did to memory, in either case.
<1>12. /\ m.heap[b].addr = heap[b].addr /\ m.heap[b].size >= n
       /\ \A c \in Range(u) : Same(m.heap[c], heap[c])
       /\ Range(g) \subseteq Range(f) \cup (Cells \ live)
       /\ m.live = (live \ (Range(f) \cup Range(u))) \cup Range(g) \cup Range(v)
  <2>1. ASSUME NEW r \in Cells \ live,
               Split(Memory(kind), m, f, b, g, r, AlignUp(kind, n))
        PROVE  <1>12!:
    <3>1. \A c \in Range(u) : c \in Cells \ {b, r}
      BY <1>5, <1>9
    <3> QED
      BY <1>2, <1>5, <1>7, <1>9, <1>10, <2>1, <3>1 DEF Split
  <2>2. ASSUME Whole(Memory(kind), m, f, b, g) PROVE <1>12!:
    <3>1. /\ \A c \in Cells : Same(m.heap[c], heap[c])
          /\ Range(g) = Range(f) \ {b} /\ m.live = live
      BY <1>2, <2>2 DEF Whole
    <3>2. m.heap[b].addr = heap[b].addr /\ m.heap[b].size = heap[b].size
      BY <1>5, <3>1 DEF Same
    <3>3. m.heap[b].size >= n
      BY <1>1, <1>10, <1>11, <3>2
    <3> QED
      BY <1>5, <1>7, <1>9, <3>1, <3>2, <3>3
  <2> QED
    BY <1>8, <2>1, <2>2
<1> DEFINE t == [m EXCEPT !.heap = [m.heap EXCEPT ![b] = Mark(m)]]
<1>13. m.heap[b] \in CellRec
  BY <1>5, <1>9 DEF Heaps
<1>14. m.heap[b].managed = FALSE \/ kind = "managed"
  BY <1>7 DEF Sound, Tame
<1>15. /\ Mark(m) \in CellRec /\ Mark(m).addr = m.heap[b].addr
       /\ Mark(m).size = m.heap[b].size /\ Mark(m).allocated = m.heap[b].allocated
       /\ Mark(m).next = m.heap[b].next /\ Mark(m).prev = m.heap[b].prev
       /\ Mark(m).flags = kind
       /\ kind # "device" => Mark(m).host = host
  BY <1>1, <1>13 DEF CellRec
<1>16. Mark(m).managed = (m.heap[b].managed \/ kind = "managed")
  BY <1>13 DEF CellRec
<1> HIDE DEF Mark
<1>17. Mark(m).managed = (kind = "managed")
  BY <1>14, <1>16
<1>18. kind # "managed" => Mark(m).managed = m.heap[b].managed
  BY <1>14, <1>17
<1>19. Sound(kind, t, g, v)
  <2>1. t = [m EXCEPT !.heap = [m.heap EXCEPT ![b] = Mark(m)]]
    OBVIOUS
  <2> HIDE DEF t
  <2> QED
    BY <1>1, <1>5, <1>7, <1>15, <1>18, <2>1, MarkSound
<1>20. /\ t.live = m.live /\ t.heap[b] = Mark(m) /\ t.pool = m.pool
       /\ \A c \in Cells \ {b} : t.heap[c] = m.heap[c]
  BY <1>5, <1>9 DEF MemRec, Heaps
<1> HIDE DEF t
<1>21. Changes(kind, t, g, v)
  <2>1. Lists(kind, t)
    BY <1>3 DEF t
  <2>2. Only(t.heap, heap, On(kind) \cup (Cells \ live))
    BY <1>5, <1>7, <1>20 DEF Only, On, f, u
  <2>3. Range(g) \cup Range(v) \subseteq On(kind) \cup (Cells \ live)
    BY <1>5, <1>7, <1>12 DEF On, f, u
  <2>4. On(kind) = Range(f) \cup Range(u)
    BY DEF On, f, u
  <2> QED
    BY <1>12, <1>19, <1>20, <2>1, <2>2, <2>3, <2>4 DEF Changes
<1>22. \A c \in Range(u) : Same(t.heap[c], heap[c])
  BY <1>5, <1>9, <1>12, <1>20
<1>23. /\ k \in Handle /\ k.kind = kind /\ k.block = b /\ k.size = n
       /\ k.ptr = IF kind = "device" THEN heap[b].addr ELSE host
  <2>1. kind # "device" => host \in Nat
    BY ManagerAssumption DEF ManagerAssumption
  <2> QED
    BY <1>5, <1>11, <2>1 DEF k, Handle
<1>24. Marked(t, m)
  BY <1>5, <1>15, <1>20 DEF Marked
<1>25. \E x : /\ Marked(t, x)
              /\ Allocated(kind, Memory(kind), x, FreeL(kind), UsedL(kind), b, g, v, n)
  BY <1>6, <1>24 DEF f, u
<1>26. Grants(kind, n, b, host, t, g, v, k)
  BY <1>4, <1>5, <1>7, <1>12, <1>15, <1>17, <1>20, <1>21, <1>22, <1>23, <1>25
     DEF Grants, f, u
<1> QED
  BY <1>26 DEF b

LEMMA GrantedStep ==
  ASSUME Inv, NEW kind \in Kinds, NEW n \in Sizes, NEW host, Granted(kind, n, host),
         \/ kind = "device" /\ buffers' = buffers
         \/ kind # "device" /\ host \in Hosts \ buffers /\ buffers' = buffers \cup {host}
  PROVE  /\ PoolsSound' /\ HandlesKept' /\ InUse' /\ Tracked'
         /\ net_count' \in Int /\ heap'[Fit(kind, n)].size \in Int
<1> DEFINE b == Fit(kind, n)
<1>1. PICK t, g, v, k : Grants(kind, n, b, host, t, g, v, k)
  BY GrantedGrants
<1> HIDE DEF b
<1>2. /\ b \in Range(FreeL(kind)) /\ Changes(kind, t, g, v)
      /\ Range(v) = Range(UsedL(kind)) \cup {b}
      /\ \A c \in Range(UsedL(kind)) : Same(t.heap[c], heap[c])
      /\ handles' = handles \cup {k} /\ k \in Handle /\ k.kind = kind /\ k.block = b
      /\ t.heap[b].size >= n /\ k.size = n /\ t.heap[b].flags = kind
      /\ t.heap[b].managed = (kind = "managed")
      /\ kind = "device" => t.heap[b].addr = k.ptr
      /\ kind # "device" => t.heap[b].host = k.ptr /\ k.ptr = host
  BY <1>1 DEF Grants
<1>3. kind \in Pools
  BY ManagerAssumption DEF ManagerAssumption
<1>4. /\ PoolsSound' /\ FreeL(kind)' = g /\ UsedL(kind)' = v
      /\ \A q \in Pools \ {kind} : FreeL(q)' = FreeL(q) /\ UsedL(q)' = UsedL(q)
      /\ On(kind)' = Range(g) \cup Range(v) /\ Tracked'
  BY <1>2, <1>3, PoolStep DEF Inv
<1>5. heap' = t.heap /\ live' = t.live /\ heap' \in Heaps /\ Sound(kind, t, g, v)
  BY <1>2, <1>4 DEF Changes, Lists, PoolsSound
<1>6. b \in Cells /\ b \in live' /\ heap'[b].allocated = TRUE /\ b \in Range(v)
      /\ b \in On(kind) /\ b \notin Range(UsedL(kind))
  <2>1. b \in Range(v)
    BY <1>2
  <2>2. b \in live' /\ b \in Cells /\ heap'[b].allocated = TRUE
    BY <1>3, <1>5, <2>1, SoundLists DEF Sound, Holds
  <2>3. Sound(kind, Memory(kind), FreeL(kind), UsedL(kind))
    BY <1>3 DEF Inv, PoolsSound
  <2> QED
    BY <1>2, <1>3, <2>1, <2>2, <2>3, SoundLists DEF On
<1>7. Kept(k)'
  <2>1. k.kind # "device" => k.ptr \in buffers'
    BY <1>2
  <2>2. k.block \in Range(UsedL(k.kind)')
    BY <1>2, <1>4, <1>6
  <2> QED
    BY <1>2, <1>5, <1>6, <2>1, <2>2 DEF Kept
<1>8. ASSUME NEW h \in handles PROVE Kept(h)'
  <2>1. h.kind # "device" => h.ptr \in buffers'
    BY DEF Inv, HandlesKept, Kept
  <2>2. h.block \in Range(UsedL(kind))
          => h.block \in Range(v) /\ Same(t.heap[h.block], heap[h.block])
    BY <1>2
  <2> QED
    BY <1>2, <1>3, <2>1, <2>2, KeptStays
<1>9. ASSUME NEW h \in handles PROVE Distinct(h, k) /\ Distinct(k, h)
  <2>1. Kept(h)
    BY DEF Inv, HandlesKept
  <2>2. h.block # b
    <3>1. CASE h.block \in Range(UsedL(h.kind))
      <4>1. h.kind = kind => h.block # b
        BY <1>6, <3>1
      <4>2. h.kind # kind => h.block # b
        <5>1. h.kind \in Pools /\ h.block \in On(h.kind)
          BY <2>1, <3>1, ManagerAssumption DEF Kept, Handle, ManagerAssumption, On
        <5> QED
          BY <1>3, <1>6, <5>1 DEF Inv, PoolsSound
      <4> QED
        BY <4>1, <4>2
    <3>2. CASE \A q \in Pools : h.block \notin On(q)
      BY <1>3, <1>6, <3>2
    <3> QED
      BY <2>1, <3>1, <3>2 DEF Kept
  <2>3. h.kind # "device" /\ kind # "device" => h.ptr # k.ptr
    BY <1>2, <2>1 DEF Kept
  <2> QED
    BY <1>2, <2>2, <2>3 DEF Distinct
<1>10. HandlesKept'
  <2>1. \A h \in handles' : Kept(h)'
    BY <1>2, <1>7, <1>8
  <2>2. \A h, q \in handles' : h # q => Distinct(h, q)
    BY <1>2, <1>9 DEF Inv, HandlesKept
  <2> QED
    BY <2>1, <2>2 DEF HandlesKept, Distinct
<1>11. InUse'
  <2>1. ASSUME NEW p \in Pools, NEW c \in Range(UsedL(p)')
        PROVE  \E h \in handles' : h.kind = p /\ h.block = c
    <3>1. CASE p = kind /\ c = b
      BY <1>2, <3>1
    <3>2. CASE ~ (p = kind /\ c = b)
      <4>1. c \in Range(UsedL(p))
        BY <1>2, <1>4, <2>1, <3>2
      <4>2. \E h \in handles : h.kind = p /\ h.block = c
        BY <4>1 DEF Inv, InUse
      <4> QED
        BY <1>2, <4>2
    <3> QED
      BY <3>1, <3>2
  <2> QED
    BY <2>1 DEF InUse
<1>12. net_count' \in Int /\ heap'[b].size \in Int
  <2>1. heap'[b].size \in Int
    BY <1>5, <1>6, CellTypes
  <2> QED
    BY <2>1 DEF Inv, Granted
<1> QED
  BY <1>4, <1>10, <1>11, <1>12 DEF b

\* What pool_free does of the manager's memory.
LEMMA FreedChanges ==
  ASSUME Inv, NEW p \in Pools, NEW b \in Range(UsedL(p)), NEW t, Lists(p, t),
         NEW g, NEW v, Freed(p, Memory(p), t, FreeL(p), UsedL(p), b, g, v)
  PROVE  /\ Changes(p, t, g, v) /\ Range(v) = Range(UsedL(p)) \ {b} /\ b \in On(p)
         /\ \A c \in Range(UsedL(p)) \ {b} : Same(t.heap[c], heap[c])
<1>1. /\ Sound(p, Memory(p), FreeL(p), UsedL(p)) /\ Memory(p).heap = heap
      /\ Memory(p).live = live
  BY DEF Inv, PoolsSound, Memory
<1>2. /\ Sound(p, t, g, v) /\ Range(v) = Range(UsedL(p)) \ {b}
      /\ Only(t.heap, heap, On(p))
  BY <1>1 DEF Freed, On
<1>3. PICK a \in Cells, D \in SUBSET Cells :
        Joined(Memory(p), t, FreeL(p), b, g, a, D)
  BY DEF Freed
<1>4. /\ Range(g) = (Range(FreeL(p)) \cup {b}) \ D /\ t.live = live \ D
      /\ D \cup {a} \subseteq Range(FreeL(p)) \cup {b}
      /\ \A c \in Cells \ (D \cup {a}) : Same(t.heap[c], heap[c])
  BY <1>1, <1>3 DEF Joined, Ending, Beginning
<1>5. /\ Range(FreeL(p)) \cap Range(UsedL(p)) = {} /\ b \in On(p)
      /\ Range(UsedL(p)) \subseteq Cells
  BY <1>1, SoundLists DEF On
<1>6. Only(t.heap, heap, On(p) \cup (Cells \ live))
  BY <1>2 DEF Only
<1>7. Range(g) \cup Range(v) \subseteq On(p) \cup (Cells \ live)
  BY <1>2, <1>4, <1>5 DEF On
<1>8. t.live = (live \ On(p)) \cup Range(g) \cup Range(v)
  BY <1>1, <1>2, <1>4, <1>5, SoundLists DEF On
<1>9. \A c \in Range(UsedL(p)) \ {b} : Same(t.heap[c], heap[c])
  BY <1>4, <1>5
<1> QED
  BY <1>2, <1>5, <1>6, <1>7, <1>8, <1>9 DEF Changes

\* A release: block b, in use, goes back to pool p; its pointer, if any, goes.
LEMMA ReleasedStep ==
  ASSUME Inv, NEW p \in Pools, NEW b \in Range(UsedL(p)), NEW t,
         t = PoolFree(Memory(p), b), Lists(p, t), NEW h \in handles,
         h.block = b, handles' = handles \ {h},
         \/ h.kind = "device" /\ buffers' = buffers
         \/ h.kind # "device" /\ buffers' = buffers \ {h.ptr}
  PROVE  PoolsSound' /\ HandlesKept' /\ InUse' /\ Tracked'
<1>1. /\ Sound(p, Memory(p), FreeL(p), UsedL(p)) /\ Memory(p).heap = heap
      /\ Memory(p).live = live
  BY DEF Inv, PoolsSound, Memory
<1>2. PICK g, v : Freed(p, Memory(p), t, FreeL(p), UsedL(p), b, g, v)
  BY <1>1, PoolFreeSound
<1>3. /\ Changes(p, t, g, v) /\ Range(v) = Range(UsedL(p)) \ {b} /\ b \in On(p)
      /\ \A c \in Range(UsedL(p)) \ {b} : Same(t.heap[c], heap[c])
  BY <1>2, FreedChanges
<1>4. /\ PoolsSound' /\ UsedL(p)' = v /\ Tracked'
      /\ \A q \in Pools \ {p} : UsedL(q)' = UsedL(q)
  BY <1>3, PoolStep DEF Inv
<1>5. ASSUME NEW k \in handles, k # h PROVE Kept(k)'
  <2>1. Kept(k) /\ Distinct(k, h)
    BY <1>5 DEF Inv, HandlesKept
  <2>2. k.kind # "device" => k.ptr \in buffers'
    BY <2>1 DEF Kept, Distinct
  <2>3. k.block \in Range(UsedL(p))
          => k.block \in Range(v) /\ Same(t.heap[k.block], heap[k.block])
    BY <1>3, <2>1 DEF Distinct
  <2> QED
    BY <1>3, <2>2, <2>3, KeptStays
<1>6. HandlesKept'
  <2>1. \A k \in handles' : Kept(k)'
    BY <1>5
  <2>2. \A k, q \in handles' : k # q => Distinct(k, q)
    BY DEF Inv, HandlesKept
  <2> QED
    BY <2>1, <2>2 DEF HandlesKept, Distinct
<1>7. InUse'
  <2>1. ASSUME NEW q \in Pools, NEW c \in Range(UsedL(q)')
        PROVE  \E k \in handles' : k.kind = q /\ k.block = c
    <3>1. c \in Range(UsedL(q)) /\ c # b
      <4>1. CASE q = p
        BY <1>3, <1>4, <2>1, <4>1
      <4>2. CASE q # p
        <5>1. c \in Range(UsedL(q))
          BY <1>4, <2>1, <4>2
        <5>2. On(q) \cap On(p) = {}
          BY <4>2 DEF Inv, PoolsSound
        <5> QED
          BY <1>3, <5>1, <5>2 DEF On
      <4> QED
        BY <4>1, <4>2
    <3>2. PICK k \in handles : k.kind = q /\ k.block = c
      BY <3>1 DEF Inv, InUse
    <3> QED
      BY <3>1, <3>2
  <2> QED
    BY <2>1 DEF InUse
<1> QED
  BY <1>4, <1>6, <1>7

\* Memory that fails for want of a host buffer goes back at once.
Bounces(n, b, s, g, v, t, h, w) ==
  LET p == "managed" IN
  /\ Allocated(p, Memory(p), s, FreeL(p), UsedL(p), b, g, v, n)
  /\ Freed(p, s, t, g, v, b, h, w) /\ Changes(p, t, h, w) /\ b \in Range(v)
  /\ Range(w) = Range(UsedL(p))
  /\ \A c \in Range(UsedL(p)) : Same(t.heap[c], heap[c])

LEMMA BounceBounces ==
  ASSUME Inv, NEW n \in Sizes, "managed" \in Kinds, ManagedGivesBack(n)
  PROVE  \E s, g, v, t, h, w : Bounces(n, Fit("managed", n), s, g, v, t, h, w)
<1> DEFINE p == "managed"
           b == Fit(p, n)
           f == FreeL(p)
           u == UsedL(p)
<1>1. p \in Pools /\ Sound(p, Memory(p), f, u) /\ Memory(p).heap = heap
      /\ Memory(p).live = live /\ b # Null
  BY DEF Inv, PoolsSound, Memory, ManagedGivesBack, Pools
<1>2. PICK s \in PoolAlloc(p, b, n) : Lists(p, PoolFree(s, b))
  BY DEF ManagedGivesBack
<1> HIDE DEF f, u, p
<1>3. /\ b \in Range(f) /\ b \notin Range(u) /\ b \in Cells
      /\ \E g, v : Allocated(p, Memory(p), s, f, u, b, g, v, n)
  BY <1>1, <1>2, PoolAllocSound
<1>4. PICK g, v : Allocated(p, Memory(p), s, f, u, b, g, v, n)
  BY <1>3
<1> DEFINE t == PoolFree(s, b)
<1> HIDE DEF b, t
<1>5. /\ Sound(p, s, g, v) /\ Range(v) = Range(u) \cup {b}
      /\ Only(s.heap, heap, Range(f) \cup Range(u) \cup (Cells \ live))
  BY <1>1, <1>4 DEF Allocated
<1>6. \/ \E r \in Cells \ live : Split(Memory(p), s, f, b, g, r, AlignUp(p, n))
      \/ Whole(Memory(p), s, f, b, g)
  BY <1>1, <1>4 DEF Allocated
<1>7. Range(f) \subseteq live /\ Range(u) \subseteq live /\ Range(u) \subseteq Cells
      /\ Range(f) \cap Range(u) = {}
  BY <1>1, SoundLists
<1>8. /\ \A c \in Range(u) : Same(s.heap[c], heap[c])
      /\ Range(g) \subseteq Range(f) \cup (Cells \ live)
      /\ s.live = (live \ (Range(f) \cup Range(u))) \cup Range(g) \cup Range(v)
  <2>1. ASSUME NEW r \in Cells \ live, Split(Memory(p), s, f, b, g, r, AlignUp(p, n))
        PROVE  <1>8!:
    <3>1. \A c \in Range(u) : c \in Cells \ {b, r}
      BY <1>3, <1>7
    <3> QED
      BY <1>1, <1>3, <1>5, <1>7, <2>1, <3>1 DEF Split
  <2>2. ASSUME Whole(Memory(p), s, f, b, g) PROVE <1>8!:
    BY <1>1, <1>3, <1>5, <1>7, <2>2 DEF Whole
  <2> QED
    BY <1>6, <2>1, <2>2
<1>9. PICK h, w : Freed(p, s, t, g, v, b, h, w)
  <2>1. b \in Range(v)
    BY <1>5
  <2> QED
    BY <1>1, <1>5, <2>1, PoolFreeSound DEF t
<1>10. /\ Sound(p, t, h, w) /\ Range(w) = Range(u)
       /\ Only(t.heap, s.heap, Range(g) \cup Range(v))
  BY <1>3, <1>5, <1>9 DEF Freed
<1>11. PICK a \in Cells, D \in SUBSET Cells : Joined(s, t, g, b, h, a, D)
  BY <1>9 DEF Freed
<1>12. /\ Range(h) = (Range(g) \cup {b}) \ D /\ t.live = s.live \ D
       /\ D \cup {a} \subseteq Range(g) \cup {b}
       /\ \A c \in Cells \ (D \cup {a}) : Same(t.heap[c], s.heap[c])
  BY <1>11 DEF Joined, Ending, Beginning
<1>13. Changes(p, t, h, w)
  <2>1. On(p) = Range(f) \cup Range(u)
    BY DEF On, f, u
  <2>2. Only(t.heap, heap, On(p) \cup (Cells \ live))
    BY <1>3, <1>5, <1>8, <1>10, <2>1 DEF Only
  <2>3. Range(h) \cup Range(w) \subseteq On(p) \cup (Cells \ live)
    BY <1>3, <1>8, <1>10, <1>12, <2>1
  <2>4. t.live = (live \ On(p)) \cup Range(h) \cup Range(w)
    BY <1>3, <1>5, <1>7, <1>8, <1>10, <1>12, <2>1
  <2> QED
    BY <1>2, <1>10, <2>2, <2>3, <2>4 DEF Changes, t
<1>14. ASSUME NEW c \in Range(u) PROVE Same(t.heap[c], heap[c])
  <2>1. c \in Cells /\ c # b /\ c \in live
    BY <1>3, <1>7
  <2>2. c \notin Range(g)
    BY <1>7, <1>8, <2>1
  <2>3. Same(t.heap[c], s.heap[c]) /\ Same(s.heap[c], heap[c])
    BY <1>8, <1>12, <2>1, <2>2
  <2> QED
    BY <2>3 DEF Same
<1>15. Bounces(n, b, s, g, v, t, h, w)
  BY <1>4, <1>5, <1>9, <1>10, <1>13, <1>14 DEF Bounces, p, f, u
<1> QED
  BY <1>15 DEF b, p

LEMMA BounceStep ==
  ASSUME Inv, NEW n \in Sizes, "managed" \in Kinds, ManagedGivesBack(n)
  PROVE  PoolsSound' /\ HandlesKept' /\ InUse' /\ Tracked'
<1> DEFINE p == "managed"
<1>1. p \in Pools
  BY DEF Pools
<1>2. PICK b, s, g, v, t, h, w : Bounces(n, b, s, g, v, t, h, w)
  BY BounceBounces
<1>3. /\ Changes(p, t, h, w) /\ Range(w) = Range(UsedL(p))
      /\ \A c \in Range(UsedL(p)) : Same(t.heap[c], heap[c])
  BY <1>2 DEF Bounces
<1>4. buffers' = buffers /\ handles' = handles
  BY DEF ManagedGivesBack
<1> HIDE DEF p
<1>5. /\ PoolsSound' /\ UsedL(p)' = w /\ Tracked'
      /\ \A q \in Pools \ {p} : UsedL(q)' = UsedL(q)
  BY <1>1, <1>3, PoolStep DEF Inv
<1>6. ASSUME NEW k \in handles PROVE Kept(k)'
  <2>1. k.kind # "device" => k.ptr \in buffers'
    BY <1>4 DEF Inv, HandlesKept, Kept
  <2> QED
    BY <1>1, <1>3, <2>1, KeptStays
<1>7. HandlesKept'
  <2>1. \A k \in handles' : Kept(k)'
    BY <1>4, <1>6
  <2>2. \A k, q \in handles' : k # q => Distinct(k, q)
    BY <1>4 DEF Inv, HandlesKept
  <2> QED
    BY <2>1, <2>2 DEF HandlesKept, Distinct
<1>8. InUse'
  <2>1. ASSUME NEW q \in Pools, NEW c \in Range(UsedL(q)')
        PROVE  \E k \in handles' : k.kind = q /\ k.block = c
    <3>1. c \in Range(UsedL(q))
      BY <1>3, <1>5, <2>1
    <3> QED
      BY <1>4, <3>1 DEF Inv, InUse
  <2> QED
    BY <2>1 DEF InUse
<1> QED
  BY <1>5, <1>7, <1>8

\* A step that leaves the lists and their blocks alone.
LEMMA PoolsStay ==
  ASSUME PoolsSound, heap' \in Heaps, live' \subseteq Cells, live \subseteq live',
         pool' = pool, \A c \in live : heap'[c] = heap[c]
  PROVE  /\ PoolsSound'
         /\ \A p \in Pools : /\ FreeL(p)' = FreeL(p) /\ UsedL(p)' = UsedL(p)
                             /\ On(p)' = On(p) /\ On(p) \subseteq live
<1>1. ASSUME NEW p \in Pools
      PROVE  /\ FreeL(p)' = FreeL(p) /\ UsedL(p)' = UsedL(p) /\ On(p) \subseteq live
             /\ Sound(p, Memory(p)', FreeL(p), UsedL(p))
  <2>1. Sound(p, Memory(p), FreeL(p), UsedL(p)) /\ pool \in [Pools -> PoolRec]
    BY DEF PoolsSound
  <2>2. On(p) \subseteq live
    <3>1. Memory(p).live = live
      BY DEF Memory
    <3> QED
      BY <2>1, <3>1, SoundLists DEF On
  <2>3. /\ Memory(p)' \in MemRec /\ Memory(p)'.pool = Memory(p).pool
        /\ Memory(p)'.live = live' /\ Memory(p)'.heap = heap' /\ Memory(p).heap = heap
        /\ Memory(p)'.pool = pool[p]
    BY <2>1 DEF Memory, MemRec
  <2>4. Sound(p, Memory(p)', FreeL(p), UsedL(p))
    BY <2>1, <2>2, <2>3, FrameSound DEF On
  <2>5. FreeL(p)' = FreeL(p) /\ UsedL(p)' = UsedL(p)
    BY <2>3, <2>4, SoundLists DEF FreeL, UsedL
  <2> QED
    BY <2>2, <2>4, <2>5
<1>2. \A p \in Pools : On(p)' = On(p)
  BY <1>1 DEF On
<1>3. PoolsSound'
  BY <1>1, <1>2 DEF PoolsSound
<1> QED
  BY <1>1, <1>2, <1>3

LEMMA KeptPool ==
  ASSUME Inv, NEW h \in handles
  PROVE  h.kind \in Pools /\ Kept(h) /\ h.block \in Cells /\ h.block \in live
BY ManagerAssumption DEF Inv, HandlesKept, Kept, Handle, ManagerAssumption

LEMMA UntrackedStep ==
  ASSUME Inv, NEW n \in Sizes, "pinned" \in Kinds, MallocUntracked(n)
  PROVE  PoolsSound' /\ HandlesKept' /\ InUse' /\ Tracked' /\ net_count' \in Int
         /\ buffers' \subseteq Hosts
<1>1. PICK host \in Hosts \ buffers, b \in Cells \ live :
        /\ heap' = [heap EXCEPT ![b] =
                      [NewBlock(host, n) EXCEPT !.host = host, !.flags = "pinned",
                                                !.allocated = TRUE]]
        /\ live' = live \cup {b} /\ buffers' = buffers \cup {host}
        /\ handles' = handles \cup
             {[kind |-> "pinned", block |-> b, size |-> n, ptr |-> host]}
        /\ pool' = pool
  BY DEF MallocUntracked
<1> DEFINE r == [NewBlock(host, n) EXCEPT !.host = host, !.flags = "pinned",
                                          !.allocated = TRUE]
           k == [kind |-> "pinned", block |-> b, size |-> n, ptr |-> host]
<1>2. n \in Nat /\ host \in Nat /\ "pinned" \in Pools
  BY ManagerAssumption DEF ManagerAssumption, Pools
<1>3. /\ r \in CellRec /\ r.host = host /\ r.flags = "pinned" /\ r.allocated = TRUE
      /\ r.managed = FALSE /\ r.size = n
  BY <1>2 DEF NewBlock, CellRec, Ptr
<1>4. k \in Handle /\ k.kind = "pinned" /\ k.block = b /\ k.size = n /\ k.ptr = host
  BY <1>2 DEF Handle
<1>5. PoolsSound /\ heap \in Heaps /\ live \subseteq Cells
  BY DEF Inv, PoolsSound
<1> HIDE DEF r, k
<1>6. heap' = [heap EXCEPT ![b] = r] /\ handles' = handles \cup {k}
  BY <1>1 DEF r, k
<1>7. heap' \in Heaps /\ heap'[b] = r /\ \A c \in Cells \ {b} : heap'[c] = heap[c]
  BY <1>3, <1>5, <1>6 DEF Heaps
<1>8. /\ PoolsSound'
      /\ \A p \in Pools : /\ FreeL(p)' = FreeL(p) /\ UsedL(p)' = UsedL(p)
                          /\ On(p)' = On(p) /\ On(p) \subseteq live
  <2>1. live' \subseteq Cells /\ live \subseteq live' /\ \A c \in live : heap'[c] = heap[c]
    BY <1>1, <1>5, <1>7
  <2> QED
    BY <1>1, <1>5, <1>7, <2>1, PoolsStay
<1>9. Kept(k)'
  <2>1. \A p \in Pools : b \notin On(p)'
    BY <1>8
  <2>2. heap'[b].size >= n
    BY <1>2, <1>3, <1>7
  <2> QED
    BY <1>1, <1>3, <1>4, <1>7, <2>1, <2>2 DEF Kept
<1>10. ASSUME NEW h \in handles PROVE Kept(h)' /\ Distinct(h, k) /\ Distinct(k, h)
  <2>1. h.kind \in Pools /\ Kept(h) /\ h.block \in Cells /\ h.block \in live
    BY KeptPool
  <2>2. h.block # b /\ heap'[h.block] = heap[h.block]
    BY <1>7, <2>1
  <2>3. Kept(h)'
    BY <1>1, <1>8, <2>1, <2>2 DEF Kept
  <2>4. h.kind # "device" => h.ptr # host
    BY <2>1 DEF Kept
  <2> QED
    BY <1>4, <2>2, <2>3, <2>4 DEF Distinct
<1>11. HandlesKept'
  <2>1. \A h \in handles' : Kept(h)'
    BY <1>6, <1>9, <1>10
  <2>2. \A h, q \in handles' : h # q => Distinct(h, q)
    BY <1>6, <1>10 DEF Inv, HandlesKept
  <2> QED
    BY <2>1, <2>2 DEF HandlesKept, Distinct
<1>12. InUse'
  BY <1>6, <1>8 DEF Inv, InUse
<1>13. net_count' \in Int /\ buffers' \subseteq Hosts
  BY <1>1 DEF Inv, MallocUntracked
<1>14. Tracked'
  BY DEF Tracked
<1> QED
  BY <1>8, <1>11, <1>12, <1>13, <1>14

\* A pointer that no list knows goes; its block stays where it is.
LEMMA ForgottenStep ==
  ASSUME Inv, NEW h \in handles, h.kind = "pinned", h.block \notin Range(UsedL("pinned")),
         UNCHANGED <<heap, live, pool>>, handles' = handles \ {h},
         buffers' = buffers \ {h.ptr} \/ buffers' = buffers
  PROVE  PoolsSound' /\ HandlesKept' /\ InUse' /\ Tracked'
<1>1. PoolsSound /\ heap' \in Heaps /\ live' \subseteq Cells /\ live \subseteq live'
      /\ \A c \in live : heap'[c] = heap[c]
  BY DEF Inv, PoolsSound
<1>2. /\ PoolsSound'
      /\ \A p \in Pools : UsedL(p)' = UsedL(p) /\ On(p)' = On(p)
  BY <1>1, PoolsStay
<1>3. ASSUME NEW k \in handles, k # h PROVE Kept(k)'
  <2>1. k.kind \in Pools /\ Kept(k) /\ Distinct(k, h)
    BY <1>3, KeptPool DEF Inv, HandlesKept
  <2>2. k.kind # "device" => k.ptr \in buffers'
    BY <2>1 DEF Kept, Distinct
  <2> QED
    BY <1>2, <2>1, <2>2 DEF Kept
<1>4. HandlesKept'
  <2>1. \A k \in handles' : Kept(k)'
    BY <1>3
  <2>2. \A k, q \in handles' : k # q => Distinct(k, q)
    BY DEF Inv, HandlesKept
  <2> QED
    BY <2>1, <2>2 DEF HandlesKept, Distinct
<1>5. InUse'
  <2>1. ASSUME NEW p \in Pools, NEW c \in Range(UsedL(p)')
        PROVE  \E k \in handles' : k.kind = p /\ k.block = c
    <3>1. c \in Range(UsedL(p))
      BY <1>2, <2>1
    <3>2. PICK k \in handles : k.kind = p /\ k.block = c
      BY <3>1 DEF Inv, InUse
    <3>3. k # h
      BY <3>1, <3>2
    <3> QED
      BY <3>2, <3>3
  <2> QED
    BY <2>1 DEF InUse
<1>6. Tracked'
  <2>1. "pinned" \in Kinds
    BY DEF Inv, HandlesKept, Kept, Handle
  <2> QED
    BY <2>1 DEF Tracked
<1> QED
  BY <1>2, <1>4, <1>5, <1>6

LEMMA ReleaseStep ==
  ASSUME Inv, NEW h \in handles, Release(h)
  PROVE  /\ PoolsSound' /\ HandlesKept' /\ InUse' /\ Tracked' /\ buffers' \subseteq Hosts
         /\ total_allocated' \in Int /\ net_count' \in Int
<1> DEFINE b == Find(h.ptr)
<1>1. h.kind \in Pools /\ Kept(h) /\ h.block \in Cells
      /\ {"device", "pinned", "managed"} \subseteq Pools
  BY KeptPool DEF Pools
<1>2. b = IF h.block \in Range(UsedL(h.kind)) THEN h.block ELSE Null
  BY FindOwn
<1>3. /\ h.block # Null /\ heap[h.block].size \in Int
      /\ total_allocated \in Int /\ net_count \in Int /\ buffers \subseteq Hosts
  <2>1. heap \in Heaps
    BY DEF Inv, PoolsSound
  <2>2. heap[h.block].size \in Nat
    BY <1>1, <2>1, CellTypes
  <2>3. h.block # Null
    BY <1>1, ManagerAssumption DEF ManagerAssumption
  <2>4. total_allocated \in Int /\ net_count \in Int /\ buffers \subseteq Hosts
    BY DEF Inv
  <2> QED
    BY <2>2, <2>3, <2>4
<1> HIDE DEF b
<1>4. CASE FreeDevice(h)
  <2>1. /\ h.kind = "device" /\ b # Null
        /\ Lists("device", PoolFree(Memory("device"), b))
        /\ total_allocated' = total_allocated - heap[b].size /\ net_count' = net_count - 1
        /\ handles' = handles \ {h} /\ buffers' = buffers
    BY <1>4 DEF FreeDevice, b
  <2>2. b = h.block /\ b \in Range(UsedL("device"))
    BY <1>2, <2>1
  <2> DEFINE t == PoolFree(Memory("device"), b)
  <2>3. /\ "device" \in Pools /\ b \in Range(UsedL("device")) /\ h.block = b
        /\ Lists("device", t) /\ t = PoolFree(Memory("device"), b)
        /\ handles' = handles \ {h}
        /\ \/ h.kind = "device" /\ buffers' = buffers
           \/ h.kind # "device" /\ buffers' = buffers \ {h.ptr}
    BY <1>1, <2>1, <2>2
  <2> HIDE DEF t
  <2>4. PoolsSound' /\ HandlesKept' /\ InUse' /\ Tracked'
    BY <2>3, ReleasedStep
  <2> QED
    BY <1>3, <2>1, <2>2, <2>4
<1>5. CASE FreeManaged(h)
  <2>1. /\ h.kind = "managed" /\ b # Null
        /\ Lists("managed", PoolFree(Memory("managed"), b))
        /\ total_allocated' = total_allocated - heap[b].size /\ net_count' = net_count - 1
        /\ handles' = handles \ {h} /\ buffers' = buffers \ {heap[b].host}
    BY <1>5 DEF FreeManaged, b
  <2>2. b = h.block /\ b \in Range(UsedL("managed"))
    BY <1>2, <2>1
  <2>3. buffers' = buffers \ {h.ptr}
    BY <1>1, <2>1, <2>2 DEF Kept
  <2>4. PoolsSound' /\ HandlesKept' /\ InUse' /\ Tracked'
    BY <1>1, <2>1, <2>2, <2>3, ReleasedStep
  <2> QED
    BY <1>3, <2>1, <2>2, <2>3, <2>4
<1>6. CASE FreePinned(h)
  <2>1. /\ h.kind = "pinned" /\ handles' = handles \ {h} /\ total_allocated' = total_allocated
        /\ (buffers' = buffers \ {h.ptr} \/ (b = Null /\ buffers' = buffers))
        /\ b = Null => UNCHANGED <<heap, live, pool, net_count>>
        /\ b # Null => /\ Lists("pinned", PoolFree(Memory("pinned"), b))
                       /\ net_count' = net_count - 1
    <3>1. h.kind = "pinned" /\ handles' = handles \ {h} /\ total_allocated' = total_allocated
      BY <1>6 DEF FreePinned
    <3>2. (buffers' = buffers \ {h.ptr} \/ (b = Null /\ buffers' = buffers))
      BY <1>6 DEF FreePinned, b
    <3>3. /\ b = Null => UNCHANGED <<heap, live, pool, net_count>>
          /\ b # Null => /\ Lists("pinned", PoolFree(Memory("pinned"), b))
                         /\ net_count' = net_count - 1
      BY <1>6 DEF FreePinned, b
    <3> QED
      BY <3>1, <3>2, <3>3
  <2>2. CASE b = Null
    <3>1. h.block \notin Range(UsedL("pinned"))
      BY <1>2, <1>3, <2>1, <2>2
    <3>2. PoolsSound' /\ HandlesKept' /\ InUse' /\ Tracked'
      BY <2>1, <2>2, <3>1, ForgottenStep
    <3> QED
      BY <1>3, <2>1, <2>2, <3>2
  <2>3. CASE b # Null
    <3>1. b = h.block /\ b \in Range(UsedL("pinned"))
      BY <1>2, <2>1, <2>3
    <3>2. PoolsSound' /\ HandlesKept' /\ InUse' /\ Tracked'
      BY <1>1, <2>1, <2>3, <3>1, ReleasedStep
    <3> QED
      BY <1>3, <2>1, <2>3, <3>2
  <2> QED
    BY <2>2, <2>3
<1> QED
  BY <1>4, <1>5, <1>6 DEF Release

LEMMA MallocStep ==
  ASSUME Inv, NEW n \in Sizes, Malloc(n)
  PROVE  /\ PoolsSound' /\ HandlesKept' /\ InUse' /\ Tracked' /\ buffers' \subseteq Hosts
         /\ total_allocated' \in Int /\ net_count' \in Int
<1>1. total_allocated \in Int /\ net_count \in Int /\ buffers \subseteq Hosts
  BY DEF Inv
<1>2. CASE "device" \in Kinds /\ MallocDevice(n)
  <2> DEFINE kind == "device"
             b == Fit(kind, n)
  <2>1. kind \in Kinds /\ Granted(kind, n, Null) /\ buffers' = buffers
        /\ kind = "device" /\ total_allocated' = total_allocated + heap'[b].size
    BY <1>2 DEF MallocDevice, Charge
  <2> HIDE DEF kind
  <2>2. /\ PoolsSound' /\ HandlesKept' /\ InUse' /\ Tracked'
        /\ net_count' \in Int /\ heap'[b].size \in Int
    BY <2>1, GrantedStep
  <2> HIDE DEF b
  <2> QED
    BY <1>1, <2>1, <2>2
<1>3. CASE "pinned" \in Kinds /\ MallocPinned(n)
  <2> DEFINE kind == "pinned"
  <2>1. PICK host \in Hosts \ buffers :
          /\ Granted(kind, n, host) /\ buffers' = buffers \cup {host}
          /\ total_allocated' = total_allocated
    BY <1>3 DEF MallocPinned
  <2>2. kind \in Kinds /\ kind # "device"
    BY <1>3
  <2> HIDE DEF kind
  <2>3. PoolsSound' /\ HandlesKept' /\ InUse' /\ Tracked' /\ net_count' \in Int
    BY <2>1, <2>2, GrantedStep
  <2> QED
    BY <1>1, <2>1, <2>3
<1>4. CASE "pinned" \in Kinds /\ MallocUntracked(n)
  <2>1. total_allocated' = total_allocated
    BY <1>4 DEF MallocUntracked
  <2> QED
    BY <1>1, <1>4, <2>1, UntrackedStep
<1>5. CASE "managed" \in Kinds /\ MallocManaged(n)
  <2> DEFINE kind == "managed"
             b == Fit(kind, n)
  <2>1. PICK host \in Hosts \ buffers :
          /\ Granted(kind, n, host) /\ buffers' = buffers \cup {host}
          /\ total_allocated' = total_allocated + heap'[b].size
    BY <1>5 DEF MallocManaged, Charge
  <2>2. kind \in Kinds /\ kind # "device"
    BY <1>5
  <2> HIDE DEF kind
  <2>3. /\ PoolsSound' /\ HandlesKept' /\ InUse' /\ Tracked'
        /\ net_count' \in Int /\ heap'[b].size \in Int
    BY <2>1, <2>2, GrantedStep
  <2> HIDE DEF b
  <2> QED
    BY <1>1, <2>1, <2>3
<1>6. CASE "managed" \in Kinds /\ ManagedGivesBack(n)
  <2>1. total_allocated' = total_allocated /\ net_count' = net_count /\ buffers' = buffers
    BY <1>6 DEF ManagedGivesBack
  <2> QED
    BY <1>1, <1>6, <2>1, BounceStep
<1> QED
  BY <1>2, <1>3, <1>4, <1>5, <1>6 DEF Malloc

-----------------------------------------------------------------------------
(***************************************************************************)
(* Initialisation and shutdown.                                            *)
(***************************************************************************)
LEMMA EmptyLists ==
  ASSUME NEW hp, NEW s, Chain(hp, Null, s)
  PROVE  s = <<>> /\ Range(s) = {}
<1>1. s \in Seq(Cells) /\ Injective(s) /\ Null = At(s, 1)
  BY DEF Chain
<1>2. Len(s) \in Nat /\ \A i \in 1 .. Len(s) : s[i] # Null
  BY <1>1, Place
<1>3. Len(s) = 0
  BY <1>1, <1>2 DEF At
<1>4. s = <<>>
  BY <1>1, <1>3, EmptySeq
<1> QED
  BY <1>4 DEF Range

\* A pool whose two lists are empty is sound, whatever memory is.
LEMMA NothingSound ==
  ASSUME NEW p \in Pools, NEW hp \in Heaps, NEW L \in SUBSET Cells, NEW m,
         m = [heap |-> hp, live |-> L, pool |-> Nothing[p]]
  PROVE  Sound(p, m, <<>>, <<>>) /\ Range(<<>>) = {}
<1>1. /\ m.heap = hp /\ m.live = L /\ m.pool.free_list = Null
      /\ m.pool.used_list = Null /\ m.pool.used_size = 0 /\ m \in MemRec
  BY DEF Nothing, MemRec, PoolRec, Ptr
<1>2. Range(<<>>) = {}
  BY DEF Range
<1>3. Chain(hp, Null, <<>>)
  BY DEF Chain, Injective, At
<1>4. Holds(m, <<>>, <<>>)
  BY <1>1, <1>2, <1>3 DEF Holds
<1>5. Laid(p, hp, {}) /\ Tame(p, hp, {}) /\ Sorted(hp, <<>>)
  BY DEF Laid, Tame, Sorted
<1>6. m.pool.used_size \in 0 .. (Width - 1)
  BY <1>1, PoolNumbers
<1> DEFINE e == <<>>
<1>7. /\ Holds(m, e, e) /\ Sorted(m.heap, e) /\ Range(e) = {}
      /\ Laid(p, m.heap, {}) /\ Tame(p, m.heap, {})
  BY <1>1, <1>2, <1>4, <1>5
<1> HIDE DEF e
<1>8. Sound(p, m, e, e)
  BY <1>1, <1>6, <1>7 DEF Sound
<1> QED
  BY <1>2, <1>8 DEF e

\* A fresh pool: one free block, of all its addresses.
LEMMA FreshSound ==
  ASSUME NEW f \in [Pools -> Cells], \A p, q \in Pools : f[p] = f[q] => p = q,
         NEW hp \in Heaps, NEW L \in SUBSET Cells, NEW p \in Pools, NEW m,
         m = [heap |-> WithBlocks(hp, f), live |-> L \cup Range(f),
              pool |-> FreshPools(f)[p]]
  PROVE  Sound(p, m, <<f[p]>>, <<>>) /\ Range(<<f[p]>>) = {f[p]} /\ Range(<<>>) = {}
<1> DEFINE c == f[p]
           s == <<c>>
<1>1. Range(s) = {c} /\ Range(<<>>) = {}
  BY DEF Range
<1>2. c \in Cells /\ c \in Range(f) /\ Range(f) \subseteq Cells
  BY DEF Range
<1>3. PoolBase[p] \in Nat /\ PoolTotal[p] \in Nat \ {0} /\ Width \in Nat \ {0}
  BY PoolNumbers
<1>4. WithBlocks(hp, f)[c] = NewBlock(PoolBase[p], PoolTotal[p])
  <2>1. (CHOOSE q \in Pools : f[q] = c) = p
    OBVIOUS
  <2> QED
    BY <1>2, <2>1 DEF WithBlocks
<1>5. WithBlocks(hp, f) \in Heaps
  <2>1. ASSUME NEW d \in Cells PROVE WithBlocks(hp, f)[d] \in CellRec
    <3>1. CASE d \in Range(f)
      <4> DEFINE q == CHOOSE x \in Pools : f[x] = d
      <4>1. q \in Pools
        BY <3>1 DEF Range
      <4>2. WithBlocks(hp, f)[d] = NewBlock(PoolBase[q], PoolTotal[q])
        BY <3>1 DEF WithBlocks
      <4> HIDE DEF q
      <4>3. PoolBase[q] \in Nat /\ PoolTotal[q] \in Nat
        BY <4>1, PoolNumbers
      <4> QED
        BY <4>2, <4>3 DEF NewBlock, CellRec, Ptr
    <3>2. CASE d \notin Range(f)
      BY <3>2 DEF WithBlocks, Heaps
    <3> QED
      BY <3>1, <3>2
  <2> QED
    BY <2>1 DEF WithBlocks, Heaps
<1>6. /\ m.heap = WithBlocks(hp, f) /\ m.live = L \cup Range(f)
      /\ m.pool.free_list = c /\ m.pool.used_list = Null /\ m.pool.used_size = 0
      /\ m.pool \in PoolRec
  BY <1>2 DEF FreshPools, PoolRec, Ptr
<1>7. m \in MemRec
  BY <1>2, <1>5, <1>6 DEF MemRec
<1>8. /\ m.heap[c].addr = PoolBase[p] /\ m.heap[c].size = PoolTotal[p]
      /\ m.heap[c].next = Null /\ m.heap[c].prev = Null
      /\ m.heap[c].allocated = FALSE /\ m.heap[c].managed = FALSE
  BY <1>4, <1>6 DEF NewBlock
<1>9. Len(s) = 1 /\ s[1] = c /\ s \in Seq(Cells)
  BY <1>2
<1> HIDE DEF s
<1>10. Chain(m.heap, c, s)
  BY <1>8, <1>9 DEF Chain, Injective, At
<1>11. Chain(m.heap, Null, <<>>)
  BY DEF Chain, Injective, At
<1>12. Holds(m, s, <<>>)
  BY <1>1, <1>2, <1>6, <1>8, <1>10, <1>11 DEF Holds
<1> HIDE DEF c
<1>13. Laid(p, m.heap, {c}) /\ Tame(p, m.heap, {c})
  BY <1>3, <1>8 DEF Laid, Tame
<1>14. Sorted(m.heap, s)
  BY <1>9 DEF Sorted
<1>15. m.pool.used_size \in 0 .. (Width - 1)
  BY <1>3, <1>6
<1> DEFINE e == <<>>
<1>16. Holds(m, s, e) /\ Range(s) = {c} /\ Range(e) = {}
  BY <1>1, <1>12
<1> HIDE DEF e
<1>17. Range(s) \cup Range(e) = {c}
  BY <1>16
<1>18. Sound(p, m, s, e)
  BY <1>7, <1>13, <1>14, <1>15, <1>16, <1>17 DEF Sound
<1> QED
  BY <1>1, <1>18 DEF c, s, e

\* The three first blocks are three.
LEMMA FirstBlocksApart ==
  ASSUME NEW T \in SUBSET Cells, Cardinality(T) >= 3, NEW f, f = FirstBlocks(T)
  PROVE  /\ f \in [Pools -> Cells] /\ Range(f) \subseteq T
         /\ \A p, q \in Pools : f[p] = f[q] => p = q
<1> DEFINE d == Lowest(T)
           q == Lowest(T \ {d})
           g == Lowest(T \ {d, q})
<1>1. IsFiniteSet(T) /\ T \subseteq Nat
  BY ManagerAssumption, FS_Subset DEF ManagerAssumption
<1>2. Cardinality(T) \in Nat
  BY <1>1, FS_CardinalityType
<1>3. T # {}
  BY <1>2, FS_EmptySet
<1>4. d \in T
  BY <1>1, <1>3, LowestIn
<1> HIDE DEF d
<1>5. IsFiniteSet(T \ {d}) /\ Cardinality(T \ {d}) = Cardinality(T) - 1
  BY <1>1, <1>4, FS_RemoveElement
<1>6. T \ {d} # {}
  BY <1>2, <1>5, FS_EmptySet
<1>7. q \in T \ {d}
  <2>1. T \ {d} \subseteq Nat
    BY <1>1
  <2> QED
    BY <1>6, <2>1, LowestIn
<1> HIDE DEF q
<1>8. (T \ {d}) \ {q} = T \ {d, q}
  OBVIOUS
<1>9. Cardinality(T \ {d, q}) = Cardinality(T) - 2
  <2> DEFINE S == T \ {d}
  <2>1. IsFiniteSet(S) /\ q \in S /\ Cardinality(S) = Cardinality(T) - 1
    BY <1>5, <1>7
  <2> HIDE DEF S
  <2>2. Cardinality(S \ {q}) = Cardinality(S) - 1
    BY <2>1, FS_RemoveElement
  <2>3. S \ {q} = T \ {d, q}
    BY <1>8 DEF S
  <2>4. Cardinality(T \ {d, q}) = Cardinality(T) - 1 - 1
    BY <2>1, <2>2, <2>3
  <2> QED
    BY <1>2, <2>4
<1>10. T \ {d, q} # {}
  BY <1>2, <1>9, FS_EmptySet
<1>11. g \in T \ {d, q}
  <2>1. T \ {d, q} \subseteq Nat
    BY <1>1
  <2> QED
    BY <1>10, <2>1, LowestIn
<1> HIDE DEF g
<1>12. f = [device |-> d, pinned |-> q, managed |-> g]
  BY DEF FirstBlocks, d, q, g
<1> QED
  BY <1>4, <1>7, <1>11, <1>12 DEF Pools, Range

LEMMA InitInv == Init => Inv
<1> SUFFICES ASSUME Init PROVE Inv
  OBVIOUS
<1> DEFINE f  == FirstBlocks(Cells)
           hp == [c \in Cells |-> Garbage]
<1>1. /\ up = TRUE /\ buffers = {} /\ handles = {} /\ total_allocated = 0 /\ net_count = 0
      /\ heap = WithBlocks(hp, f) /\ live = Range(f) /\ pool = FreshPools(f)
  BY DEF Init
<1>2. hp \in Heaps
  BY DEF Heaps, CellRec, Garbage, NewBlock, Ptr
<1>3. /\ f \in [Pools -> Cells] /\ Range(f) \subseteq Cells
      /\ \A p, q \in Pools : f[p] = f[q] => p = q
  BY FirstBlocksApart, ManagerAssumption DEF ManagerAssumption
<1> HIDE DEF f, hp
<1>4. ASSUME NEW p \in Pools
      PROVE  /\ Sound(p, Memory(p), FreeL(p), UsedL(p)) /\ pool[p] \in PoolRec
             /\ On(p) = {f[p]} /\ Range(UsedL(p)) = {}
             /\ heap \in Heaps /\ live \subseteq Cells
  <2> DEFINE m == Memory(p)
             s == <<f[p]>>
             e == <<>>
  <2>1. m = [heap |-> WithBlocks(hp, f), live |-> {} \cup Range(f), pool |-> FreshPools(f)[p]]
    BY <1>1 DEF Memory
  <2>2. m.heap = heap /\ m.live = live /\ m.pool = pool[p]
    BY DEF Memory
  <2> HIDE DEF m
  <2>3. Sound(p, m, s, e) /\ Range(s) = {f[p]} /\ Range(e) = {}
    BY <1>2, <1>3, <2>1, FreshSound
  <2> HIDE DEF s, e
  <2>4. FreeL(p) = s /\ UsedL(p) = e /\ m.heap \in Heaps /\ m.live \subseteq Cells
        /\ m.pool \in PoolRec
    BY <2>2, <2>3, SoundLists DEF FreeL, UsedL
  <2> QED
    BY <2>2, <2>3, <2>4 DEF On, m
<1>5. heap \in Heaps /\ live \subseteq Cells
  BY <1>4 DEF Pools
<1>6. pool \in [Pools -> PoolRec]
  BY <1>1, <1>4 DEF FreshPools
<1>7. PoolsSound
  BY <1>3, <1>4, <1>5, <1>6 DEF PoolsSound
<1>8. HandlesKept /\ InUse
  BY <1>1, <1>4 DEF HandlesKept, InUse
<1>9. Tracked
  BY <1>1, <1>3, <1>4 DEF Tracked, Range
<1> QED
  BY <1>1, <1>7, <1>8, <1>9 DEF Inv

LEMMA ManagerInitStep ==
  ASSUME Inv, ManagerInit
  PROVE  Inv'
<1> DEFINE f == FirstBlocks(Cells \ live)
<1>1. /\ ~ up /\ Cardinality(Cells \ live) >= 3 /\ up' = TRUE
      /\ heap' = WithBlocks(heap, f) /\ live' = live \cup Range(f) /\ pool' = FreshPools(f)
      /\ buffers' = buffers /\ handles' = handles
      /\ total_allocated' = total_allocated /\ net_count' = net_count
  BY DEF ManagerInit
<1>2. heap \in Heaps /\ live \subseteq Cells /\ handles = {} /\ pool = Nothing
  BY <1>1 DEF Inv, PoolsSound
<1>3. /\ f \in [Pools -> Cells] /\ Range(f) \subseteq Cells
      /\ \A p, q \in Pools : f[p] = f[q] => p = q
  <2>1. Cells \ live \in SUBSET Cells
    OBVIOUS
  <2> QED
    BY <1>1, <2>1, FirstBlocksApart
<1> HIDE DEF f
<1>4. ASSUME NEW p \in Pools
      PROVE  /\ Sound(p, Memory(p)', FreeL(p)', UsedL(p)') /\ pool'[p] \in PoolRec
             /\ On(p)' = {f[p]} /\ Range(UsedL(p)') = {}
             /\ heap' \in Heaps /\ live' \subseteq Cells /\ On(p) = {}
  <2> DEFINE m == Memory(p)'
             s == <<f[p]>>
             e == <<>>
  <2>1. m = [heap |-> WithBlocks(heap, f), live |-> live \cup Range(f),
             pool |-> FreshPools(f)[p]]
    BY <1>1 DEF Memory
  <2>2. m.heap = heap' /\ m.live = live' /\ m.pool = pool'[p]
    BY DEF Memory
  <2> HIDE DEF m
  <2>3. Sound(p, m, s, e) /\ Range(s) = {f[p]} /\ Range(e) = {}
    BY <1>2, <1>3, <2>1, FreshSound
  <2> HIDE DEF s, e
  <2>4. FreeL(p)' = s /\ UsedL(p)' = e /\ m.heap \in Heaps /\ m.live \subseteq Cells
        /\ m.pool \in PoolRec
    BY <2>2, <2>3, SoundLists DEF FreeL, UsedL
  <2>5. On(p) = {}
    <3>1. pool[p].free_list = Null /\ pool[p].used_list = Null
      BY <1>2 DEF Nothing
    <3>2. Chain(heap, Null, FreeL(p)) /\ Chain(heap, Null, UsedL(p))
      BY <3>1 DEF Inv, PoolsSound, Sound, Holds, Memory
    <3> QED
      BY <3>2, EmptyLists DEF On
  <2> QED
    BY <2>2, <2>3, <2>4, <2>5 DEF On, m
<1>5. heap' \in Heaps /\ live' \subseteq Cells
  BY <1>4 DEF Pools
<1>6. pool' \in [Pools -> PoolRec]
  BY <1>1, <1>4 DEF FreshPools
<1>7. PoolsSound'
  BY <1>3, <1>4, <1>5, <1>6 DEF PoolsSound
<1>8. HandlesKept' /\ InUse'
  BY <1>1, <1>2, <1>4 DEF HandlesKept, InUse
<1>9. Tracked'
  <2>1. ASSUME NEW c \in Range(f) PROVE \E p \in Pools : c \in On(p)'
    BY <1>3, <1>4 DEF Range
  <2>2. "pinned" \notin Kinds => live = {}
    BY <1>4 DEF Inv, Tracked
  <2> QED
    BY <1>1, <2>1, <2>2 DEF Tracked
<1> QED
  BY <1>1, <1>7, <1>8, <1>9 DEF Inv

LEMMA OnListsOf ==
  ASSUME PoolsSound
  PROVE  OnLists = UNION {On(p) : p \in Pools}
<1>1. ASSUME NEW p \in Pools
      PROVE  Range(FreeL(p) \o UsedL(p)) = On(p)
  <2>1. FreeL(p) \in Seq(Cells) /\ UsedL(p) \in Seq(Cells)
    BY DEF PoolsSound, Sound, Holds, Chain
  <2> QED
    BY <2>1, RangeConcatenation, RangeEquality DEF On
<1> QED
  BY <1>1 DEF OnLists, FreeL, UsedL

LEMMA ShutdownStep ==
  ASSUME Inv, Shutdown
  PROVE  Inv'
<1>1. /\ up' = FALSE /\ pool' = Nothing /\ handles' = {} /\ buffers' = buffers
      /\ total_allocated' = 0 /\ net_count' = 0 /\ live' = live \ OnLists
      /\ heap' = [c \in Cells |-> IF c \in OnLists THEN Garbage ELSE heap[c]]
  BY DEF Shutdown
<1>2. heap \in Heaps /\ live \subseteq Cells /\ buffers \subseteq Hosts
  BY DEF Inv, PoolsSound
<1>3. heap' \in Heaps /\ live' \subseteq Cells
  <2>1. Garbage \in CellRec
    BY DEF CellRec, Garbage, NewBlock, Ptr
  <2> QED
    BY <1>1, <1>2, <2>1 DEF Heaps
<1>4. ASSUME NEW p \in Pools
      PROVE  /\ Sound(p, Memory(p)', FreeL(p)', UsedL(p)') /\ pool'[p] \in PoolRec
             /\ On(p)' = {} /\ Range(UsedL(p)') = {}
  <2> DEFINE m == Memory(p)'
             e == <<>>
  <2>1. m = [heap |-> heap', live |-> live', pool |-> Nothing[p]]
    BY <1>1 DEF Memory
  <2>2. m.heap = heap' /\ m.live = live' /\ m.pool = pool'[p]
    BY DEF Memory
  <2> HIDE DEF m
  <2>3. Sound(p, m, e, e) /\ Range(e) = {}
    BY <1>3, <2>1, NothingSound
  <2> HIDE DEF e
  <2>4. FreeL(p)' = e /\ UsedL(p)' = e /\ m.pool \in PoolRec
    BY <2>2, <2>3, SoundLists DEF FreeL, UsedL
  <2> QED
    BY <2>2, <2>3, <2>4 DEF On, m
<1>5. pool' \in [Pools -> PoolRec]
  BY <1>1, <1>4 DEF Nothing
<1>6. PoolsSound'
  BY <1>3, <1>4, <1>5 DEF PoolsSound
<1>7. HandlesKept' /\ InUse'
  BY <1>1, <1>4 DEF HandlesKept, InUse
<1>8. Tracked'
  <2>1. "pinned" \notin Kinds => live \subseteq OnLists
    BY OnListsOf DEF Inv, Tracked
  <2> QED
    BY <1>1, <2>1 DEF Tracked
<1>9. /\ up' \in BOOLEAN /\ buffers' \subseteq Hosts /\ total_allocated' \in Int
      /\ net_count' \in Int /\ handles' = {} /\ pool' = Nothing
  <2>1. /\ up' = FALSE /\ pool' = Nothing /\ handles' = {} /\ buffers' = buffers
        /\ total_allocated' = 0 /\ net_count' = 0
    BY DEF Shutdown
  <2>2. buffers \subseteq Hosts
    BY <1>2
  <2>3. up' \in BOOLEAN
    BY ONLY <2>1, Zenon
  <2>4. total_allocated' \in Int /\ net_count' \in Int /\ buffers' \subseteq Hosts
    BY ONLY <2>1, <2>2
  <2> QED
    BY ONLY <2>1, <2>3, <2>4, Zenon
<1> QED
  BY <1>6, <1>7, <1>8, <1>9 DEF Inv

\* What is unchanged stays what it is.
LEMMA StutterStep ==
  ASSUME Inv, UNCHANGED vars
  PROVE  Inv'
BY DEF Inv, vars, PoolsSound, HandlesKept, Kept, InUse, Tracked, On, FreeL, UsedL, Memory

LEMMA InvNext == Inv /\ [Next]_vars => Inv'
<1> SUFFICES ASSUME Inv, [Next]_vars PROVE Inv'
  OBVIOUS
<1>1. CASE up /\ \E n \in Sizes : Malloc(n) /\ UNCHANGED up
  BY <1>1, MallocStep DEF Inv
<1>2. CASE up /\ \E h \in handles : Release(h) /\ UNCHANGED up
  BY <1>2, ReleaseStep DEF Inv
<1>3. CASE Shutdown
  BY <1>3, ShutdownStep
<1>4. CASE ManagerInit
  BY <1>4, ManagerInitStep
<1>5. CASE UNCHANGED vars
  BY <1>5, StutterStep
<1> QED
  BY <1>1, <1>2, <1>3, <1>4, <1>5 DEF Next

-----------------------------------------------------------------------------
(***************************************************************************)
(* What follows from the invariant.                                        *)
(***************************************************************************)
LEMMA InvTypeOK == Inv => TypeOK
<1> SUFFICES ASSUME Inv PROVE TypeOK
  OBVIOUS
<1>1. live \subseteq Cells /\ heap \in Heaps
  BY DEF Inv, PoolsSound
<1>2. \A c \in Cells : heap[c].next \in Cells \cup {Null} /\ heap[c].prev \in Cells \cup {Null}
  BY <1>1, CellTypes DEF Ptr
<1>3. \A p \in Pools : pool[p].used_size \in 0 .. (Width - 1)
  BY DEF Inv, PoolsSound, Sound, Memory
<1>4. \A h \in handles : h.kind \in Kinds /\ h.block \in Cells /\ h.size \in Sizes
  BY DEF Inv, HandlesKept, Kept, Handle
<1> QED
  BY <1>1, <1>2, <1>3, <1>4 DEF Inv, TypeOK

\* One list of a sound pool.
LEMMA InvGoodList ==
  ASSUME Inv, NEW p \in Pools
  PROVE  GoodList(pool[p].free_list, FALSE) /\ GoodList(pool[p].used_list, TRUE)
<1>1. /\ Chain(heap, pool[p].free_list, FreeL(p)) /\ Chain(heap, pool[p].used_list, UsedL(p))
      /\ \A c \in Range(FreeL(p)) : c \in live /\ heap[c].allocated = FALSE
      /\ \A c \in Range(UsedL(p)) : c \in live /\ heap[c].allocated = TRUE
  BY DEF Inv, PoolsSound, Sound, Holds, Memory
<1>2. ASSUME NEW hd, NEW s, NEW x, Chain(heap, hd, s), List(heap, hd) = s,
             \A c \in Range(s) : c \in live /\ heap[c].allocated = x
      PROVE  GoodList(hd, x)
  <2>1. s \in Seq(Cells) /\ Injective(s)
        /\ \A i \in 1 .. Len(s) : heap[s[i]].prev = At(s, i - 1)
    BY <1>2 DEF Chain
  <2>2. Len(s) <= Cardinality(Cells) /\ Len(s) \in Nat /\ \A i \in 1 .. Len(s) : s[i] \in Range(s)
    BY <2>1, ShortList, Place
  <2>3. \A i \in 1 .. Len(s) : At(s, i - 1) = IF i = 1 THEN Null ELSE s[i - 1]
    BY <2>2 DEF At
  <2> QED
    BY <1>2, <2>1, <2>2, <2>3 DEF GoodList
<1> QED
  BY <1>1, <1>2 DEF FreeL, UsedL

LEMMA InvListsSound == Inv => ListsSound
<1> SUFFICES ASSUME Inv PROVE ListsSound
  OBVIOUS
<1>1. \A x \in Heads : GoodList(pool[x[1]][x[2]], x[2] = "used_list")
  <2>1. ASSUME NEW x \in Heads PROVE GoodList(pool[x[1]][x[2]], x[2] = "used_list")
    <3>1. PICK p \in Pools, f \in {"free_list", "used_list"} : x = <<p, f>>
      BY DEF Heads
    <3>2. x[1] = p /\ x[2] = f
      BY <3>1
    <3>3. CASE f = "free_list"
      <4>1. (x[2] = "used_list") = FALSE /\ pool[x[1]][x[2]] = pool[p].free_list
        BY <3>2, <3>3
      <4> QED
        BY <4>1, InvGoodList
    <3>4. CASE f = "used_list"
      <4>1. (x[2] = "used_list") = TRUE /\ pool[x[1]][x[2]] = pool[p].used_list
        BY <3>2, <3>4
      <4> QED
        BY <4>1, InvGoodList
    <3> QED
      BY <3>3, <3>4
  <2> QED
    BY <2>1
<1>2. ASSUME NEW x \in Heads, NEW y \in Heads, x # y
      PROVE  Range(List(heap, pool[x[1]][x[2]])) \cap Range(List(heap, pool[y[1]][y[2]])) = {}
  <2>1. PICK p \in Pools, f \in {"free_list", "used_list"} : x = <<p, f>>
    BY DEF Heads
  <2>2. PICK q \in Pools, g \in {"free_list", "used_list"} : y = <<q, g>>
    BY DEF Heads
  <2>3. /\ Range(List(heap, pool[p][f])) \subseteq On(p)
        /\ Range(List(heap, pool[q][g])) \subseteq On(q)
    BY DEF On, FreeL, UsedL
  <2>4. CASE p # q
    BY <2>1, <2>2, <2>3, <2>4 DEF Inv, PoolsSound
  <2>5. CASE p = q
    <3>1. f # g
      BY <1>2, <2>1, <2>2, <2>5
    <3>2. Range(FreeL(p)) \cap Range(UsedL(p)) = {}
      BY DEF Inv, PoolsSound, Sound, Holds
    <3> QED
      BY <2>1, <2>2, <2>5, <3>1, <3>2 DEF FreeL, UsedL
  <2> QED
    BY <2>4, <2>5
<1> QED
  BY <1>1, <1>2, InvTypeOK DEF ListsSound

LEMMA InvNothingKept == Inv => NothingKept
BY DEF Inv, InUse, NothingKept, UsedL

LEMMA InvNoBlockLost == "pinned" \notin Kinds /\ Inv => NoBlockLost
<1> SUFFICES ASSUME "pinned" \notin Kinds, Inv PROVE NoBlockLost
  OBVIOUS
<1>1. OnLists = UNION {On(p) : p \in Pools}
  BY OnListsOf DEF Inv
<1>2. ASSUME NEW p \in Pools PROVE On(p) \subseteq live
  BY SoundLists DEF Inv, PoolsSound, On, Memory
<1>3. live \subseteq OnLists
  BY <1>1 DEF Inv, Tracked
<1> QED
  BY <1>1, <1>2, <1>3 DEF NoBlockLost

LEMMA InvPooledPointersFound == Inv => PooledPointersFound
<1> SUFFICES ASSUME Inv, NEW h \in handles
             PROVE  IF h.block \in OnLists THEN LeadsBack(h) ELSE Find(h.ptr) = Null
  BY DEF PooledPointersFound
<1>1. h.kind \in Pools /\ Kept(h)
  BY KeptPool
<1>2. Find(h.ptr) = IF h.block \in Range(UsedL(h.kind)) THEN h.block ELSE Null
  BY FindOwn
<1>3. OnLists = UNION {On(p) : p \in Pools}
  BY OnListsOf DEF Inv
<1>4. h.block \in OnLists <=> h.block \in Range(UsedL(h.kind))
  BY <1>1, <1>3 DEF Kept, On
<1>5. CASE h.block \in OnLists
  BY <1>1, <1>2, <1>4, <1>5 DEF LeadsBack, Kept
<1>6. CASE h.block \notin OnLists
  BY <1>2, <1>4, <1>6
<1> QED
  BY <1>5, <1>6

\* Inv is an invariant of the manager: three pools that share no block, with
\* lists linked in both directions and blocks apart in the addresses of their
\* pool, and pointers that each hold a block of their own.
THEOREM ManagerInvariant == Spec => []Inv
BY InitInv, InvNext, PTL DEF Spec

\* Splits, merges and unlinking keep every list linked in both directions,
\* and no block is on two lists (pool_alloc, pool_free), for any heap, any
\* sizes and any failures of calloc and posix_memalign.
THEOREM ListsStaySound == Spec => []ListsSound
BY ManagerInvariant, InvListsSound, PTL

\* A request that fails half way keeps nothing (cb_malloc_managed gives its
\* block back): a block in use always is a held pointer's.
THEOREM NothingIsKept == Spec => []NothingKept
BY ManagerInvariant, InvNothingKept, PTL

\* cb_find_block returns each pointer's own block, still of the kind, the size
\* and the host buffer it was returned for; and Null for a pointer of no pool.
THEOREM PointersLeadBack == Spec => []PooledPointersFound
BY ManagerInvariant, InvPooledPointersFound, PTL

\* A caller that allocates no pinned memory loses no block: whatever was
\* allocated with calloc is on a list (of pinned memory, cb_malloc_host makes
\* blocks that it puts on none).
THEOREM NoBlockIsLost ==
  ASSUME "pinned" \notin Kinds
  PROVE  Spec => []NoBlockLost
<1>1. Inv => NoBlockLost
  BY InvNoBlockLost
<1> QED
  BY <1>1, ManagerInvariant, PTL

-----------------------------------------------------------------------------
(***************************************************************************)
(* The statistics.                                                         *)
(***************************************************************************)
\* A pointer has as many units as its block has bytes; a sum of sizes is a
\* number of units.
Units(hp, S) == {z \in S \X Nat : z[2] \in 1 .. hp[z[1].block].size}

LEMMA UnitsOfOne ==
  ASSUME NEW hp, NEW h, hp[h.block].size \in Nat
  PROVE  /\ IsFiniteSet(Units(hp, {h}))
         /\ Cardinality(Units(hp, {h})) = hp[h.block].size
<1> DEFINE n == hp[h.block].size
           F == [i \in 1 .. n |-> <<h, i>>]
           T == Units(hp, {h})
<1>1. T = {<<h, i>> : i \in 1 .. n}
  BY DEF Units
<1>2. IsFiniteSet(1 .. n) /\ Cardinality(1 .. n) = n
  <2>1. 1 \in Int /\ n \in Int /\ n >= 0
    OBVIOUS
  <2> HIDE DEF n
  <2>2. /\ IsFiniteSet(1 .. n)
        /\ Cardinality(1 .. n) = IF 1 > n THEN 0 ELSE n - 1 + 1
    BY <2>1, FS_Interval
  <2> QED
    BY <2>1, <2>2
<1>3. F \in Bijection(1 .. n, T)
  <2> HIDE DEF T, n
  <2>1. F \in [1 .. n -> T]
    BY <1>1
  <2>2. \A i, j \in 1 .. n : F[i] = F[j] => i = j
    OBVIOUS
  <2>3. \A z \in T : \E i \in 1 .. n : F[i] = z
    BY <1>1
  <2> HIDE DEF F
  <2> QED
    BY <2>1, <2>2, <2>3 DEF Bijection, Injection, Surjection, IsInjective
<1>4. ExistsBijection(1 .. n, T)
  BY <1>3 DEF ExistsBijection
<1> HIDE DEF T, n
<1> QED
  BY <1>2, <1>4, FS_Bijection DEF T, n

LEMMA UnitsWith ==
  ASSUME NEW hp, NEW S, NEW h, h \notin S, hp[h.block].size \in Nat,
         IsFiniteSet(Units(hp, S))
  PROVE  /\ IsFiniteSet(Units(hp, S \cup {h}))
         /\ Cardinality(Units(hp, S)) \in Nat
         /\ Cardinality(Units(hp, S \cup {h}))
              = Cardinality(Units(hp, S)) + hp[h.block].size
<1> DEFINE A == Units(hp, S)
           B == Units(hp, {h})
<1>1. Units(hp, S \cup {h}) = A \cup B
  BY DEF Units
<1>2. A \cap B = {}
  BY DEF Units
<1>3. IsFiniteSet(B) /\ Cardinality(B) = hp[h.block].size
  BY UnitsOfOne
<1>4. IsFiniteSet(A)
  OBVIOUS
<1> HIDE DEF A, B
<1>5. /\ IsFiniteSet(A \cup B)
      /\ Cardinality(A \cup B) = Cardinality(A) + Cardinality(B) - Cardinality(A \cap B)
  BY <1>3, <1>4, FS_Union
<1>6. Cardinality(A) \in Nat
  BY <1>4, FS_CardinalityType
<1>7. Cardinality(A \cap B) = 0
  BY <1>2, FS_EmptySet
<1>8. Cardinality(A \cup B) = Cardinality(A) + hp[h.block].size
  BY <1>3, <1>5, <1>6, <1>7
<1> QED
  BY <1>1, <1>5, <1>6, <1>8 DEF A

LEMMA UnitsWithout ==
  ASSUME NEW hp, NEW S, NEW h \in S, hp[h.block].size \in Nat,
         IsFiniteSet(Units(hp, S))
  PROVE  /\ IsFiniteSet(Units(hp, S \ {h}))
         /\ Cardinality(Units(hp, S)) \in Nat
         /\ Cardinality(Units(hp, S \ {h}))
              = Cardinality(Units(hp, S)) - hp[h.block].size
<1> DEFINE T == S \ {h}
<1>1. h \notin T /\ S = T \cup {h}
  OBVIOUS
<1>2. Units(hp, T) \in SUBSET Units(hp, S)
  BY DEF Units
<1> HIDE DEF T
<1>3. IsFiniteSet(Units(hp, T))
  BY <1>2, FS_Subset
<1>4. /\ Cardinality(Units(hp, T)) \in Nat
      /\ Cardinality(Units(hp, S)) = Cardinality(Units(hp, T)) + hp[h.block].size
  BY <1>1, <1>3, UnitsWith
<1> QED
  BY <1>3, <1>4 DEF T

LEMMA UnitsSame ==
  ASSUME NEW hp, NEW hq, NEW S, \A h \in S : hq[h.block].size = hp[h.block].size
  PROVE  Units(hq, S) = Units(hp, S)
BY DEF Units

\* The fold over a set of pointers counts its units, in whatever order.
Folding(it, hp, S) ==
  it = [s \in SUBSET S |->
          IF s = {} THEN 0
          ELSE LET x == CHOOSE x \in s : TRUE IN it[s \ {x}] + hp[x.block].size]

LEMMA FoldingValue ==
  ASSUME NEW it, NEW hp, NEW S, Folding(it, hp, S), NEW s \in SUBSET S
  PROVE  it[s] = IF s = {} THEN 0
                 ELSE LET x == CHOOSE x \in s : TRUE IN it[s \ {x}] + hp[x.block].size
<1> DEFINE W == [r \in SUBSET S |->
                   IF r = {} THEN 0
                   ELSE LET x == CHOOSE x \in r : TRUE IN it[r \ {x}] + hp[x.block].size]
<1>1. W[s] = IF s = {} THEN 0
             ELSE LET x == CHOOSE x \in s : TRUE IN it[s \ {x}] + hp[x.block].size
  OBVIOUS
<1>2. it = W
  BY DEF Folding
<1> HIDE DEF W
<1> QED
  BY <1>1, <1>2

LEMMA FoldCounts ==
  ASSUME NEW hp, NEW S, IsFiniteSet(S), IsFiniteSet(Units(hp, S)),
         \A h \in S : hp[h.block].size \in Nat
  PROVE  FoldSet(LAMBDA h, n : n + hp[h.block].size, 0, S) = Cardinality(Units(hp, S))
<1> DEFINE N(s) == Cardinality(Units(hp, s))
           it == CHOOSE f : Folding(f, hp, S)
<1>1. FoldSet(LAMBDA h, n : n + hp[h.block].size, 0, S) = it[S]
  BY DEF FoldSet, MapThenFoldSet, Folding
<1>2. ASSUME NEW s \in SUBSET S PROVE IsFiniteSet(Units(hp, s)) /\ IsFiniteSet(s)
  <2>1. Units(hp, s) \in SUBSET Units(hp, S)
    BY DEF Units
  <2> QED
    BY <2>1, FS_Subset
<1>3. N({}) = 0
  <2>1. Units(hp, {}) = {}
    BY DEF Units
  <2> QED
    BY <2>1, FS_EmptySet
<1>4. ASSUME NEW s \in SUBSET S, NEW x \in s PROVE N(s) = N(s \ {x}) + hp[x.block].size
  <2>1. IsFiniteSet(Units(hp, s)) /\ hp[x.block].size \in Nat
    BY <1>2
  <2>2. /\ N(s) \in Nat /\ N(s \ {x}) = N(s) - hp[x.block].size
    BY <2>1, UnitsWithout
  <2> QED
    BY <2>1, <2>2
<1>5. \E f : Folding(f, hp, S)
  <2> DEFINE f == [s \in SUBSET S |-> N(s)]
  <2>1. ASSUME NEW s \in SUBSET S
        PROVE  f[s] = IF s = {} THEN 0
                      ELSE LET x == CHOOSE x \in s : TRUE IN f[s \ {x}] + hp[x.block].size
    <3>1. CASE s = {}
      BY <1>3, <3>1
    <3>2. CASE s # {}
      <4> DEFINE x == CHOOSE x \in s : TRUE
      <4>1. x \in s
        BY <3>2
      <4>2. s \ {x} \in SUBSET S
        OBVIOUS
      <4> HIDE DEF x, N
      <4>3. N(s) = N(s \ {x}) + hp[x.block].size
        BY <1>4, <4>1
      <4> QED
        BY <3>2, <4>2, <4>3 DEF x
    <3> QED
      BY <3>1, <3>2
  <2> HIDE DEF N
  <2> QED
    BY <2>1 DEF Folding
<1>6. Folding(it, hp, S)
  BY <1>5
<1> HIDE DEF it
\* The least set on which they differ.
<1>7. \A s \in SUBSET S : it[s] = N(s)
  <2> DEFINE Bad == {n \in Nat : \E s \in SUBSET S : Cardinality(s) = n /\ it[s] # N(s)}
  <2> SUFFICES ASSUME NEW s \in SUBSET S, it[s] # N(s) PROVE FALSE
    OBVIOUS
  <2>1. Cardinality(s) \in Bad
    BY <1>2, FS_CardinalityType
  <2>2. PICK n \in Bad : \A m \in Bad : n <= m
    <3>1. Bad \subseteq Nat /\ Bad # {}
      BY <2>1
    <3> HIDE DEF Bad
    <3> QED
      BY <3>1, LeastNatural
  <2>3. PICK r \in SUBSET S : Cardinality(r) = n /\ it[r] # N(r)
    OBVIOUS
  <2>4. r # {}
    BY <1>3, <1>6, <2>3, FoldingValue
  <2> DEFINE x == CHOOSE x \in r : TRUE
             q == r \ {x}
  <2>5. x \in r /\ q \in SUBSET S
    BY <2>4
  <2>6. it[r] = it[q] + hp[x.block].size
    BY <1>6, <2>4, FoldingValue
  <2>7. N(r) = N(q) + hp[x.block].size
    BY <1>4, <2>5
  <2>8. it[q] # N(q)
    BY <2>3, <2>6, <2>7
  <2>9. Cardinality(q) = n - 1 /\ Cardinality(q) \in Nat /\ n \in Nat
    <3>1. IsFiniteSet(r) /\ IsFiniteSet(q)
      BY <1>2, <2>5
    <3>2. Cardinality(q) = Cardinality(r) - 1
      BY <2>5, <3>1, FS_RemoveElement
    <3> QED
      BY <2>3, <3>1, <3>2, FS_CardinalityType
  <2>10. Cardinality(q) \in Bad
    BY <2>5, <2>8, <2>9
  <2> HIDE DEF Bad, q
  <2> QED
    BY <2>2, <2>9, <2>10
<1> QED
  BY <1>1, <1>7

Charged == {h \in handles : h.kind # "pinned"}
\* The statistics are those of the pointers held.
Counted ==
  /\ IsFiniteSet(handles) /\ IsFiniteSet(Units(heap, Charged))
  /\ total_allocated = Cardinality(Units(heap, Charged))
  /\ "pinned" \notin Kinds => net_count = Cardinality(handles)

\* A call leaves the block of a pointer its size, if it leaves it in use.
LEMMA SizeStays ==
  ASSUME Inv, NEW p \in Pools, NEW m, NEW g, NEW v, Changes(p, m, g, v),
         NEW h \in handles,
         h.block \in Range(UsedL(p)) => Same(m.heap[h.block], heap[h.block])
  PROVE  heap'[h.block].size = heap[h.block].size
<1> DEFINE c == h.block
<1>1. heap' = m.heap /\ Only(m.heap, heap, On(p) \cup (Cells \ live))
  BY DEF Changes, Lists
<1>2. Kept(h) /\ c \in Cells /\ c \in live /\ h.kind \in Pools
  BY KeptPool
<1>3. CASE c \in Range(UsedL(p))
  BY <1>1, <1>3 DEF Same
<1>4. CASE c \notin Range(UsedL(p))
  <2>1. c \notin On(p)
    <3>1. CASE h.kind # p /\ c \in Range(UsedL(h.kind))
      BY <1>2, <3>1 DEF Inv, PoolsSound, On
    <3>2. CASE \A q \in Pools : c \notin On(q)
      BY <3>2
    <3> QED
      BY <1>2, <1>4, <3>1, <3>2 DEF Kept
  <2> QED
    BY <1>1, <1>2, <2>1 DEF Only
<1> QED
  BY <1>3, <1>4

LEMMA HandleSize ==
  ASSUME Inv, NEW h \in handles
  PROVE  heap[h.block].size \in Nat
<1>1. h.block \in Cells /\ heap \in Heaps
  BY KeptPool DEF Inv, PoolsSound
<1> QED
  BY <1>1, CellTypes

LEMMA GrantedCounted ==
  ASSUME Inv, Counted, NEW kind \in Kinds, NEW n \in Sizes, NEW host,
         Granted(kind, n, host), kind # "device" => host \in Hosts,
         kind = "pinned" => total_allocated' = total_allocated,
         kind # "pinned" =>
           total_allocated' = total_allocated + heap'[Fit(kind, n)].size
  PROVE  Counted'
<1> DEFINE b == Fit(kind, n)
<1>1. PICK t, g, v, k : Grants(kind, n, b, host, t, g, v, k)
  BY GrantedGrants
<1>2. /\ b \in Range(FreeL(kind)) /\ Changes(kind, t, g, v)
      /\ \A c \in Range(UsedL(kind)) : Same(t.heap[c], heap[c])
      /\ handles' = handles \cup {k} /\ k.kind = kind /\ k.block = b
      /\ Range(v) = Range(UsedL(kind)) \cup {b}
  BY <1>1 DEF Grants
<1>3. net_count' = net_count + 1
  BY DEF Granted
<1>4. kind \in Pools /\ Sound(kind, t, g, v) /\ heap' = t.heap
      /\ Sound(kind, Memory(kind), FreeL(kind), UsedL(kind))
  BY <1>2, ManagerAssumption DEF ManagerAssumption, Changes, Lists, Inv, PoolsSound
<1> DEFINE size == heap'[b].size
           C == Charged
<1>5. size \in Nat
  <2>1. b \in Cells /\ t.heap \in Heaps
    BY <1>2, <1>4, SoundLists
  <2> QED
    BY <1>4, <2>1, CellTypes
<1>6. total_allocated' = IF kind = "pinned" THEN total_allocated ELSE total_allocated + size
  OBVIOUS
<1> HIDE DEF b, size
<1>7. k \notin handles
  <2>1. b \notin Range(UsedL(kind)) /\ b \in On(kind)
    BY <1>2, <1>4, SoundLists DEF On
  <2>2. k \in handles => Kept(k)
    BY DEF Inv, HandlesKept
  <2> QED
    BY <1>2, <1>4, <2>1, <2>2 DEF Kept
<1>8. /\ IsFiniteSet(handles) /\ IsFiniteSet(Units(heap, C))
      /\ total_allocated = Cardinality(Units(heap, C))
      /\ "pinned" \notin Kinds => net_count = Cardinality(handles)
  BY DEF Counted
<1>9. \A h \in C : heap'[h.block].size = heap[h.block].size
  BY <1>2, <1>4, SizeStays DEF Charged
<1>10. k \notin C /\ heap'[k.block].size = size
  BY <1>2, <1>7 DEF Charged, size
<1>11. Charged' = IF kind = "pinned" THEN C ELSE C \cup {k}
  BY <1>2 DEF Charged
<1> HIDE DEF C
<1>12. Units(heap', C) = Units(heap, C)
  BY <1>9, UnitsSame
<1>13. /\ IsFiniteSet(Units(heap', C \cup {k}))
       /\ Cardinality(Units(heap', C \cup {k})) = Cardinality(Units(heap', C)) + size
  <2>1. heap'[k.block].size \in Nat /\ IsFiniteSet(Units(heap', C))
    BY <1>5, <1>8, <1>10, <1>12
  <2> QED
    BY <1>10, <2>1, UnitsWith
<1>14. IsFiniteSet(Units(heap', Charged')) /\ total_allocated' = Cardinality(Units(heap', Charged'))
  BY <1>6, <1>8, <1>11, <1>12, <1>13
<1>15. IsFiniteSet(handles') /\ Cardinality(handles') = Cardinality(handles) + 1
  BY <1>2, <1>7, <1>8, FS_AddElement
<1>16. "pinned" \notin Kinds => net_count' = Cardinality(handles')
  BY <1>3, <1>8, <1>15
<1> QED
  BY <1>14, <1>15, <1>16 DEF Counted

LEMMA ReleasedCounted ==
  ASSUME Inv, Counted, NEW p \in Pools, NEW b \in Range(UsedL(p)), NEW t,
         t = PoolFree(Memory(p), b), Lists(p, t), NEW h \in handles,
         h.block = b, handles' = handles \ {h}, net_count' = net_count - 1,
         h.kind = "pinned" => total_allocated' = total_allocated,
         h.kind # "pinned" => total_allocated' = total_allocated - heap[b].size
  PROVE  Counted'
<1> DEFINE C == Charged
           D == C \ {h}
<1>1. Sound(p, Memory(p), FreeL(p), UsedL(p))
  BY DEF Inv, PoolsSound
<1>2. PICK g, v : Freed(p, Memory(p), t, FreeL(p), UsedL(p), b, g, v)
  BY <1>1, PoolFreeSound
<1>3. /\ Changes(p, t, g, v)
      /\ \A c \in Range(UsedL(p)) \ {b} : Same(t.heap[c], heap[c])
  BY <1>2, FreedChanges
<1>4. /\ IsFiniteSet(handles) /\ IsFiniteSet(Units(heap, C))
      /\ total_allocated = Cardinality(Units(heap, C))
      /\ "pinned" \notin Kinds => net_count = Cardinality(handles)
  BY DEF Counted
<1>5. ASSUME NEW k \in handles, k # h PROVE heap'[k.block].size = heap[k.block].size
  <2>1. k.block # b
    BY <1>5 DEF Inv, HandlesKept, Distinct
  <2> QED
    BY <1>3, <2>1, SizeStays
<1>6. heap[h.block].size \in Nat
  BY HandleSize
<1>7. Charged' = D /\ (h.kind = "pinned" => D = C) /\ (h.kind # "pinned" => h \in C)
  BY DEF Charged
<1>8. \A k \in D : heap'[k.block].size = heap[k.block].size
  BY <1>5 DEF Charged
<1>9. h \in C =>
        /\ IsFiniteSet(Units(heap, D)) /\ Cardinality(Units(heap, C)) \in Nat
        /\ Cardinality(Units(heap, D)) = Cardinality(Units(heap, C)) - heap[h.block].size
  <2> HIDE DEF C
  <2> QED
    BY <1>4, <1>6, UnitsWithout
<1> HIDE DEF C, D
<1>10. Units(heap', D) = Units(heap, D)
  BY <1>8, UnitsSame
<1>11. IsFiniteSet(Units(heap', Charged')) /\ total_allocated' = Cardinality(Units(heap', Charged'))
  BY <1>4, <1>7, <1>9, <1>10
<1>12. /\ IsFiniteSet(handles') /\ Cardinality(handles') = Cardinality(handles) - 1
       /\ Cardinality(handles) \in Nat
  BY <1>4, FS_RemoveElement, FS_CardinalityType
<1>13. "pinned" \notin Kinds => net_count' = Cardinality(handles')
  BY <1>4, <1>12
<1> QED
  BY <1>11, <1>12, <1>13 DEF Counted

\* A step that changes no pointer that is charged for, and no size of its block.
LEMMA SameCounted ==
  ASSUME Counted, IsFiniteSet(handles'), Charged' = Charged,
         \A h \in Charged : heap'[h.block].size = heap[h.block].size,
         total_allocated' = total_allocated,
         "pinned" \notin Kinds => net_count' = Cardinality(handles')
  PROVE  Counted'
<1> DEFINE C == Charged
<1>1. IsFiniteSet(Units(heap, C)) /\ total_allocated = Cardinality(Units(heap, C))
  BY DEF Counted
<1>2. \A h \in C : heap'[h.block].size = heap[h.block].size
  OBVIOUS
<1>3. Charged' = C
  OBVIOUS
<1> HIDE DEF C
<1>4. Units(heap', C) = Units(heap, C)
  BY <1>2, UnitsSame
<1> QED
  BY <1>1, <1>3, <1>4 DEF Counted

LEMMA MallocCounted ==
  ASSUME Inv, Counted, NEW n \in Sizes, Malloc(n)
  PROVE  Counted'
<1>1. CASE "device" \in Kinds /\ MallocDevice(n)
  <2> DEFINE kind == "device"
  <2>1. /\ kind \in Kinds /\ Granted(kind, n, Null) /\ kind = "device"
        /\ total_allocated' = total_allocated + heap'[Fit(kind, n)].size
    BY <1>1 DEF MallocDevice, Charge
  <2> HIDE DEF kind
  <2> QED
    BY <2>1, GrantedCounted
<1>2. CASE "pinned" \in Kinds /\ MallocPinned(n)
  <2> DEFINE kind == "pinned"
  <2>1. PICK host \in Hosts : Granted(kind, n, host) /\ total_allocated' = total_allocated
    BY <1>2 DEF MallocPinned
  <2>2. kind \in Kinds /\ kind = "pinned"
    BY <1>2
  <2> HIDE DEF kind
  <2> QED
    BY <2>1, <2>2, GrantedCounted
<1>3. CASE "pinned" \in Kinds /\ MallocUntracked(n)
  <2>1. PICK host \in Hosts \ buffers, b \in Cells \ live :
          /\ heap' = [heap EXCEPT ![b] =
                        [NewBlock(host, n) EXCEPT !.host = host, !.flags = "pinned",
                                                  !.allocated = TRUE]]
          /\ handles' = handles \cup
               {[kind |-> "pinned", block |-> b, size |-> n, ptr |-> host]}
          /\ total_allocated' = total_allocated
    BY <1>3 DEF MallocUntracked
  <2> DEFINE r == [NewBlock(host, n) EXCEPT !.host = host, !.flags = "pinned",
                                            !.allocated = TRUE]
             k == [kind |-> "pinned", block |-> b, size |-> n, ptr |-> host]
  <2>2. k.kind = "pinned"
    OBVIOUS
  <2> HIDE DEF r, k
  <2>3. heap' = [heap EXCEPT ![b] = r] /\ handles' = handles \cup {k}
    BY <2>1 DEF r, k
  <2>4. ASSUME NEW h \in handles PROVE heap'[h.block] = heap[h.block]
    <3>1. h.block \in Cells /\ h.block # b
      BY KeptPool
    <3> QED
      BY <2>3, <3>1 DEF Inv, PoolsSound, Heaps
  <2>5. IsFiniteSet(handles')
    BY <2>3, FS_AddElement DEF Counted
  <2>6. Charged' = Charged
    BY <2>2, <2>3 DEF Charged
  <2>7. \A h \in Charged : heap'[h.block].size = heap[h.block].size
    BY <2>4 DEF Charged
  <2> QED
    BY <1>3, <2>1, <2>5, <2>6, <2>7, SameCounted
<1>4. CASE "managed" \in Kinds /\ MallocManaged(n)
  <2> DEFINE kind == "managed"
  <2>1. PICK host \in Hosts :
          /\ Granted(kind, n, host)
          /\ total_allocated' = total_allocated + heap'[Fit(kind, n)].size
    BY <1>4 DEF MallocManaged, Charge
  <2>2. kind \in Kinds /\ kind # "pinned"
    BY <1>4
  <2> HIDE DEF kind
  <2> QED
    BY <2>1, <2>2, GrantedCounted
<1>5. CASE "managed" \in Kinds /\ ManagedGivesBack(n)
  <2> DEFINE p == "managed"
  <2>1. /\ handles' = handles /\ total_allocated' = total_allocated
        /\ net_count' = net_count
    BY <1>5 DEF ManagedGivesBack
  <2>2. PICK b, s, g, v, t, h, w : Bounces(n, b, s, g, v, t, h, w)
    BY <1>5, BounceBounces
  <2>3. p \in Pools /\ Changes(p, t, h, w)
        /\ \A c \in Range(UsedL(p)) : Same(t.heap[c], heap[c])
    BY <2>2 DEF Bounces, Pools
  <2> HIDE DEF p
  <2>4. \A k \in Charged : heap'[k.block].size = heap[k.block].size
    BY <2>3, SizeStays DEF Charged
  <2>5. Charged' = Charged
    BY <2>1 DEF Charged
  <2>6. IsFiniteSet(handles') /\ ("pinned" \notin Kinds => net_count' = Cardinality(handles'))
    BY <2>1 DEF Counted
  <2> QED
    BY <2>1, <2>4, <2>5, <2>6, SameCounted
<1> QED
  BY <1>1, <1>2, <1>3, <1>4, <1>5 DEF Malloc

LEMMA ReleaseCounted ==
  ASSUME Inv, Counted, NEW h \in handles, Release(h)
  PROVE  Counted'
<1> DEFINE b == Find(h.ptr)
<1>1. h.kind \in Pools /\ h.kind \in Kinds /\ h.block \in Cells /\ h.block # Null
  BY KeptPool, ManagerAssumption
     DEF ManagerAssumption, Inv, HandlesKept, Kept, Handle
<1>2. b = IF h.block \in Range(UsedL(h.kind)) THEN h.block ELSE Null
  BY FindOwn
<1> HIDE DEF b
<1>3. handles' = handles \ {h}
  BY DEF Release, FreeDevice, FreeManaged, FreePinned
<1>4. CASE b # Null
  <2> DEFINE p == h.kind
             t == PoolFree(Memory(p), b)
  <2>1. b \in Range(UsedL(p)) /\ h.block = b
    BY <1>2, <1>4
  <2>2. /\ Lists(p, t) /\ net_count' = net_count - 1
        /\ h.kind = "pinned" => total_allocated' = total_allocated
        /\ h.kind # "pinned" => total_allocated' = total_allocated - heap[b].size
    BY <1>4 DEF Release, FreeDevice, FreeManaged, FreePinned, b
  <2>3. p \in Pools /\ t = PoolFree(Memory(p), b)
    BY <1>1
  <2> HIDE DEF p, t
  <2> QED
    BY <1>3, <2>1, <2>2, <2>3, ReleasedCounted
<1>5. CASE b = Null
  <2>1. h.kind = "pinned" /\ heap' = heap /\ total_allocated' = total_allocated
    BY <1>5 DEF Release, FreeDevice, FreeManaged, FreePinned, b
  <2>2. Charged' = Charged
    BY <1>3, <2>1 DEF Charged
  <2>3. IsFiniteSet(handles')
    BY <1>3, FS_RemoveElement DEF Counted
  <2> QED
    BY <1>1, <2>1, <2>2, <2>3, SameCounted
<1> QED
  BY <1>4, <1>5

\* No pointer is held: everything is zero.
LEMMA NoneCounted ==
  ASSUME handles = {}, total_allocated = 0, net_count = 0
  PROVE  Counted
<1>1. Charged = {} /\ Units(heap, {}) = {}
  BY DEF Charged, Units
<1> QED
  BY <1>1, FS_EmptySet DEF Counted

LEMMA NoneCountedNext ==
  ASSUME handles' = {}, total_allocated' = 0, net_count' = 0
  PROVE  Counted'
<1>1. Charged' = {} /\ Units(heap', {}) = {}
  BY DEF Charged, Units
<1> QED
  BY <1>1, FS_EmptySet DEF Counted

LEMMA NextCounted ==
  ASSUME Inv, Counted, [Next]_vars
  PROVE  Counted'
<1>1. CASE up /\ \E n \in Sizes : Malloc(n) /\ UNCHANGED up
  BY <1>1, MallocCounted
<1>2. CASE up /\ \E h \in handles : Release(h) /\ UNCHANGED up
  BY <1>2, ReleaseCounted
<1>3. CASE Shutdown
  BY <1>3, NoneCountedNext DEF Shutdown
<1>4. CASE ManagerInit
  <2>1. handles = {} /\ handles' = handles
        /\ total_allocated' = total_allocated /\ net_count' = net_count
    BY <1>4 DEF ManagerInit, Inv
  <2>2. Charged' = Charged /\ Charged = {}
    BY <2>1 DEF Charged
  <2>3. IsFiniteSet(handles') /\ ("pinned" \notin Kinds => net_count' = Cardinality(handles'))
    BY <2>1 DEF Counted
  <2> QED
    BY <2>1, <2>2, <2>3, SameCounted
<1>5. CASE UNCHANGED vars
  BY <1>5 DEF vars, Counted, Charged
<1> QED
  BY <1>1, <1>2, <1>3, <1>4, <1>5 DEF Next

LEMMA CountedExact ==
  ASSUME Inv, Counted, "pinned" \notin Kinds
  PROVE  CountsExact
<1> DEFINE C == {h \in handles : h.kind # "pinned"}
<1>1. /\ IsFiniteSet(handles) /\ IsFiniteSet(Units(heap, C))
      /\ total_allocated = Cardinality(Units(heap, C)) /\ net_count = Cardinality(handles)
  BY DEF Counted, Charged
<1>2. IsFiniteSet(C)
  BY <1>1, FS_Subset
<1>3. \A h \in C : heap[h.block].size \in Nat
  BY HandleSize
<1> HIDE DEF C
<1>4. FoldSet(LAMBDA h, n : n + heap[h.block].size, 0, C) = Cardinality(Units(heap, C))
  BY <1>1, <1>2, <1>3, FoldCounts
<1> QED
  BY <1>1, <1>4 DEF CountsExact, C

\* total_allocated is the sum of the blocks behind the pointers held, and
\* alloc_count is ahead of free_count by their number, whatever was split,
\* merged and refused; unless a pinned block was put on no list, for
\* cb_free_host does not count that.
THEOREM CountsStayExact ==
  ASSUME "pinned" \notin Kinds
  PROVE  Spec => []CountsExact
<1>1. Init => Inv /\ Counted
  BY InitInv, NoneCounted DEF Init
<1>2. Inv /\ Counted /\ [Next]_vars => Inv' /\ Counted'
  BY InvNext, NextCounted
<1>3. Inv /\ Counted => CountsExact
  BY CountedExact
<1> QED
  BY <1>1, <1>2, <1>3, PTL DEF Spec

-----------------------------------------------------------------------------
(***************************************************************************)
(* The pools as PagePool sees them: sets of blocks, which are values.      *)
(***************************************************************************)
Pool(p) == INSTANCE PagePool WITH
  Base <- PoolBase[p], Total <- PoolTotal[p], Page <- PoolPage[p],
  free <- FreeBlocks(p), used <- UsedBlocks(p), used_size <- pool[p].used_size

BlockOf(hp, c) == [addr |-> hp[c].addr, size |-> hp[c].size]
Image(hp, S)   == {BlockOf(hp, c) : c \in S}
\* No two free blocks touch.
Parted(hp, f) == \A c, d \in Range(f) : hp[c].addr + hp[c].size # hp[d].addr

\* Cells of a pool have blocks of their own.
LEMMA ImageWithout ==
  ASSUME NEW p \in Pools, NEW hp \in Heaps, NEW S, S \subseteq Cells, Laid(p, hp, S),
         NEW T, T \subseteq S, NEW D, D \subseteq S
  PROVE  Image(hp, T \ D) = Image(hp, T) \ Image(hp, D)
<1>1. ASSUME NEW c \in S, NEW d \in S, BlockOf(hp, c) = BlockOf(hp, d)
      PROVE  c = d
  <2>1. hp[c].addr \in Nat /\ hp[c].size \in Nat /\ hp[d].addr \in Nat /\ hp[d].size \in Nat
    BY CellTypes
  <2>2. hp[c].size > 0 /\ hp[d].size > 0 /\ (c # d => Apart(hp, c, d))
    BY DEF Laid
  <2>3. hp[c].addr = hp[d].addr /\ hp[c].size = hp[d].size
    BY <1>1 DEF BlockOf
  <2> QED
    BY <2>1, <2>2, <2>3 DEF Apart
<1> QED
  BY <1>1 DEF Image

LEMMA ImageSame ==
  ASSUME NEW hp, NEW hq, NEW S, \A c \in S : Same(hq[c], hp[c])
  PROVE  Image(hq, S) = Image(hp, S)
BY DEF Image, BlockOf, Same

\* Blocks of a pool lie apart.
LEMMA ImageApart ==
  ASSUME NEW p \in Pools, NEW hp \in Heaps, NEW S \in SUBSET Cells, Laid(p, hp, S)
  PROVE  /\ \A x \in Image(hp, S) : x.addr \in Nat /\ x.size \in Nat /\ x.size > 0
                                    /\ x = [addr |-> x.addr, size |-> x.size]
         /\ \A x, y \in Image(hp, S) :
              x = y \/ x.addr + x.size <= y.addr \/ y.addr + y.size <= x.addr
<1>1. ASSUME NEW c \in S, NEW x, x = BlockOf(hp, c)
      PROVE  /\ x.addr \in Nat /\ x.size \in Nat /\ x.size > 0
             /\ x = [addr |-> x.addr, size |-> x.size]
             /\ x.addr = hp[c].addr /\ x.size = hp[c].size
  <2>1. hp[c].addr \in Nat /\ hp[c].size \in Nat /\ hp[c].size > 0
    BY CellTypes DEF Laid
  <2> QED
    BY <1>1, <2>1 DEF BlockOf
<1>2. ASSUME NEW c \in S, NEW d \in S, c # d PROVE Apart(hp, c, d)
  BY <1>2 DEF Laid
<1> QED
  BY <1>1, <1>2 DEF Image, Apart

\* Of the free blocks F and the blocks U in use, B is taken, whole or need
\* bytes of it.
BlockTaken(p, F, U, B, need, F2, U2) ==
  \/ /\ B.size > need + PoolPage[p]
     /\ F2 = (F \ {B}) \cup {[addr |-> B.addr + need, size |-> B.size - need]}
     /\ U2 = U \cup {[addr |-> B.addr, size |-> need]}
  \/ F2 = F \ {B} /\ U2 = U \cup {B}

LEMMA AllocatedBlocks ==
  ASSUME NEW p \in Pools, NEW m, NEW f, NEW u, Sound(p, m, f, u), NEW n \in Sizes,
         NEW b \in Range(f), NEW need \in Nat, need = AlignUp(p, n), need > 0,
         m.heap[b].size >= need,
         NEW s, NEW g, NEW v, Allocated(p, m, s, f, u, b, g, v, n)
  PROVE  /\ BlockTaken(p, Image(m.heap, Range(f)), Image(m.heap, Range(u)),
                       BlockOf(m.heap, b), need,
                       Image(s.heap, Range(g)), Image(s.heap, Range(v)))
         /\ s.heap[b].addr = m.heap[b].addr
         /\ Parted(m.heap, f) => Parted(s.heap, g)
<1> DEFINE hp == m.heap
           hq == s.heap
           B  == BlockOf(hp, b)
<1>1. /\ Range(f) \subseteq Cells /\ Range(u) \subseteq Cells /\ hp \in Heaps
      /\ Range(f) \cap Range(u) = {} /\ Range(f) \subseteq m.live /\ Range(u) \subseteq m.live
  BY SoundLists
<1>2. Laid(p, hp, Range(f) \cup Range(u))
  BY DEF Sound
<1>3. Range(v) = Range(u) \cup {b} /\ b \notin Range(u) /\ b \in Cells
  BY <1>1 DEF Allocated
<1>4. hp[b].addr \in Nat /\ hp[b].size \in Nat /\ PoolPage[p] \in Nat
      /\ B.addr = hp[b].addr /\ B.size = hp[b].size
  BY <1>1, <1>3, CellTypes, PoolNumbers DEF BlockOf
<1>5. Image(hp, Range(f) \ {b}) = Image(hp, Range(f)) \ {B}
  <2>1. Image(hp, {b}) = {B}
    BY DEF Image
  <2>2. Range(f) \cup Range(u) \in SUBSET Cells /\ {b} \in SUBSET (Range(f) \cup Range(u))
        /\ Range(f) \in SUBSET (Range(f) \cup Range(u))
    BY <1>1
  <2> HIDE DEF hp, B
  <2> QED
    BY <1>1, <1>2, <2>1, <2>2, ImageWithout
<1>6. ASSUME NEW r \in Cells \ m.live, Split(m, s, f, b, g, r, need),
             hp[b].size > need + PoolPage[p]
      PROVE  /\ BlockTaken(p, Image(hp, Range(f)), Image(hp, Range(u)), B, need,
                           Image(hq, Range(g)), Image(hq, Range(v)))
             /\ hq[b].addr = hp[b].addr
             /\ Parted(hp, f) => Parted(hq, g)
  <2>1. /\ Range(g) = (Range(f) \ {b}) \cup {r}
        /\ hq[b].size = need /\ hq[b].addr = hp[b].addr
        /\ hq[r].addr = hp[b].addr + need /\ hq[r].size = hp[b].size - need
        /\ \A c \in Cells \ {b, r} : Same(hq[c], hp[c])
    BY <1>6 DEF Split
  <2>2. r \notin Range(f) /\ r \notin Range(u) /\ r # b
    BY <1>1
  <2>3. Image(hq, Range(f) \ {b}) = Image(hp, Range(f) \ {b})
        /\ Image(hq, Range(u)) = Image(hp, Range(u))
    <3>1. \A c \in (Range(f) \ {b}) \cup Range(u) : Same(hq[c], hp[c])
      BY <1>1, <1>3, <2>1, <2>2
    <3> HIDE DEF hp, hq
    <3> QED
      BY <3>1, ImageSame
  <2>4. Image(hq, Range(g)) = (Image(hp, Range(f)) \ {B})
                                \cup {[addr |-> B.addr + need, size |-> B.size - need]}
    <3>1. Image(hq, Range(g)) = Image(hq, Range(f) \ {b}) \cup {BlockOf(hq, r)}
      BY <2>1 DEF Image
    <3>2. BlockOf(hq, r) = [addr |-> B.addr + need, size |-> B.size - need]
      BY <1>4, <2>1 DEF BlockOf
    <3> QED
      BY <1>5, <2>3, <3>1, <3>2
  <2>5. Image(hq, Range(v)) = Image(hp, Range(u)) \cup {[addr |-> B.addr, size |-> need]}
    <3>1. Image(hq, Range(v)) = Image(hq, Range(u)) \cup {BlockOf(hq, b)}
      BY <1>3 DEF Image
    <3>2. BlockOf(hq, b) = [addr |-> B.addr, size |-> need]
      BY <1>4, <2>1 DEF BlockOf
    <3> QED
      BY <2>3, <3>1, <3>2
  <2>6. BlockTaken(p, Image(hp, Range(f)), Image(hp, Range(u)), B, need,
                   Image(hq, Range(g)), Image(hq, Range(v)))
    <3> HIDE DEF B
    <3> QED
      BY <1>4, <1>6, <2>4, <2>5 DEF BlockTaken
  <2>7. ASSUME Parted(hp, f), NEW c \in Range(g), NEW d \in Range(g)
        PROVE  hq[c].addr + hq[c].size # hq[d].addr
    <3>1. \A e \in Range(f) \ {b} : /\ hq[e].addr = hp[e].addr /\ hq[e].size = hp[e].size
                                    /\ hp[e].addr \in Nat /\ hp[e].size \in Nat
                                    /\ hp[e].size > 0
                                    /\ \/ hp[e].addr + hp[e].size <= hp[b].addr
                                       \/ hp[b].addr + hp[b].size <= hp[e].addr
      <4>1. ASSUME NEW e \in Range(f) \ {b}
            PROVE  /\ e \in Cells /\ Same(hq[e], hp[e]) /\ hp[e].size > 0 /\ Apart(hp, e, b)
        BY <1>1, <1>2, <2>1, <2>2 DEF Laid
      <4> QED
        BY <1>1, <4>1, CellTypes DEF Same, Apart
    <3>2. CASE c # r /\ d # r
      BY <2>1, <2>7, <3>1, <3>2 DEF Parted
    <3>3. CASE c = r /\ d # r
      <4>1. d \in Range(f) \ {b} /\ hp[b].addr + hp[b].size # hp[d].addr
        BY <2>1, <2>7, <3>3 DEF Parted
      <4>2. hq[r].addr + hq[r].size = hp[b].addr + hp[b].size
        BY <1>4, <2>1
      <4> QED
        BY <3>1, <3>3, <4>1, <4>2
    <3>4. CASE c # r /\ d = r
      <4>1. c \in Range(f) \ {b}
        BY <2>1, <3>4
      <4> HIDE DEF hp, hq
      <4> QED
        BY <1>4, <1>6, <2>1, <3>1, <3>4, <4>1
    <3>5. CASE c = r /\ d = r
      <4> HIDE DEF hp, hq
      <4> QED
        BY <1>4, <1>6, <2>1, <3>5
    <3> QED
      BY <3>2, <3>3, <3>4, <3>5
  <2> QED
    BY <2>1, <2>6, <2>7 DEF Parted
<1>7. ASSUME Whole(m, s, f, b, g)
      PROVE  /\ BlockTaken(p, Image(hp, Range(f)), Image(hp, Range(u)), B, need,
                           Image(hq, Range(g)), Image(hq, Range(v)))
             /\ hq[b].addr = hp[b].addr
             /\ Parted(hp, f) => Parted(hq, g)
  <2>1. Range(g) = Range(f) \ {b} /\ \A c \in Cells : Same(hq[c], hp[c])
    BY <1>7 DEF Whole
  <2>2. Image(hq, Range(g)) = Image(hp, Range(f)) \ {B}
        /\ Image(hq, Range(v)) = Image(hp, Range(u)) \cup {B}
    <3>1. Image(hq, Range(g)) = Image(hp, Range(g)) /\ Image(hq, Range(v)) = Image(hp, Range(v))
      <4>1. \A c \in Range(g) \cup Range(v) : Same(hq[c], hp[c])
        BY <1>1, <1>3, <2>1
      <4> HIDE DEF hp, hq
      <4> QED
        BY <4>1, ImageSame
    <3>2. Image(hp, Range(v)) = Image(hp, Range(u)) \cup {B}
      BY <1>3 DEF Image
    <3> QED
      BY <1>5, <2>1, <3>1, <3>2
  <2>3. BlockTaken(p, Image(hp, Range(f)), Image(hp, Range(u)), B, need,
                   Image(hq, Range(g)), Image(hq, Range(v)))
    <3> HIDE DEF B
    <3> QED
      BY <2>2 DEF BlockTaken
  <2>4. Parted(hp, f) => Parted(hq, g)
    BY <1>1, <2>1 DEF Parted, Same
  <2> QED
    BY <1>3, <2>1, <2>3, <2>4 DEF Same
<1>8. \/ /\ hp[b].size > need + PoolPage[p]
         /\ \E r \in Cells \ m.live : Split(m, s, f, b, g, r, need)
      \/ Whole(m, s, f, b, g)
  BY DEF Allocated
<1> QED
  BY <1>6, <1>7, <1>8

\* Of the free blocks F and the blocks U in use, B is given back: it becomes a
\* free block with the free blocks it touches.
BlockGiven(F, U, B, F2, U2) ==
  LET before == {x \in F : x.addr + x.size = B.addr}
      after  == {x \in F : x.addr = B.addr + B.size}
  IN  /\ U2 = U \ {B}
      /\ \E lo, hi \in Nat :
           /\ F2 = (F \ (before \cup after)) \cup {[addr |-> lo, size |-> hi - lo]}
           /\ \/ before = {} /\ lo = B.addr
              \/ \E x : before = {x} /\ lo = x.addr
           /\ \/ after = {} /\ hi = B.addr + B.size
              \/ \E x : after = {x} /\ hi = x.addr + x.size

LEMMA FreedBlocks ==
  ASSUME NEW p \in Pools, NEW m, NEW f, NEW u, Sound(p, m, f, u), NEW b \in Range(u),
         NEW t, NEW g, NEW v, Freed(p, m, t, f, u, b, g, v)
  PROVE  /\ BlockGiven(Image(m.heap, Range(f)), Image(m.heap, Range(u)),
                       BlockOf(m.heap, b),
                       Image(t.heap, Range(g)), Image(t.heap, Range(v)))
         /\ Parted(m.heap, f) => Parted(t.heap, g)
<1> DEFINE hp == m.heap
           hq == t.heap
           B  == BlockOf(hp, b)
           F  == Image(hp, Range(f))
           E  == Ending(m, f, b)
           G  == Beginning(m, f, b)
           before == {x \in F : x.addr + x.size = B.addr}
           after  == {x \in F : x.addr = B.addr + B.size}
<1>1. /\ Range(f) \subseteq Cells /\ Range(u) \subseteq Cells /\ hp \in Heaps
      /\ Range(f) \cap Range(u) = {} /\ b \in Cells
  BY SoundLists
<1>2. Laid(p, hp, Range(f) \cup Range(u))
  BY DEF Sound
<1>3. /\ Sound(p, t, g, v) /\ Range(v) = Range(u) \ {b}
      /\ Only(hq, hp, Range(f) \cup Range(u))
  BY DEF Freed
<1>4. hq \in Heaps /\ Range(g) \subseteq Cells
  BY <1>3, SoundLists
<1>5. PICK a \in Cells, D \in SUBSET Cells : Joined(m, t, f, b, g, a, D)
  BY DEF Freed
<1>6. /\ Range(g) = (Range(f) \cup {b}) \ D /\ a \in Range(g)
      /\ D \cup {a} = {b} \cup E \cup G /\ a \notin D
      /\ \A c \in Cells \ (D \cup {a}) : Same(hq[c], hp[c])
  BY <1>5 DEF Joined
<1>7. /\ \/ E = {} /\ hq[a].addr = hp[b].addr
         \/ \E x : E = {x} /\ hq[a].addr = hp[x].addr
      /\ \/ G = {} /\ hq[a].addr + hq[a].size = hp[b].addr + hp[b].size
         \/ \E x : G = {x} /\ hq[a].addr + hq[a].size = hp[x].addr + hp[x].size
  BY <1>5 DEF Joined
<1>8. E \subseteq Range(f) /\ G \subseteq Range(f) /\ b \notin Range(f)
  BY <1>1 DEF Ending, Beginning
<1>9. Range(g) = (Range(f) \ (E \cup G)) \cup {a} /\ a \notin Range(f) \ (E \cup G)
  BY <1>6, <1>8
<1>10. /\ B.addr = hp[b].addr /\ B.size = hp[b].size
       /\ \A c : BlockOf(hp, c).addr = hp[c].addr /\ BlockOf(hp, c).size = hp[c].size
  BY DEF BlockOf
<1>11. Image(hp, E) = before /\ Image(hp, G) = after
  <2> HIDE DEF B
  <2> QED
    BY <1>10 DEF Image, Ending, Beginning
<1>12. Image(hp, Range(f) \ (E \cup G)) = F \ (before \cup after)
  <2>1. /\ Range(f) \cup Range(u) \subseteq Cells /\ E \cup G \subseteq Range(f) \cup Range(u)
        /\ Range(f) \subseteq Range(f) \cup Range(u)
    BY <1>1, <1>8
  <2>2. Image(hp, E \cup G) = Image(hp, E) \cup Image(hp, G)
    BY DEF Image
  <2> HIDE DEF B, before, after, E, G, hp
  <2>3. Image(hp, Range(f) \ (E \cup G)) = Image(hp, Range(f)) \ Image(hp, E \cup G)
    BY <1>1, <1>2, <2>1, ImageWithout
  <2> QED
    BY <1>11, <2>2, <2>3
<1>13. \A c \in Range(f) \ (E \cup G) : Same(hq[c], hp[c])
  BY <1>1, <1>6, <1>9
<1>14. Image(hq, Range(f) \ (E \cup G)) = Image(hp, Range(f) \ (E \cup G))
  <2> HIDE DEF hp, hq, E, G
  <2> QED
    BY <1>13, ImageSame
<1> DEFINE lo == hq[a].addr
           hi == hq[a].addr + hq[a].size
<1>15. lo \in Nat /\ hi \in Nat /\ hi - lo = hq[a].size
  BY <1>4, CellTypes
<1>16. Image(hq, Range(g))
         = (F \ (before \cup after)) \cup {[addr |-> lo, size |-> hi - lo]}
  <2>1. Image(hq, Range(g)) = Image(hq, Range(f) \ (E \cup G)) \cup {BlockOf(hq, a)}
    BY <1>9 DEF Image
  <2>2. BlockOf(hq, a) = [addr |-> lo, size |-> hi - lo]
    BY <1>15 DEF BlockOf
  <2> QED
    BY <1>12, <1>14, <2>1, <2>2
<1>17. Image(hq, Range(v)) = Image(hp, Range(u)) \ {B}
  <2>1. /\ Range(f) \cup Range(u) \subseteq Cells /\ {b} \subseteq Range(f) \cup Range(u)
        /\ Range(u) \subseteq Range(f) \cup Range(u)
    BY <1>1
  <2>2. Image(hp, {b}) = {B}
    BY DEF Image
  <2>3. \A c \in Range(v) : Same(hq[c], hp[c])
    BY <1>1, <1>3, <1>6, <1>8
  <2> HIDE DEF B, hp, hq
  <2>4. Image(hp, Range(u) \ {b}) = Image(hp, Range(u)) \ Image(hp, {b})
    <3>1. hp \in Heaps
      BY <1>1
    <3> QED
      BY <1>2, <2>1, <3>1, ImageWithout
  <2>5. Image(hq, Range(v)) = Image(hp, Range(v))
    BY <2>3, ImageSame
  <2> QED
    BY <1>3, <2>2, <2>4, <2>5
<1>18. \/ before = {} /\ lo = B.addr
       \/ \E x : before = {x} /\ lo = x.addr
  <2>1. CASE E = {} /\ hq[a].addr = hp[b].addr
    <3>1. before = {}
      BY <1>11, <2>1 DEF Image
    <3> QED
      BY <1>10, <2>1, <3>1
  <2>2. ASSUME NEW x, E = {x}, hq[a].addr = hp[x].addr
        PROVE  \E y : before = {y} /\ lo = y.addr
    <3>1. before = {BlockOf(hp, x)}
      BY <1>11, <2>2 DEF Image
    <3> QED
      BY <1>10, <2>2, <3>1
  <2> QED
    BY <1>7, <2>1, <2>2
<1>19. \/ after = {} /\ hi = B.addr + B.size
       \/ \E x : after = {x} /\ hi = x.addr + x.size
  <2>1. CASE G = {} /\ hq[a].addr + hq[a].size = hp[b].addr + hp[b].size
    <3>1. after = {}
      BY <1>11, <2>1 DEF Image
    <3> QED
      BY <1>10, <2>1, <3>1
  <2>2. ASSUME NEW x, G = {x}, hq[a].addr + hq[a].size = hp[x].addr + hp[x].size
        PROVE  \E y : after = {y} /\ hi = y.addr + y.size
    <3>1. after = {BlockOf(hp, x)}
      BY <1>11, <2>2 DEF Image
    <3> QED
      BY <1>10, <2>2, <3>1
  <2> QED
    BY <1>7, <2>1, <2>2
<1>20. ASSUME Parted(hp, f), NEW c \in Range(g), NEW d \in Range(g)
       PROVE  hq[c].addr + hq[c].size # hq[d].addr
  <2>1. \A e \in Range(f) \ (E \cup G) : hq[e].addr = hp[e].addr /\ hq[e].size = hp[e].size
    BY <1>13 DEF Same
  <2>2. CASE c # a /\ d # a
    BY <1>9, <1>20, <2>1, <2>2 DEF Parted
  <2>3. CASE c = a /\ d # a
    <3>1. d \in Range(f) \ (E \cup G) /\ hq[d].addr = hp[d].addr
      BY <1>9, <2>1, <2>3
    <3>2. hp[b].addr + hp[b].size # hp[d].addr
      BY <3>1 DEF Beginning
    <3>3. \A x \in G : hp[x].addr + hp[x].size # hp[d].addr
      BY <1>8, <1>20, <3>1 DEF Parted
    <3> QED
      BY <1>7, <2>3, <3>1, <3>2, <3>3
  <2>4. CASE c # a /\ d = a
    <3>1. c \in Range(f) \ (E \cup G) /\ hq[c].addr = hp[c].addr /\ hq[c].size = hp[c].size
      BY <1>9, <2>1, <2>4
    <3>2. hp[c].addr + hp[c].size # hp[b].addr
      BY <3>1 DEF Ending
    <3>3. \A x \in E : hp[c].addr + hp[c].size # hp[x].addr
      BY <1>8, <1>20, <3>1 DEF Parted
    <3> QED
      BY <1>7, <2>4, <3>1, <3>2, <3>3
  <2>5. CASE c = a /\ d = a
    <3>1. hq[a].addr \in Nat /\ hq[a].size \in Nat
      BY <1>4, CellTypes
    <3>2. hq[a].size > 0
      BY <1>3, <1>6 DEF Sound, Laid
    <3> QED
      BY <2>5, <3>1, <3>2
  <2> QED
    BY <2>2, <2>3, <2>4, <2>5
<1>21. Parted(hp, f) => Parted(hq, g)
  BY <1>20 DEF Parted
<1>22. BlockGiven(F, Image(hp, Range(u)), B, Image(hq, Range(g)), Image(hq, Range(v)))
  <2> HIDE DEF F, B, lo, hi, hp, hq
  <2> QED
    BY <1>15, <1>16, <1>17, <1>18, <1>19 DEF BlockGiven
<1> QED
  BY <1>21, <1>22

\* What is taken and given back at once changes no block.
LEMMA TakenGiven ==
  ASSUME NEW p \in Pools, NEW F, NEW U, NEW need \in Nat, need > 0, NEW B \in F,
         B.size >= need,
         \A x \in F \cup U : x.addr \in Nat /\ x.size \in Nat /\ x.size > 0
                             /\ x = [addr |-> x.addr, size |-> x.size],
         \A x, y \in F \cup U :
           x = y \/ x.addr + x.size <= y.addr \/ y.addr + y.size <= x.addr,
         F \cap U = {}, \A x, y \in F : x.addr + x.size # y.addr,
         NEW F1, NEW U1, BlockTaken(p, F, U, B, need, F1, U1),
         NEW B1 \in U1, B1.addr = B.addr, NEW F2, NEW U2, BlockGiven(F1, U1, B1, F2, U2)
  PROVE  /\ F2 = F /\ U2 = U
         /\ \/ B1.size = need /\ B.size > need + PoolPage[p]
            \/ B1 = B
<1>1. B.addr \in Nat /\ B.size \in Nat /\ PoolPage[p] \in Nat
      /\ B = [addr |-> B.addr, size |-> B.size] /\ B \notin U
  BY PoolNumbers
<1> DEFINE before == {x \in F1 : x.addr + x.size = B1.addr}
           after  == {x \in F1 : x.addr = B1.addr + B1.size}
<1>2. PICK lo \in Nat, hi \in Nat :
        /\ F2 = (F1 \ (before \cup after)) \cup {[addr |-> lo, size |-> hi - lo]}
        /\ \/ before = {} /\ lo = B1.addr
           \/ \E x : before = {x} /\ lo = x.addr
        /\ \/ after = {} /\ hi = B1.addr + B1.size
           \/ \E x : after = {x} /\ hi = x.addr + x.size
  BY DEF BlockGiven
<1>3. U2 = U1 \ {B1}
  BY DEF BlockGiven
\* Any other block is before B or after it.
<1>4. \A x \in F \cup U : x # B =>
        \/ x.addr + x.size <= B.addr
        \/ B.addr + B.size <= x.addr
  OBVIOUS
<1>5. \A x \in U : x.addr # B.addr
  BY <1>1, <1>4
<1>6. CASE F1 = F \ {B} /\ U1 = U \cup {B}
  <2>1. B1 = B
    BY <1>5, <1>6
  <2>2. before = {} /\ after = {}
    BY <1>6, <2>1
  <2>3. lo = B.addr /\ hi = B.addr + B.size
    BY <1>2, <2>1, <2>2
  <2>4. [addr |-> lo, size |-> hi - lo] = B
    BY <1>1, <2>3
  <2>5. F2 = F
    BY <1>2, <1>6, <2>2, <2>4
  <2>6. U2 = U
    BY <1>1, <1>3, <1>6, <2>1
  <2> QED
    BY <2>1, <2>5, <2>6
<1>7. ASSUME B.size > need + PoolPage[p],
             F1 = (F \ {B}) \cup {[addr |-> B.addr + need, size |-> B.size - need]},
             U1 = U \cup {[addr |-> B.addr, size |-> need]}
      PROVE  F2 = F /\ U2 = U /\ B1.size = need
  <2> DEFINE R == [addr |-> B.addr + need, size |-> B.size - need]
             H == [addr |-> B.addr, size |-> need]
  <2>1. R.addr = B.addr + need /\ R.size = B.size - need /\ R.size > 0
        /\ R.addr + R.size = B.addr + B.size /\ H.addr = B.addr /\ H.size = need
        /\ need < B.size
    BY <1>1, <1>7
  <2>2. F1 = (F \ {B}) \cup {R} /\ U1 = U \cup {H}
    BY <1>7
  <2> HIDE DEF R, H
  <2>3. B1 = H
    BY <1>5, <2>1, <2>2
  <2>4. H \notin U
    BY <1>5, <2>1
  <2>5. \A x \in F \cup U : x # B => x.addr # B.addr + need /\ x.addr + x.size # B.addr + need
    BY <1>1, <1>4, <2>1
  <2>6. R \notin F
    BY <1>1, <2>1, <2>5
  <2>7. before = {}
    <3>1. R.addr + R.size # B.addr
      BY <1>1, <2>1
    <3> QED
      BY <2>1, <2>2, <2>3, <3>1
  <2>8. after = {R}
    BY <2>1, <2>2, <2>3, <2>5
  <2>9. lo = B.addr /\ hi = B.addr + B.size
    BY <1>2, <2>1, <2>3, <2>7, <2>8
  <2>10. [addr |-> lo, size |-> hi - lo] = B
    BY <1>1, <2>9
  <2>11. F2 = F
    BY <1>2, <2>2, <2>6, <2>7, <2>8, <2>10
  <2>12. U2 = U
    BY <1>3, <2>2, <2>3, <2>4
  <2> QED
    BY <2>1, <2>3, <2>11, <2>12
<1> HIDE DEF before, after
<1> QED
  BY <1>6, <1>7 DEF BlockTaken

\* Sums in w-bit arithmetic.
LEMMA ModValue ==
  ASSUME NEW w \in Nat \ {0}, NEW x \in Int
  PROVE  /\ x \in 0 .. (w - 1) => x % w = x
         /\ x \in w .. (2 * w - 1) => x % w = x - w
         /\ x \in (0 - w) .. (0 - 1) => x % w = x + w
<1> DEFINE k == x \div w
           r == x % w
<1>1. k \in Int /\ r \in 0 .. (w - 1) /\ x = w * k + r
  OBVIOUS
<1> HIDE DEF k, r
<1>2. \A i \in Int : i >= 1 => w * i >= w
  OBVIOUS
<1>3. \A i \in Int : i <= 0 - 1 => w * i <= 0 - w
  OBVIOUS
<1>4. \A i \in Int : i >= 2 => w * i >= 2 * w
  OBVIOUS
<1>5. \A i \in Int : i <= 0 - 2 => w * i <= 0 - 2 * w
  OBVIOUS
<1>6. w * 0 = 0 /\ w * 1 = w /\ w * (0 - 1) = 0 - w
  OBVIOUS
<1>7. x \in 0 .. (w - 1) => r = x
  <2>1. CASE k >= 1
    BY <1>1, <1>2, <2>1
  <2>2. CASE k <= 0 - 1
    BY <1>1, <1>3, <2>2
  <2>3. CASE k = 0
    BY <1>1, <1>6, <2>3
  <2> QED
    BY <1>1, <2>1, <2>2, <2>3
<1>8. x \in w .. (2 * w - 1) => r = x - w
  <2>1. CASE k >= 2
    BY <1>1, <1>4, <2>1
  <2>2. CASE k <= 0 - 1
    BY <1>1, <1>3, <2>2
  <2>3. CASE k = 0
    BY <1>1, <1>6, <2>3
  <2>4. CASE k = 1
    BY <1>1, <1>6, <2>4
  <2> QED
    BY <1>1, <2>1, <2>2, <2>3, <2>4
<1>9. x \in (0 - w) .. (0 - 1) => r = x + w
  <2>1. CASE k >= 1
    BY <1>1, <1>2, <2>1
  <2>2. CASE k <= 0 - 2
    BY <1>1, <1>5, <2>2
  <2>3. CASE k = 0
    BY <1>1, <1>6, <2>3
  <2>4. CASE k = 0 - 1
    BY <1>1, <1>6, <2>4
  <2> QED
    BY <1>1, <2>1, <2>2, <2>3, <2>4
<1> QED
  BY <1>7, <1>8, <1>9 DEF r

LEMMA ModSum ==
  ASSUME NEW w \in Nat \ {0}, NEW x \in 0 .. (w - 1), NEW y \in 0 .. w, NEW z \in 0 .. w
  PROVE  (((x + y) % w) - z) % w = (x + y - z) % w
<1> DEFINE s == x + y
           r == s % w
           d == s - z
<1>1. s \in Int /\ d \in Int /\ s \in 0 .. (2 * w - 1)
  OBVIOUS
<1>2. CASE s < w
  <2>1. s \in 0 .. (w - 1)
    BY <1>1, <1>2
  <2> HIDE DEF s
  <2>2. r = s
    BY <1>1, <2>1, ModValue
  <2> QED
    BY <2>2 DEF s
<1>3. CASE s >= w
  <2> HIDE DEF s
  <2>1. r = s - w
    BY <1>1, <1>3, ModValue
  <2>2. r - z = d - w /\ d - w \in Int /\ d \in 0 .. (2 * w - 1)
    BY <1>1, <1>3, <2>1
  <2> HIDE DEF r, d
  <2>3. CASE d < w
    <3>1. d % w = d /\ (d - w) % w = d - w + w
      BY <1>1, <2>2, <2>3, ModValue
    <3> QED
      BY <1>1, <2>2, <3>1 DEF r, s, d
  <2>4. CASE d >= w
    <3>1. d \in w .. (2 * w - 1) /\ d - w \in 0 .. (w - 1)
      BY <1>1, <2>2, <2>4
    <3>2. d % w = d - w
      BY <1>1, <3>1, ModValue
    <3>3. (d - w) % w = d - w
      <4> DEFINE e == d - w
      <4>1. e \in 0 .. (w - 1) /\ e \in Int
        BY <3>1
      <4> HIDE DEF e
      <4>2. e % w = e
        BY <4>1, ModValue
      <4> QED
        BY <4>2 DEF e
    <3> QED
      BY <1>1, <2>2, <3>2, <3>3 DEF r, s, d
  <2> QED
    BY <1>1, <2>3, <2>4
<1> QED
  BY <1>1, <1>2, <1>3

-----------------------------------------------------------------------------
(***************************************************************************)
(* The steps of a pool, in its blocks.                                     *)
(***************************************************************************)
LEMMA TakenIsAlloc ==
  ASSUME CallocFails = TRUE, NEW p \in Pools, NEW n \in Sizes, NEW need,
         need = AlignUp(p, n), need >= n, NEW B \in FreeBlocks(p), B.size >= need,
         \A c \in FreeBlocks(p) : c.size >= need => B.addr <= c.addr,
         BlockTaken(p, FreeBlocks(p), UsedBlocks(p), B, need,
                    FreeBlocks(p)', UsedBlocks(p)'),
         pool'[p].used_size = (pool[p].used_size + need) % Width
  PROVE  Pool(p)!Alloc(n)
<1>1. Pool(p)!AlignUp(n) = need
  BY DEF Pool!AlignUp, AlignUp
<1>2. Pool(p)!FirstFit(B, need)
  BY DEF Pool!FirstFit
<1>3. \/ Pool(p)!Splits(B, need) /\ Pool(p)!TakePart(B, need)
      \/ Pool(p)!TakeAll(B)
  BY DEF BlockTaken, Pool!Splits, Pool!TakePart, Pool!TakeAll
<1> QED
  BY <1>1, <1>2, <1>3 DEF Pool!Alloc

LEMMA GivenIsFree ==
  ASSUME NEW p \in Pools, NEW B \in UsedBlocks(p),
         BlockGiven(FreeBlocks(p), UsedBlocks(p), B, FreeBlocks(p)', UsedBlocks(p)'),
         pool'[p].used_size = (pool[p].used_size - B.size) % Width
  PROVE  Pool(p)!Free(B)
<1> DEFINE before == {x \in FreeBlocks(p) : x.addr + x.size = B.addr}
           after  == {x \in FreeBlocks(p) : x.addr = B.addr + B.size}
<1>1. PICK lo \in Nat, hi \in Nat :
        /\ FreeBlocks(p)' = (FreeBlocks(p) \ (before \cup after))
                              \cup {[addr |-> lo, size |-> hi - lo]}
        /\ \/ before = {} /\ lo = B.addr
           \/ \E x : before = {x} /\ lo = x.addr
        /\ \/ after = {} /\ hi = B.addr + B.size
           \/ \E x : after = {x} /\ hi = x.addr + x.size
  BY DEF BlockGiven
<1>2. UsedBlocks(p)' = UsedBlocks(p) \ {B}
  BY DEF BlockGiven
<1>3. Pool(p)!Before(B) = before /\ Pool(p)!After(B) = after
  BY DEF Pool!Before, Pool!After, Pool!End
<1> HIDE DEF before, after
<1>4. lo = IF before = {} THEN B.addr ELSE (CHOOSE x \in before : TRUE).addr
  BY <1>1
<1>5. hi = IF after = {} THEN B.addr + B.size
           ELSE (CHOOSE x \in after : TRUE).addr + (CHOOSE x \in after : TRUE).size
  BY <1>1
<1>6. Pool(p)!Merged(B) = [addr |-> lo, size |-> hi - lo]
  BY <1>3, <1>4, <1>5 DEF Pool!Merged, Pool!End
<1> QED
  BY <1>1, <1>2, <1>3, <1>6 DEF Pool!Free

LEMMA SameIsBounce ==
  ASSUME CallocFails = TRUE, NEW p \in Pools, NEW n \in Sizes, NEW need,
         need = AlignUp(p, n), need >= n, NEW B \in FreeBlocks(p), B.size >= need,
         \A c \in FreeBlocks(p) : c.size >= need => B.addr <= c.addr,
         FreeBlocks(p)' = FreeBlocks(p), UsedBlocks(p)' = UsedBlocks(p),
         \/ B.size > need + PoolPage[p] /\ pool'[p].used_size = pool[p].used_size
         \/ pool'[p].used_size = (pool[p].used_size + need - B.size) % Width
  PROVE  Pool(p)!Bounce(n)
<1>1. Pool(p)!AlignUp(n) = need
  BY DEF Pool!AlignUp, AlignUp
<1>2. Pool(p)!FirstFit(B, need)
  BY DEF Pool!FirstFit
<1> QED
  BY <1>1, <1>2 DEF Pool!Bounce, Pool!Splits

\* The blocks on the lists of a pool, and those of the pools that are down.
FreeOf(m) == Image(m.heap, Range(List(m.heap, m.pool.free_list)))
UsedOf(m) == Image(m.heap, Range(List(m.heap, m.pool.used_list)))
WholePool(p) == {[addr |-> PoolBase[p], size |-> PoolTotal[p]]}

LEMMA BlocksUp ==
  ASSUME NEW p \in Pools
  PROVE  /\ up = TRUE => FreeBlocks(p) = FreeOf(Memory(p))
         /\ up = FALSE => FreeBlocks(p) = WholePool(p)
         /\ UsedBlocks(p) = UsedOf(Memory(p)) /\ Memory(p).pool = pool[p]
BY DEF FreeBlocks, UsedBlocks, BlocksOf, FreeOf, UsedOf, Image, BlockOf, Memory, WholePool

LEMMA BlocksUpNext ==
  ASSUME NEW p \in Pools
  PROVE  /\ up' = TRUE => FreeBlocks(p)' = FreeOf(Memory(p)')
         /\ up' = FALSE => FreeBlocks(p)' = WholePool(p)
         /\ UsedBlocks(p)' = UsedOf(Memory(p)') /\ (Memory(p)').pool = pool'[p]
BY DEF FreeBlocks, UsedBlocks, BlocksOf, FreeOf, UsedOf, Image, BlockOf, Memory, WholePool

LEMMA OfLists ==
  ASSUME NEW p \in Pools, NEW m, NEW f, NEW u, Sound(p, m, f, u)
  PROVE  FreeOf(m) = Image(m.heap, Range(f)) /\ UsedOf(m) = Image(m.heap, Range(u))
BY SoundLists DEF FreeOf, UsedOf

\* A pool whose lists and their blocks stay is unchanged.
LEMMA SameBlocks ==
  ASSUME NEW p \in Pools, up' = up, pool'[p] = pool[p], FreeL(p)' = FreeL(p),
         UsedL(p)' = UsedL(p), \A c \in On(p) : heap'[c] = heap[c]
  PROVE  /\ FreeBlocks(p)' = FreeBlocks(p) /\ UsedBlocks(p)' = UsedBlocks(p)
         /\ Parted(heap, FreeL(p)) => Parted(heap', FreeL(p)')
<1> DEFINE f == Range(FreeL(p))
           u == Range(UsedL(p))
<1>1. FreeBlocks(p) = IF up THEN Image(heap, f) ELSE WholePool(p)
  BY DEF FreeBlocks, BlocksOf, Image, BlockOf, WholePool, FreeL
<1>2. UsedBlocks(p) = Image(heap, u)
  BY DEF UsedBlocks, BlocksOf, Image, BlockOf, UsedL
<1>3. FreeBlocks(p)' = IF up THEN Image(heap', f) ELSE WholePool(p)
  <2>1. FreeBlocks(p)' = IF up' THEN Image(heap', Range(FreeL(p)')) ELSE WholePool(p)
    BY DEF FreeBlocks, BlocksOf, Image, BlockOf, WholePool, FreeL
  <2> QED
    BY <2>1
<1>4. UsedBlocks(p)' = Image(heap', u)
  <2>1. UsedBlocks(p)' = Image(heap', Range(UsedL(p)'))
    BY DEF UsedBlocks, BlocksOf, Image, BlockOf, UsedL
  <2> QED
    BY <2>1
<1>5. \A c \in f \cup u : Same(heap'[c], heap[c])
  BY DEF On, Same
<1>6. Image(heap', f) = Image(heap, f) /\ Image(heap', u) = Image(heap, u)
  <2> HIDE DEF f, u
  <2> QED
    BY <1>5, ImageSame
<1>7. Parted(heap, FreeL(p)) => Parted(heap', FreeL(p)')
  BY DEF Parted, On
<1> QED
  BY <1>1, <1>2, <1>3, <1>4, <1>6, <1>7

LEMMA OthersStay ==
  ASSUME PoolsSound, NEW p \in Pools, NEW m, NEW g, NEW v, Changes(p, m, g, v),
         up' = up, NEW q \in Pools \ {p}
  PROVE  /\ FreeBlocks(q)' = FreeBlocks(q) /\ UsedBlocks(q)' = UsedBlocks(q)
         /\ pool'[q] = pool[q]
         /\ Parted(heap, FreeL(q)) => Parted(heap', FreeL(q)')
<1>1. /\ heap' = m.heap /\ pool' = [pool EXCEPT ![p] = m.pool]
      /\ Only(m.heap, heap, On(p) \cup (Cells \ live))
      /\ pool \in [Pools -> PoolRec]
  BY DEF Changes, Lists, PoolsSound
<1>2. FreeL(q)' = FreeL(q) /\ UsedL(q)' = UsedL(q)
  BY PoolStep
<1>3. On(q) \subseteq live /\ On(q) \subseteq Cells /\ On(q) \cap On(p) = {}
  <2>1. Sound(q, Memory(q), FreeL(q), UsedL(q)) /\ On(q) \cap On(p) = {}
    BY DEF PoolsSound
  <2>2. Memory(q).live = live
    BY DEF Memory
  <2> QED
    BY <2>1, <2>2, SoundLists DEF On
<1>4. \A c \in On(q) : heap'[c] = heap[c]
  BY <1>1, <1>3 DEF Only
<1>5. pool'[q] = pool[q]
  BY <1>1
<1> QED
  BY <1>2, <1>4, <1>5, SameBlocks

\* What a call that changes pool p does to its blocks.
LEMMA ChangedBlocks ==
  ASSUME PoolsSound, NEW p \in Pools, NEW m, NEW g, NEW v, Changes(p, m, g, v),
         up = TRUE, up' = up
  PROVE  /\ FreeBlocks(p) = Image(heap, Range(FreeL(p)))
         /\ UsedBlocks(p) = Image(heap, Range(UsedL(p)))
         /\ FreeBlocks(p)' = Image(m.heap, Range(g))
         /\ UsedBlocks(p)' = Image(m.heap, Range(v))
         /\ pool'[p] = m.pool /\ heap' = m.heap /\ FreeL(p)' = g
<1>1. Sound(p, Memory(p), FreeL(p), UsedL(p)) /\ Memory(p).heap = heap
  BY DEF PoolsSound, Memory
<1>2. Sound(p, m, g, v)
  BY DEF Changes
<1>3. Memory(p)' = m /\ FreeL(p)' = g
  BY PoolStep
<1>4. heap' = m.heap
  BY DEF Changes, Lists
<1> QED
  BY <1>1, <1>2, <1>3, <1>4, BlocksUp, BlocksUpNext, OfLists

\* The search stops at the lowest block that is big enough.
LEMMA FitIsFirst ==
  ASSUME NEW p \in Pools, NEW f, NEW u, Sound(p, Memory(p), f, u), NEW n \in Sizes,
         NEW b, b = Fit(p, n), b # Null, NEW need, need = AlignUp(p, n)
  PROVE  /\ need \in Nat /\ n \in Nat /\ need >= n /\ need > 0
         /\ b \in Range(f) /\ heap[b].size >= need
         /\ \A c \in Range(f) : heap[c].size >= need => heap[b].addr <= heap[c].addr
<1>1. PICK k \in 1 .. Len(f) :
        /\ b = f[k] /\ need >= n /\ heap[b].size >= need
        /\ \A i \in 1 .. Len(f) : i < k => heap[f[i]].size < need
  BY FitPlace
<1>2. n \in Nat /\ n > 0
  BY ManagerAssumption DEF ManagerAssumption
<1>3. need \in Nat
  BY <1>2, AlignNumber
<1>4. f \in Seq(Cells) /\ Injective(f) /\ Sorted(heap, f) /\ heap \in Heaps
  BY DEF Sound, Holds, Chain, Memory, MemRec
<1>5. Len(f) \in Nat /\ Range(f) = {f[i] : i \in 1 .. Len(f)}
      /\ \A i \in 1 .. Len(f) : f[i] \in Cells
  BY <1>4, Place DEF Range
<1>6. ASSUME NEW i \in 1 .. Len(f), heap[f[i]].size >= need
      PROVE  heap[b].addr <= heap[f[i]].addr
  <2>1. heap[f[i]].size \in Nat /\ heap[f[i]].addr \in Nat /\ heap[b].addr \in Nat
    BY <1>1, <1>4, <1>5, CellTypes
  <2>2. ~ (i < k)
    BY <1>1, <1>3, <1>6, <2>1
  <2>3. CASE i = k
    BY <1>1, <2>1, <2>3
  <2>4. CASE k < i
    <3>1. heap[f[k]].addr < heap[f[i]].addr
      BY <1>4, <2>4 DEF Sorted
    <3> QED
      BY <1>1, <2>1, <3>1
  <2> QED
    BY <1>5, <2>2, <2>3, <2>4
<1> QED
  BY <1>1, <1>2, <1>3, <1>5, <1>6

-----------------------------------------------------------------------------
(***************************************************************************)
(* The steps of the manager, in the blocks of its pools.                   *)
(***************************************************************************)
\* No two free blocks of a pool touch.
FreeParted == \A p \in Pools : Parted(heap, FreeL(p))
\* A step is one of pool p or leaves it as it is.
Refined(p) ==
  Pool(p)!Next \/ UNCHANGED <<FreeBlocks(p), UsedBlocks(p), pool[p].used_size>>

LEMMA GrantedRefined ==
  ASSUME Inv, FreeParted, CallocFails = TRUE, up = TRUE, up' = up,
         NEW kind \in Kinds, NEW n \in Sizes, NEW host, Granted(kind, n, host),
         kind # "device" => host \in Hosts
  PROVE  FreeParted' /\ \A q \in Pools : Refined(q)
<1> DEFINE b == Fit(kind, n)
           f == FreeL(kind)
           u == UsedL(kind)
           need == AlignUp(kind, n)
           B == BlockOf(heap, b)
<1>1. PICK t, g, v, k : Grants(kind, n, b, host, t, g, v, k)
  BY GrantedGrants
<1>2. PICK m : Marked(t, m) /\ Allocated(kind, Memory(kind), m, f, u, b, g, v, n)
  BY <1>1 DEF Grants
<1>3. Changes(kind, t, g, v)
  BY <1>1 DEF Grants
<1>4. /\ kind \in Pools /\ PoolsSound /\ Sound(kind, Memory(kind), f, u)
      /\ Memory(kind).heap = heap /\ Memory(kind).pool = pool[kind] /\ b # Null
  BY ManagerAssumption DEF ManagerAssumption, Inv, PoolsSound, Memory, Granted
<1>5. /\ need \in Nat /\ n \in Nat /\ need >= n /\ need > 0
      /\ b \in Range(f) /\ heap[b].size >= need
      /\ \A c \in Range(f) : heap[c].size >= need => heap[b].addr <= heap[c].addr
  <2> HIDE DEF f, u
  <2> QED
    BY <1>4, FitIsFirst
<1> HIDE DEF b, f, u, need
<1>6. /\ BlockTaken(kind, Image(heap, Range(f)), Image(heap, Range(u)), B, need,
                    Image(m.heap, Range(g)), Image(m.heap, Range(v)))
      /\ Parted(heap, f) => Parted(m.heap, g)
  <2>1. /\ need = AlignUp(kind, n) /\ Memory(kind).heap[b].size >= need
    BY <1>4, <1>5 DEF need
  <2> QED
    BY <1>2, <1>4, <1>5, <2>1, AllocatedBlocks
<1>7. Range(g) \subseteq Cells /\ Range(v) \subseteq Cells
  BY <1>3, <1>4, SoundLists DEF Changes
<1>8. /\ Image(t.heap, Range(g)) = Image(m.heap, Range(g))
      /\ Image(t.heap, Range(v)) = Image(m.heap, Range(v))
      /\ Parted(m.heap, g) => Parted(t.heap, g)
  BY <1>2, <1>7 DEF Marked, Image, BlockOf, Parted
<1>9. /\ FreeBlocks(kind) = Image(heap, Range(f))
      /\ UsedBlocks(kind) = Image(heap, Range(u))
      /\ FreeBlocks(kind)' = Image(t.heap, Range(g))
      /\ UsedBlocks(kind)' = Image(t.heap, Range(v))
      /\ pool'[kind] = t.pool /\ heap' = t.heap /\ FreeL(kind)' = g
  BY <1>3, <1>4, ChangedBlocks DEF f, u
<1>10. pool'[kind].used_size = (pool[kind].used_size + need) % Width
  BY <1>2, <1>4, <1>9 DEF Allocated, Marked, need
<1>11. B \in FreeBlocks(kind) /\ B.size >= need
       /\ \A c \in FreeBlocks(kind) : c.size >= need => B.addr <= c.addr
  BY <1>5, <1>9 DEF Image, BlockOf
<1> HIDE DEF B
<1>12. BlockTaken(kind, FreeBlocks(kind), UsedBlocks(kind), B, need,
                  FreeBlocks(kind)', UsedBlocks(kind)')
  <2>1. /\ FreeBlocks(kind) = Image(heap, Range(f)) /\ UsedBlocks(kind) = Image(heap, Range(u))
        /\ FreeBlocks(kind)' = Image(m.heap, Range(g))
        /\ UsedBlocks(kind)' = Image(m.heap, Range(v))
    BY <1>8, <1>9
  <2> QED
    BY ONLY <1>6, <2>1
<1>13. Pool(kind)!Alloc(n)
  <2>1. need = AlignUp(kind, n)
    BY DEF need
  <2> QED
    BY <1>4, <1>5, <1>10, <1>11, <1>12, <2>1, TakenIsAlloc
<1>14. Refined(kind)
  BY <1>13 DEF Refined, Pool!Next
<1>15. Parted(heap', FreeL(kind)')
  <2>1. Parted(heap, f)
    BY <1>4 DEF FreeParted, f
  <2>2. Parted(t.heap, g)
    BY <1>6, <1>8, <2>1
  <2> QED
    BY <1>9, <2>2
<1>16. ASSUME NEW q \in Pools \ {kind} PROVE Refined(q) /\ Parted(heap', FreeL(q)')
  <2>1. /\ FreeBlocks(q)' = FreeBlocks(q) /\ UsedBlocks(q)' = UsedBlocks(q)
        /\ pool'[q] = pool[q]
        /\ Parted(heap, FreeL(q)) => Parted(heap', FreeL(q)')
    BY <1>3, <1>4, OthersStay
  <2>2. Parted(heap, FreeL(q))
    BY DEF FreeParted
  <2>3. Refined(q)
    BY <2>1 DEF Refined
  <2> QED
    BY <2>1, <2>2, <2>3
<1>17. FreeParted'
  BY <1>15, <1>16 DEF FreeParted
<1> QED
  BY <1>14, <1>16, <1>17

LEMMA ReleasedRefined ==
  ASSUME Inv, FreeParted, up = TRUE, up' = up, NEW p \in Pools,
         NEW b \in Range(UsedL(p)), NEW t, t = PoolFree(Memory(p), b), Lists(p, t)
  PROVE  FreeParted' /\ \A q \in Pools : Refined(q)
<1> DEFINE f == FreeL(p)
           u == UsedL(p)
           B == BlockOf(heap, b)
<1>1. /\ PoolsSound /\ Sound(p, Memory(p), f, u)
      /\ Memory(p).heap = heap /\ Memory(p).pool = pool[p] /\ Memory(p).live = live
  BY DEF Inv, PoolsSound, Memory
<1>2. PICK g, v : Freed(p, Memory(p), t, f, u, b, g, v)
  BY <1>1, PoolFreeSound
<1>3. Changes(p, t, g, v)
  BY <1>1, <1>2, FreedChanges
<1> HIDE DEF f, u
<1>4. /\ BlockGiven(Image(heap, Range(f)), Image(heap, Range(u)), B,
                    Image(t.heap, Range(g)), Image(t.heap, Range(v)))
      /\ Parted(heap, f) => Parted(t.heap, g)
  <2>1. b \in Range(u)
    BY DEF u
  <2> QED
    BY <1>1, <1>2, <2>1, FreedBlocks
<1>5. /\ FreeBlocks(p) = Image(heap, Range(f))
      /\ UsedBlocks(p) = Image(heap, Range(u))
      /\ FreeBlocks(p)' = Image(t.heap, Range(g))
      /\ UsedBlocks(p)' = Image(t.heap, Range(v))
      /\ pool'[p] = t.pool /\ heap' = t.heap /\ FreeL(p)' = g
  BY <1>1, <1>3, ChangedBlocks DEF f, u
<1>6. B \in UsedBlocks(p)
  BY <1>5 DEF Image, u
<1>7. pool'[p].used_size = (pool[p].used_size - B.size) % Width
  BY <1>1, <1>2, <1>5 DEF Freed, BlockOf
<1> HIDE DEF B
<1>8. Pool(p)!Free(B)
  BY <1>4, <1>5, <1>6, <1>7, GivenIsFree
<1>9. Refined(p)
  BY <1>6, <1>8 DEF Refined, Pool!Next
<1>10. Parted(heap', FreeL(p)')
  BY <1>4, <1>5 DEF FreeParted, f
<1>11. ASSUME NEW q \in Pools \ {p} PROVE Refined(q) /\ Parted(heap', FreeL(q)')
  <2>1. /\ FreeBlocks(q)' = FreeBlocks(q) /\ UsedBlocks(q)' = UsedBlocks(q)
        /\ pool'[q] = pool[q]
        /\ Parted(heap, FreeL(q)) => Parted(heap', FreeL(q)')
    BY <1>1, <1>3, OthersStay
  <2>2. Parted(heap, FreeL(q))
    BY DEF FreeParted
  <2>3. Refined(q)
    BY <2>1 DEF Refined
  <2> QED
    BY <2>1, <2>2, <2>3
<1>12. FreeParted'
  BY <1>10, <1>11 DEF FreeParted
<1> QED
  BY <1>9, <1>11, <1>12

LEMMA BounceRefined ==
  ASSUME Inv, FreeParted, CallocFails = TRUE, up = TRUE, up' = up,
         NEW n \in Sizes, "managed" \in Kinds, ManagedGivesBack(n)
  PROVE  FreeParted' /\ \A q \in Pools : Refined(q)
<1> DEFINE p == "managed"
           b == Fit(p, n)
           f == FreeL(p)
           u == UsedL(p)
           need == AlignUp(p, n)
           S == Range(f) \cup Range(u)
           F == Image(heap, Range(f))
           U == Image(heap, Range(u))
           B == BlockOf(heap, b)
<1>1. PICK s, g, v, t, h, w : Bounces(n, b, s, g, v, t, h, w)
  BY BounceBounces
<1>2. /\ Allocated(p, Memory(p), s, f, u, b, g, v, n)
      /\ Freed(p, s, t, g, v, b, h, w) /\ Changes(p, t, h, w) /\ b \in Range(v)
  BY <1>1 DEF Bounces
<1>3. /\ p \in Pools /\ PoolsSound /\ Sound(p, Memory(p), f, u)
      /\ Memory(p).heap = heap /\ Memory(p).pool = pool[p] /\ b # Null
  BY DEF Inv, PoolsSound, Memory, ManagedGivesBack, Pools
<1> HIDE DEF p
<1>4. /\ need \in Nat /\ n \in Nat /\ need >= n /\ need > 0
      /\ b \in Range(f) /\ heap[b].size >= need
      /\ \A c \in Range(f) : heap[c].size >= need => heap[b].addr <= heap[c].addr
  <2> HIDE DEF f, u
  <2> QED
    BY <1>3, FitIsFirst
<1>5. /\ Laid(p, heap, S) /\ S \subseteq Cells /\ heap \in Heaps
      /\ Range(f) \cap Range(u) = {} /\ pool[p].used_size \in 0 .. (Width - 1)
  BY <1>3, SoundLists DEF Sound
<1>6. /\ FreeBlocks(p) = F /\ UsedBlocks(p) = U
      /\ FreeBlocks(p)' = Image(t.heap, Range(h))
      /\ UsedBlocks(p)' = Image(t.heap, Range(w))
      /\ pool'[p] = t.pool /\ heap' = t.heap /\ FreeL(p)' = h
  BY <1>2, <1>3, ChangedBlocks
<1>7. Parted(heap, f)
  BY <1>3 DEF FreeParted
<1> HIDE DEF b, f, u, need
<1> DEFINE F1 == Image(s.heap, Range(g))
           U1 == Image(s.heap, Range(v))
           B1 == BlockOf(s.heap, b)
           F2 == Image(t.heap, Range(h))
           U2 == Image(t.heap, Range(w))
<1>8. /\ BlockTaken(p, F, U, B, need, F1, U1) /\ s.heap[b].addr = heap[b].addr
      /\ Parted(s.heap, g)
  <2>1. /\ need = AlignUp(p, n) /\ Memory(p).heap[b].size >= need
    BY <1>3, <1>4 DEF need
  <2> QED
    BY <1>2, <1>3, <1>4, <1>7, <2>1, AllocatedBlocks
<1>9. BlockGiven(F1, U1, B1, F2, U2) /\ Parted(t.heap, h)
  <2>1. Sound(p, s, g, v)
    BY <1>2 DEF Allocated
  <2> QED
    BY <1>2, <1>3, <1>8, <2>1, FreedBlocks
<1>10. B1 \in U1 /\ B1.addr = B.addr /\ B1.size = s.heap[b].size /\ B \in F
       /\ B.addr = heap[b].addr /\ B.size = heap[b].size
  BY <1>2, <1>4, <1>8 DEF Image, BlockOf
<1>11. F \cup U = Image(heap, S)
  BY DEF Image
<1>12. F \cap U = {}
  <2> DEFINE T == Range(f)
             D == Range(u)
  <2>1. T \in SUBSET S /\ D \in SUBSET S /\ S \in SUBSET Cells /\ T \ D = T
    BY <1>5
  <2> HIDE DEF T, D, S
  <2>2. Image(heap, T \ D) = Image(heap, T) \ Image(heap, D)
    BY <1>3, <1>5, <2>1, ImageWithout
  <2> QED
    BY <2>1, <2>2 DEF T, D
<1>13. \A x, y \in F : x.addr + x.size # y.addr
  BY <1>7 DEF Parted, Image, BlockOf
<1> HIDE DEF S, F, U, B, F1, U1, B1, F2, U2
<1>14. /\ \A x \in F \cup U : x.addr \in Nat /\ x.size \in Nat /\ x.size > 0
                              /\ x = [addr |-> x.addr, size |-> x.size]
       /\ \A x, y \in F \cup U :
            x = y \/ x.addr + x.size <= y.addr \/ y.addr + y.size <= x.addr
  BY <1>3, <1>5, <1>11, ImageApart
<1>15. /\ F2 = F /\ U2 = U
       /\ \/ B1.size = need /\ B.size > need + PoolPage[p]
          \/ B1 = B
  <2>1. B.size >= need
    BY <1>4, <1>10
  <2> QED
    BY <1>3, <1>4, <1>8, <1>9, <1>10, <1>12, <1>13, <1>14, <2>1, TakenGiven
\* The size that the pool thinks is in use.
<1> DEFINE x == pool[p].used_size
           z == B1.size
<1>16. /\ s.pool.used_size = (x + need) % Width
       /\ pool'[p].used_size = (s.pool.used_size - z) % Width
  BY <1>2, <1>3, <1>6, <1>10 DEF Allocated, Freed, need
<1>17. /\ B.size \in Nat /\ B.size <= Width /\ need <= B.size
       /\ Width \in Nat \ {0}
  <2>1. /\ b \in Cells /\ heap[b].addr \in Nat /\ heap[b].size \in Nat
        /\ PoolBase[p] <= heap[b].addr
        /\ heap[b].addr + heap[b].size <= PoolBase[p] + PoolTotal[p]
    BY <1>4, <1>5, CellTypes DEF Laid, S
  <2>2. /\ PoolBase[p] \in Nat /\ PoolTotal[p] \in Nat
        /\ PoolBase[p] + PoolTotal[p] <= Width /\ Width \in Nat \ {0}
    BY <1>3, PoolNumbers
  <2> QED
    BY <1>4, <1>10, <2>1, <2>2
<1>18. x \in 0 .. (Width - 1) /\ need \in 0 .. Width /\ z \in 0 .. Width
  BY <1>4, <1>5, <1>15, <1>17
<1> HIDE DEF x, z
<1>19. pool'[p].used_size = (x + need - z) % Width
  BY <1>16, <1>17, <1>18, ModSum
<1>20. \/ B.size > need + PoolPage[p] /\ pool'[p].used_size = pool[p].used_size
       \/ pool'[p].used_size = (pool[p].used_size + need - B.size) % Width
  <2>1. CASE B1.size = need /\ B.size > need + PoolPage[p]
    <3>1. x + need - z = x /\ x \in Int
      BY <1>4, <1>18, <2>1 DEF z
    <3>2. x % Width = x
      BY <1>17, <1>18, <3>1, ModValue
    <3> QED
      BY <1>19, <2>1, <3>1, <3>2 DEF x
  <2>2. CASE B1 = B
    BY <1>19, <2>2 DEF x, z
  <2> QED
    BY <1>15, <2>1, <2>2
<1>21. B \in FreeBlocks(p) /\ B.size >= need
       /\ \A c \in FreeBlocks(p) : c.size >= need => B.addr <= c.addr
  BY <1>4, <1>6, <1>10 DEF Image, BlockOf, F
<1>22. FreeBlocks(p)' = FreeBlocks(p) /\ UsedBlocks(p)' = UsedBlocks(p)
  BY <1>6, <1>15 DEF F2, U2
<1>23. Pool(p)!Bounce(n)
  <2>1. need = AlignUp(p, n)
    BY DEF need
  <2> QED
    BY <1>3, <1>4, <1>20, <1>21, <1>22, <2>1, SameIsBounce
<1>24. Refined(p) /\ Parted(heap', FreeL(p)')
  BY <1>6, <1>9, <1>23 DEF Refined, Pool!Next
<1>25. ASSUME NEW q \in Pools \ {p} PROVE Refined(q) /\ Parted(heap', FreeL(q)')
  <2>1. /\ FreeBlocks(q)' = FreeBlocks(q) /\ UsedBlocks(q)' = UsedBlocks(q)
        /\ pool'[q] = pool[q]
        /\ Parted(heap, FreeL(q)) => Parted(heap', FreeL(q)')
    BY <1>2, <1>3, OthersStay
  <2>2. Parted(heap, FreeL(q))
    BY DEF FreeParted
  <2>3. Refined(q)
    BY <2>1 DEF Refined
  <2> QED
    BY <2>1, <2>2, <2>3
<1>26. FreeParted'
  BY <1>24, <1>25 DEF FreeParted
<1> QED
  BY <1>24, <1>25, <1>26

\* A step that leaves every pool's lists and their blocks alone.
LEMMA StayRefined ==
  ASSUME PoolsSound, FreeParted, up' = up, heap' \in Heaps, live' \subseteq Cells,
         live \subseteq live', pool' = pool, \A c \in live : heap'[c] = heap[c]
  PROVE  FreeParted' /\ \A q \in Pools : Refined(q)
<1>1. ASSUME NEW q \in Pools PROVE Refined(q) /\ Parted(heap', FreeL(q)')
  <2>1. FreeL(q)' = FreeL(q) /\ UsedL(q)' = UsedL(q) /\ On(q) \subseteq live
    BY PoolsStay
  <2>2. \A c \in On(q) : heap'[c] = heap[c]
    BY <2>1
  <2>3. pool'[q] = pool[q] /\ Parted(heap, FreeL(q))
    BY DEF FreeParted
  <2>4. /\ FreeBlocks(q)' = FreeBlocks(q) /\ UsedBlocks(q)' = UsedBlocks(q)
        /\ Parted(heap', FreeL(q)')
    BY <2>1, <2>2, <2>3, SameBlocks
  <2>5. Refined(q)
    BY <2>3, <2>4 DEF Refined
  <2> QED
    BY <2>4, <2>5
<1> QED
  BY <1>1 DEF FreeParted

LEMMA MallocRefined ==
  ASSUME Inv, FreeParted, CallocFails = TRUE, up = TRUE, up' = up,
         NEW n \in Sizes, Malloc(n)
  PROVE  FreeParted' /\ \A q \in Pools : Refined(q)
<1>1. CASE "device" \in Kinds /\ MallocDevice(n)
  <2> DEFINE kind == "device"
  <2>1. kind \in Kinds /\ Granted(kind, n, Null) /\ kind = "device"
    BY <1>1 DEF MallocDevice
  <2> HIDE DEF kind
  <2> QED
    BY <2>1, GrantedRefined
<1>2. CASE "pinned" \in Kinds /\ MallocPinned(n)
  <2> DEFINE kind == "pinned"
  <2>1. PICK host \in Hosts : Granted(kind, n, host)
    BY <1>2 DEF MallocPinned
  <2>2. kind \in Kinds
    BY <1>2
  <2> HIDE DEF kind
  <2> QED
    BY <2>1, <2>2, GrantedRefined
<1>3. CASE "pinned" \in Kinds /\ MallocUntracked(n)
  <2>1. PICK host \in Hosts \ buffers, b \in Cells \ live :
          /\ heap' = [heap EXCEPT ![b] =
                        [NewBlock(host, n) EXCEPT !.host = host, !.flags = "pinned",
                                                  !.allocated = TRUE]]
          /\ live' = live \cup {b} /\ pool' = pool
    BY <1>3 DEF MallocUntracked
  <2>2. n \in Nat /\ host \in Nat /\ "pinned" \in Pools
    BY ManagerAssumption DEF ManagerAssumption, Pools
  <2>3. /\ PoolsSound /\ heap \in Heaps /\ live \subseteq Cells
    BY DEF Inv, PoolsSound
  <2> DEFINE r == [NewBlock(host, n) EXCEPT !.host = host, !.flags = "pinned",
                                            !.allocated = TRUE]
  <2>4. r \in CellRec
    BY <2>2 DEF NewBlock, CellRec, Ptr
  <2> HIDE DEF r
  <2>5. heap' = [heap EXCEPT ![b] = r]
    BY <2>1 DEF r
  <2>6. heap' \in Heaps /\ \A c \in live : heap'[c] = heap[c]
    BY <2>3, <2>4, <2>5 DEF Heaps
  <2>7. live' \subseteq Cells /\ live \subseteq live'
    BY <2>1, <2>3
  <2> QED
    BY <2>1, <2>3, <2>6, <2>7, StayRefined
<1>4. CASE "managed" \in Kinds /\ MallocManaged(n)
  <2> DEFINE kind == "managed"
  <2>1. PICK host \in Hosts : Granted(kind, n, host)
    BY <1>4 DEF MallocManaged
  <2>2. kind \in Kinds
    BY <1>4
  <2> HIDE DEF kind
  <2> QED
    BY <2>1, <2>2, GrantedRefined
<1>5. CASE "managed" \in Kinds /\ ManagedGivesBack(n)
  BY <1>5, BounceRefined
<1> QED
  BY <1>1, <1>2, <1>3, <1>4, <1>5 DEF Malloc

LEMMA ReleaseRefined ==
  ASSUME Inv, FreeParted, up = TRUE, up' = up, NEW h \in handles, Release(h)
  PROVE  FreeParted' /\ \A q \in Pools : Refined(q)
<1> DEFINE b == Find(h.ptr)
<1>1. /\ h.kind \in Pools /\ h.block \in Cells /\ h.block # Null
      /\ PoolsSound /\ heap \in Heaps /\ live \subseteq Cells
  BY KeptPool, ManagerAssumption DEF ManagerAssumption, Inv, PoolsSound
<1>2. b = IF h.block \in Range(UsedL(h.kind)) THEN h.block ELSE Null
  BY FindOwn
<1> HIDE DEF b
<1>3. CASE b # Null
  <2> DEFINE p == h.kind
             t == PoolFree(Memory(p), b)
  <2>1. b \in Range(UsedL(p))
    BY <1>2, <1>3
  <2>2. Lists(p, t)
    BY <1>3 DEF Release, FreeDevice, FreeManaged, FreePinned, b
  <2>3. p \in Pools /\ t = PoolFree(Memory(p), b)
    BY <1>1
  <2> HIDE DEF p, t
  <2> QED
    BY <2>1, <2>2, <2>3, ReleasedRefined
<1>4. CASE b = Null
  <2>1. heap' = heap /\ live' = live /\ pool' = pool
    BY <1>4 DEF Release, FreeDevice, FreeManaged, FreePinned, b
  <2>2. /\ heap' \in Heaps /\ live' \subseteq Cells /\ live \subseteq live'
        /\ \A c \in live : heap'[c] = heap[c]
    BY <1>1, <2>1
  <2> QED
    BY <1>1, <2>1, <2>2, StayRefined
<1> QED
  BY <1>3, <1>4

\* A fresh pool is one free block.
OneBlock(p, m) ==
  /\ FreeOf(m) = WholePool(p) /\ UsedOf(m) = {} /\ m.pool.used_size = 0
  /\ Parted(m.heap, List(m.heap, m.pool.free_list))

LEMMA FreshBlocks ==
  ASSUME NEW f \in [Pools -> Cells], \A p, q \in Pools : f[p] = f[q] => p = q,
         NEW hp \in Heaps, NEW L \in SUBSET Cells, NEW p \in Pools, NEW m,
         m = [heap |-> WithBlocks(hp, f), live |-> L \cup Range(f),
              pool |-> FreshPools(f)[p]]
  PROVE  OneBlock(p, m)
<1> DEFINE c == f[p]
           s == <<c>>
           e == <<>>
<1>1. Sound(p, m, s, e) /\ Range(s) = {c} /\ Range(e) = {}
  BY FreshSound
<1>2. m.heap[c].addr = PoolBase[p] /\ m.heap[c].size = PoolTotal[p]
  <2>1. (CHOOSE q \in Pools : f[q] = c) = p
    OBVIOUS
  <2>2. c \in Cells /\ c \in Range(f)
    BY DEF Range
  <2>3. WithBlocks(hp, f)[c] = NewBlock(PoolBase[p], PoolTotal[p])
    BY <2>1, <2>2 DEF WithBlocks
  <2> QED
    BY <2>3 DEF NewBlock
<1>3. PoolBase[p] \in Nat /\ PoolTotal[p] \in Nat \ {0} /\ m.pool.used_size = 0
  BY PoolNumbers DEF FreshPools
<1> HIDE DEF c, s, e
<1>4. List(m.heap, m.pool.free_list) = s
  BY <1>1, SoundLists
<1>5. FreeOf(m) = Image(m.heap, {c}) /\ UsedOf(m) = Image(m.heap, {})
  BY <1>1, OfLists
<1>6. FreeOf(m) = WholePool(p) /\ UsedOf(m) = {}
  BY <1>2, <1>5 DEF Image, BlockOf, WholePool
<1>7. Parted(m.heap, s)
  BY <1>1, <1>2, <1>3 DEF Parted
<1> QED
  BY <1>3, <1>4, <1>6, <1>7 DEF OneBlock

\* A pool of empty lists has no blocks.
LEMMA NothingBlocks ==
  ASSUME NEW p \in Pools, NEW hp \in Heaps, NEW L \in SUBSET Cells, NEW m,
         m = [heap |-> hp, live |-> L, pool |-> Nothing[p]]
  PROVE  /\ UsedOf(m) = {} /\ m.pool.used_size = 0
         /\ Parted(m.heap, List(m.heap, m.pool.free_list))
<1> DEFINE e == <<>>
<1>1. Sound(p, m, e, e) /\ Range(e) = {}
  BY NothingSound
<1>2. m.pool.used_size = 0
  BY DEF Nothing
<1> HIDE DEF e
<1>3. List(m.heap, m.pool.free_list) = e
  BY <1>1, SoundLists
<1>4. UsedOf(m) = Image(m.heap, {})
  BY <1>1, OfLists
<1> QED
  BY <1>1, <1>2, <1>3, <1>4 DEF Image, Parted

LEMMA InitRefined ==
  ASSUME Init
  PROVE  FreeParted /\ \A p \in Pools : Pool(p)!Init
<1> DEFINE f  == FirstBlocks(Cells)
           hp == [c \in Cells |-> Garbage]
<1>1. up = TRUE /\ heap = WithBlocks(hp, f) /\ live = Range(f) /\ pool = FreshPools(f)
  BY DEF Init
<1>2. hp \in Heaps
  BY DEF Heaps, CellRec, Garbage, NewBlock, Ptr
<1>3. /\ f \in [Pools -> Cells]
      /\ \A p, q \in Pools : f[p] = f[q] => p = q
  BY FirstBlocksApart, ManagerAssumption DEF ManagerAssumption
<1> HIDE DEF f, hp
<1>4. ASSUME NEW p \in Pools PROVE Parted(heap, FreeL(p)) /\ Pool(p)!Init
  <2> DEFINE m == Memory(p)
  <2>1. m = [heap |-> WithBlocks(hp, f), live |-> {} \cup Range(f), pool |-> FreshPools(f)[p]]
    BY <1>1 DEF Memory
  <2>2. m.heap = heap /\ m.pool = pool[p]
    BY DEF Memory
  <2> HIDE DEF m
  <2>3. OneBlock(p, m)
    BY <1>2, <1>3, <2>1, FreshBlocks
  <2>4. FreeBlocks(p) = WholePool(p) /\ UsedBlocks(p) = {} /\ pool[p].used_size = 0
    BY <1>1, <2>2, <2>3, BlocksUp DEF OneBlock, m
  <2>5. Parted(heap, FreeL(p))
    BY <2>2, <2>3 DEF OneBlock, FreeL
  <2> QED
    BY <2>4, <2>5 DEF Pool!Init, WholePool
<1> QED
  BY <1>4 DEF FreeParted

\* A manager that comes up leaves each pool the one free block it was.
LEMMA ManagerInitRefined ==
  ASSUME Inv, ManagerInit
  PROVE  FreeParted' /\ \A q \in Pools : Refined(q)
<1> DEFINE f == FirstBlocks(Cells \ live)
<1>1. /\ up = FALSE /\ up' = TRUE /\ Cardinality(Cells \ live) >= 3
      /\ heap' = WithBlocks(heap, f) /\ live' = live \cup Range(f) /\ pool' = FreshPools(f)
  <2>1. ~ up /\ up' = TRUE /\ up \in BOOLEAN
    BY DEF ManagerInit, Inv
  <2>2. up = FALSE
    BY <2>1
  <2> QED
    BY <2>1, <2>2 DEF ManagerInit
<1>2. heap \in Heaps /\ live \subseteq Cells /\ pool = Nothing
  BY <1>1 DEF Inv, PoolsSound
<1>3. /\ f \in [Pools -> Cells]
      /\ \A p, q \in Pools : f[p] = f[q] => p = q
  <2>1. Cells \ live \in SUBSET Cells
    OBVIOUS
  <2> QED
    BY <1>1, <2>1, FirstBlocksApart
<1> HIDE DEF f
<1>4. ASSUME NEW p \in Pools PROVE Parted(heap', FreeL(p)') /\ Refined(p)
  <2> DEFINE m == Memory(p)'
             d == Memory(p)
  <2>1. m = [heap |-> WithBlocks(heap, f), live |-> live \cup Range(f),
             pool |-> FreshPools(f)[p]]
    BY <1>1 DEF Memory
  <2>2. m.heap = heap' /\ m.pool = pool'[p] /\ d.pool = pool[p]
    BY DEF Memory
  <2>3. d = [heap |-> heap, live |-> live, pool |-> Nothing[p]]
    BY <1>2 DEF Memory
  <2> HIDE DEF m, d
  <2>4. OneBlock(p, m)
    BY <1>2, <1>3, <2>1, FreshBlocks
  <2>5. UsedOf(d) = {} /\ d.pool.used_size = 0
    BY <1>2, <2>3, NothingBlocks
  <2>6. FreeBlocks(p) = WholePool(p) /\ UsedBlocks(p) = {} /\ pool[p].used_size = 0
    BY <1>1, <2>2, <2>5, BlocksUp DEF d
  <2>7. FreeBlocks(p)' = WholePool(p) /\ UsedBlocks(p)' = {} /\ pool'[p].used_size = 0
    BY <1>1, <2>2, <2>4, BlocksUpNext DEF OneBlock, m
  <2>8. Parted(heap', FreeL(p)')
    BY <2>2, <2>4 DEF OneBlock, FreeL
  <2>9. Refined(p)
    BY <2>6, <2>7 DEF Refined
  <2> QED
    BY <2>8, <2>9
<1> QED
  BY <1>4 DEF FreeParted

\* A shutdown drops every block of every pool.
LEMMA ShutdownRefined ==
  ASSUME Inv, Shutdown
  PROVE  FreeParted' /\ \A q \in Pools : Refined(q)
<1>1. /\ up' = FALSE /\ pool' = Nothing /\ live' = live \ OnLists
      /\ heap' = [c \in Cells |-> IF c \in OnLists THEN Garbage ELSE heap[c]]
  BY DEF Shutdown
<1>2. heap' \in Heaps /\ live' \subseteq Cells
  <2>1. Garbage \in CellRec
    BY DEF CellRec, Garbage, NewBlock, Ptr
  <2>2. heap \in Heaps /\ live \subseteq Cells
    BY DEF Inv, PoolsSound
  <2> QED
    BY <1>1, <2>1, <2>2 DEF Heaps
<1>3. ASSUME NEW p \in Pools PROVE Parted(heap', FreeL(p)') /\ Refined(p)
  <2> DEFINE m == Memory(p)'
  <2>1. m = [heap |-> heap', live |-> live', pool |-> Nothing[p]]
    BY <1>1 DEF Memory
  <2>2. m.heap = heap' /\ m.pool = pool'[p]
    BY DEF Memory
  <2> HIDE DEF m
  <2>3. /\ UsedOf(m) = {} /\ m.pool.used_size = 0
        /\ Parted(m.heap, List(m.heap, m.pool.free_list))
    BY <1>2, <2>1, NothingBlocks
  <2>4. FreeBlocks(p)' = WholePool(p) /\ UsedBlocks(p)' = {} /\ pool'[p].used_size = 0
    BY <1>1, <2>2, <2>3, BlocksUpNext DEF m
  <2>5. Parted(heap', FreeL(p)')
    BY <2>2, <2>3 DEF FreeL
  <2>6. Pool(p)!Restart
    BY <2>4 DEF Pool!Restart, WholePool
  <2>7. Refined(p)
    BY <2>6 DEF Refined, Pool!Next
  <2> QED
    BY <2>5, <2>7
<1> QED
  BY <1>3 DEF FreeParted

LEMMA NextRefined ==
  ASSUME Inv, FreeParted, CallocFails = TRUE, [Next]_vars
  PROVE  FreeParted' /\ \A p \in Pools : Refined(p)
<1>1. up \in BOOLEAN
  BY DEF Inv
<1>2. CASE up /\ \E n \in Sizes : Malloc(n) /\ UNCHANGED up
  <2>1. up = TRUE /\ up' = up
    BY <1>1, <1>2
  <2> QED
    BY <1>2, <2>1, MallocRefined
<1>3. CASE up /\ \E h \in handles : Release(h) /\ UNCHANGED up
  <2>1. up = TRUE /\ up' = up
    BY <1>1, <1>3
  <2> QED
    BY <1>3, <2>1, ReleaseRefined
<1>4. CASE Shutdown
  BY <1>4, ShutdownRefined
<1>5. CASE ManagerInit
  BY <1>5, ManagerInitRefined
<1>6. CASE UNCHANGED vars
  <2>1. /\ up' = up /\ heap' = heap /\ live' = live /\ pool' = pool
    BY <1>6 DEF vars
  <2>2. PoolsSound /\ heap \in Heaps /\ live \subseteq Cells
    BY DEF Inv, PoolsSound
  <2>3. /\ heap' \in Heaps /\ live' \subseteq Cells /\ live \subseteq live'
        /\ \A c \in live : heap'[c] = heap[c]
    BY <2>1, <2>2
  <2> QED
    BY <2>1, <2>2, <2>3, StayRefined
<1> QED
  BY <1>2, <1>3, <1>4, <1>5, <1>6 DEF Next

LEMMA IsDevice ==
  /\ Pool("device")!Init => Device!Init
  /\ Refined("device") => [Device!Next]_(Device!vars)
<1>1. Pool("device")!Init => Device!Init
  BY DEF Pool!Init, Device!Init
<1>2. Pool("device")!Next => Device!Next
  BY DEF Pool!Next, Pool!Alloc, Pool!Bounce, Pool!Free, Pool!Restart, Pool!AlignUp,
         Pool!FirstFit, Pool!Splits, Pool!TakePart, Pool!TakeAll, Pool!Before,
         Pool!After, Pool!Merged, Pool!End,
         Device!Next, Device!Alloc, Device!Bounce, Device!Free, Device!Restart,
         Device!AlignUp, Device!FirstFit, Device!Splits, Device!TakePart,
         Device!TakeAll, Device!Before, Device!After, Device!Merged, Device!End
<1> QED
  BY <1>1, <1>2 DEF Refined, Device!vars

LEMMA IsPinned ==
  /\ Pool("pinned")!Init => Pinned!Init
  /\ Refined("pinned") => [Pinned!Next]_(Pinned!vars)
<1>1. Pool("pinned")!Init => Pinned!Init
  BY DEF Pool!Init, Pinned!Init
<1>2. Pool("pinned")!Next => Pinned!Next
  BY DEF Pool!Next, Pool!Alloc, Pool!Bounce, Pool!Free, Pool!Restart, Pool!AlignUp,
         Pool!FirstFit, Pool!Splits, Pool!TakePart, Pool!TakeAll, Pool!Before,
         Pool!After, Pool!Merged, Pool!End,
         Pinned!Next, Pinned!Alloc, Pinned!Bounce, Pinned!Free, Pinned!Restart,
         Pinned!AlignUp, Pinned!FirstFit, Pinned!Splits, Pinned!TakePart,
         Pinned!TakeAll, Pinned!Before, Pinned!After, Pinned!Merged, Pinned!End
<1> QED
  BY <1>1, <1>2 DEF Refined, Pinned!vars

LEMMA IsManaged ==
  /\ Pool("managed")!Init => Managed!Init
  /\ Refined("managed") => [Managed!Next]_(Managed!vars)
<1>1. Pool("managed")!Init => Managed!Init
  BY DEF Pool!Init, Managed!Init
<1>2. Pool("managed")!Next => Managed!Next
  BY DEF Pool!Next, Pool!Alloc, Pool!Bounce, Pool!Free, Pool!Restart, Pool!AlignUp,
         Pool!FirstFit, Pool!Splits, Pool!TakePart, Pool!TakeAll, Pool!Before,
         Pool!After, Pool!Merged, Pool!End,
         Managed!Next, Managed!Alloc, Managed!Bounce, Managed!Free, Managed!Restart,
         Managed!AlignUp, Managed!FirstFit, Managed!Splits, Managed!TakePart,
         Managed!TakeAll, Managed!Before, Managed!After, Managed!Merged, Managed!End
<1> QED
  BY <1>1, <1>2 DEF Refined, Managed!vars

\* The device pool of the manager, its blocks on linked lists that pool_alloc
\* and pool_free cut, splice and merge, is the pool of blocks that PagePool
\* describes: each call allocates, frees or restarts it, or leaves it alone.
THEOREM DeviceIsAPool ==
  ASSUME CallocFails = TRUE
  PROVE  Spec => DevicePool
<1>1. Init => Inv /\ FreeParted /\ Device!Init
  <2>1. "device" \in Pools
    BY DEF Pools
  <2> QED
    BY <2>1, InitInv, InitRefined, IsDevice
<1>2. Inv /\ FreeParted /\ [Next]_vars
        => Inv' /\ FreeParted' /\ [Device!Next]_(Device!vars)
  <2>1. "device" \in Pools
    BY DEF Pools
  <2> QED
    BY <2>1, InvNext, NextRefined, IsDevice
<1> QED
  BY <1>1, <1>2, PTL DEF Spec, DevicePool, Device!Spec

\* The pinned pool is one too, whatever cb_malloc_host and cb_free_host do
\* besides, with buffers and with blocks on no list.
THEOREM PinnedIsAPool ==
  ASSUME CallocFails = TRUE
  PROVE  Spec => PinnedPool
<1>1. Init => Inv /\ FreeParted /\ Pinned!Init
  <2>1. "pinned" \in Pools
    BY DEF Pools
  <2> QED
    BY <2>1, InitInv, InitRefined, IsPinned
<1>2. Inv /\ FreeParted /\ [Next]_vars
        => Inv' /\ FreeParted' /\ [Pinned!Next]_(Pinned!vars)
  <2>1. "pinned" \in Pools
    BY DEF Pools
  <2> QED
    BY <2>1, InvNext, NextRefined, IsPinned
<1> QED
  BY <1>1, <1>2, PTL DEF Spec, PinnedPool, Pinned!Spec

\* And the managed pool, where a block that is taken and given back at once,
\* for want of a host buffer, leaves every block as it was.
THEOREM ManagedIsAPool ==
  ASSUME CallocFails = TRUE
  PROVE  Spec => ManagedPool
<1>1. Init => Inv /\ FreeParted /\ Managed!Init
  <2>1. "managed" \in Pools
    BY DEF Pools
  <2> QED
    BY <2>1, InitInv, InitRefined, IsManaged
<1>2. Inv /\ FreeParted /\ [Next]_vars
        => Inv' /\ FreeParted' /\ [Managed!Next]_(Managed!vars)
  <2>1. "managed" \in Pools
    BY DEF Pools
  <2> QED
    BY <2>1, InvNext, NextRefined, IsManaged
<1> QED
  BY <1>1, <1>2, PTL DEF Spec, ManagedPool, Managed!Spec
=============================================================================
