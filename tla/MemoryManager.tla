---------------------------- MODULE MemoryManager ----------------------------
(***************************************************************************)
(* The GPU memory manager (src/cuda/memory/memory_manager.c): three pools  *)
(* of blocks on doubly linked lists, the host buffers behind pinned and    *)
(* managed memory, and the pointers callers hold.  A block is a cell of    *)
(* the C heap; next and prev are pointers.  The code takes no lock, so its *)
(* calls come one at a time.                                               *)
(***************************************************************************)
EXTENDS Integers, FiniteSets, Sequences, SequencesExt

CONSTANTS
  Cells,       \* cells calloc can hand out: 1..n
  Null,        \* the null pointer
  Hosts,       \* addresses posix_memalign can return
  PoolBase, PoolTotal, PoolPage,  \* by pool: base_addr, total_size, page_size
  Width,       \* 2^w, for a size_t of w bits
  Kinds,       \* the kinds of memory this caller allocates
  Sizes,       \* the sizes it asks for
  CallocFails  \* may calloc return NULL?

Pools == {"device", "pinned", "managed"}

ASSUME ManagerAssumption ==
  /\ Cells \subseteq Nat /\ Null \notin Cells
  \* Initialisation finds memory for the first block of each pool.
  /\ IsFiniteSet(Cells) /\ Cardinality(Cells) >= 3
  /\ Kinds \subseteq Pools /\ CallocFails \in BOOLEAN
  /\ Width \in Nat \ {0} /\ Sizes \subseteq 1 .. (Width - 1)
  /\ PoolBase \in [Pools -> Nat] /\ {PoolTotal, PoolPage} \subseteq [Pools -> Nat \ {0}]
  /\ \A p \in Pools : PoolBase[p] + PoolTotal[p] <= Width
  \* No host address is an address of the device or the managed pool.
  /\ Hosts \subseteq Nat
  /\ \A h \in Hosts, p \in {"device", "managed"} :
       h \notin PoolBase[p] .. (PoolBase[p] + PoolTotal[p] - 1)

VARIABLES
  up,               \* between cb_memory_manager_init and _shutdown?
  heap,             \* the CBMemoryBlock in each cell
  live,             \* cells calloc'd and not freed
  pool,             \* by pool: free_list, used_list, used_size
  buffers,          \* host buffers allocated and not freed
  total_allocated,  \* mgr->total_allocated
  net_count,        \* mgr->alloc_count - mgr->free_count
  handles           \* the pointers callers hold, each with its block

vars == <<up, heap, live, pool, buffers, total_allocated, net_count, handles>>

NewBlock(addr, size) ==
  [addr |-> addr, size |-> size, host |-> Null, flags |-> "none",
   allocated |-> FALSE, managed |-> FALSE, next |-> Null, prev |-> Null]
Garbage == NewBlock(0, 0)

Lowest(S) == CHOOSE x \in S : \A y \in S : x <= y

(***************************************************************************)
(* Lists.                                                                  *)
(***************************************************************************)
SetNext(hp, c, v) == IF c = Null THEN hp ELSE [hp EXCEPT ![c].next = v]
SetPrev(hp, c, v) == IF c = Null THEN hp ELSE [hp EXCEPT ![c].prev = v]

\* The cells a list visits, from c on: all of a list that ends, and one cell
\* too many of one that does not.
List(hp, c) ==
  LET walk[n \in 0 .. Cardinality(Cells) + 1] ==
        [d \in Cells \cup {Null} |->
           IF n = 0 \/ d = Null THEN <<>> ELSE <<d>> \o walk[n - 1][hp[d].next]]
  IN  walk[Cardinality(Cells) + 1][c]

\* The first cell of a list that passes a test, and the one before it.
First(list, Test(_)) ==
  LET i == SelectInSeq(list, Test) IN IF i = 0 THEN Null ELSE list[i]
Previous(list, c) ==
  IF c = Null THEN (IF list = <<>> THEN Null ELSE Last(list))
  ELSE LET i == SelectInSeq(list, LAMBDA x : x = c)
       IN  IF i = 1 THEN Null ELSE list[i - 1]

-----------------------------------------------------------------------------
(***************************************************************************)
(* pool_alloc and pool_free, on the memory a call of one pool works on.    *)
(***************************************************************************)
Memory(p)   == [heap |-> heap, live |-> live, pool |-> pool[p]]
Lists(p, m) == heap' = m.heap /\ live' = m.live /\ pool' = [pool EXCEPT ![p] = m.pool]

FreeList(m) == List(m.heap, m.pool.free_list)

\* ALIGN_UP in w-bit arithmetic.
AlignUp(p, n) ==
  LET up1 == (n + PoolPage[p] - 1) % Width IN up1 - (up1 % PoolPage[p])

\* The block the search of pool_alloc stops at: Null on overflow.
Fit(p, n) ==
  IF AlignUp(p, n) < n THEN Null
  ELSE First(FreeList(Memory(p)), LAMBDA c : heap[c].size >= AlignUp(p, n))

\* Block b keeps need bytes; the spare cell r is the rest, after it on the
\* list.  Mutant: the rest's successor does not point back to it.
CutNoBackLink(m, b, need, r) ==
  [m EXCEPT !.live = @ \cup {r},
            !.heap = [@ EXCEPT ![b].next = r, ![b].size = need, ![r] =
              [NewBlock(m.heap[b].addr + need, m.heap[b].size - need)
                 EXCEPT !.next = m.heap[b].next, !.prev = b]]]
Cut(m, b, need, r) ==
  LET old  == m.heap[b]
      rest == [NewBlock(old.addr + need, old.size - need)
                 EXCEPT !.next = old.next, !.prev = b]
      h1   == [m.heap EXCEPT ![r] = rest, ![b].next = r, ![b].size = need]
  IN  [m EXCEPT !.heap = SetPrev(h1, old.next, r), !.live = @ \cup {r}]

\* Block b goes from the free list to the head of the used list.
Take(m, b, need) ==
  LET prev == Previous(FreeList(m), b)
      next == m.heap[b].next
      head == m.pool.used_list
      h1   == SetPrev(SetNext(m.heap, prev, next), next, prev)
      h2   == [h1 EXCEPT ![b].next = head, ![b].prev = Null, ![b].allocated = TRUE]
  IN  [m EXCEPT
         !.heap = SetPrev(h2, head, b),
         !.pool = [free_list |-> IF prev = Null THEN next ELSE m.pool.free_list,
                   used_list |-> b,
                   used_size |-> (m.pool.used_size + need) % Width]]

\* The outcomes of pool_alloc once its search stopped at b: the rest of b is
\* cut off when it exceeds a page and there is a cell for it.
PoolAlloc(p, b, n) ==
  LET need   == AlignUp(p, n)
      spare  == Cells \ live
      splits == heap[b].size > need + PoolPage[p]
  IN  {Take(Cut(Memory(p), b, need, r), b, need) :
         r \in IF splits /\ spare # {} THEN {Lowest(spare)} ELSE {}}
      \cup {Take(m, b, need) :
              m \in IF splits /\ spare # {} /\ ~CallocFails THEN {} ELSE {Memory(p)}}

\* Block b absorbs the free block after it when they touch.  Mutant: whether
\* or not they do.
TouchAny(hp, b, c) == c # Null /\ ~hp[c].allocated
Touch(hp, b, c) ==
  c # Null /\ ~hp[c].allocated /\ hp[b].addr + hp[b].size = hp[c].addr
\* The absorbed block is freed.  Mutant: it is not.
AbsorbNoFree(m, b) ==
  LET c  == m.heap[b].next
      h1 == [m.heap EXCEPT ![b].size = @ + m.heap[c].size,
                           ![b].next = m.heap[c].next]
  IN  [m EXCEPT !.heap = SetPrev(h1, m.heap[c].next, b)]
Absorb(m, b) ==
  LET c  == m.heap[b].next
      h1 == [m.heap EXCEPT ![b].size = @ + m.heap[c].size,
                           ![b].next = m.heap[c].next]
      h2 == SetPrev(h1, m.heap[c].next, b)
  IN  [m EXCEPT !.heap = [h2 EXCEPT ![c] = Garbage], !.live = @ \ {c}]
MergeNext(m, b) ==
  IF b # Null /\ Touch(m.heap, b, m.heap[b].next) THEN Absorb(m, b) ELSE m

\* The free block that a freed one goes before: the first at its address or
\* above.  Mutant: the head of the list, whatever its address.
FollowingHead(m, b) == m.pool.free_list
Following(m, b) ==
  First(FreeList(m), LAMBDA c : m.heap[c].addr >= m.heap[b].addr)

\* pool_free: off the used list, into the free list by address, then merged
\* with the next block and by the previous one.
PoolFree(m, b) ==
  LET me   == m.heap[b]
      h1   == SetPrev(SetNext(m.heap, me.prev, me.next), me.next, me.prev)
      curr == Following(m, b)
      prev == Previous(FreeList(m), curr)
      h2   == [h1 EXCEPT ![b].allocated = FALSE, ![b].next = curr, ![b].prev = prev]
      h3   == SetPrev(SetNext(h2, prev, b), curr, b)
      m1   == [m EXCEPT
        !.heap = h3,
        !.pool = [free_list |-> IF prev = Null THEN b ELSE m.pool.free_list,
                  used_list |-> IF me.prev = Null THEN me.next
                                                  ELSE m.pool.used_list,
                  used_size |-> (m.pool.used_size - me.size) % Width]]
  IN  IF me.allocated THEN MergeNext(MergeNext(m1, b), prev) ELSE m

-----------------------------------------------------------------------------
(***************************************************************************)
(* cb_find_block: the device pool by GPU address, the pinned pool by host  *)
(* address, the managed pool by either.                                    *)
(***************************************************************************)
\* Mutant: managed memory is looked up by GPU address only.
NamesNotHost(c, p, ptr) ==
  \/ p \in {"device", "managed"} /\ heap[c].addr = ptr
  \/ p = "pinned" /\ heap[c].host = ptr
Names(c, p, ptr) ==
  \/ p \in {"device", "managed"} /\ heap[c].addr = ptr
  \/ p \in {"pinned", "managed"} /\ heap[c].host = ptr

FindIn(p, ptr) ==
  First(List(heap, pool[p].used_list), LAMBDA c : Names(c, p, ptr))
Find(ptr) ==
  IF FindIn("device", ptr) # Null THEN FindIn("device", ptr)
  ELSE IF FindIn("pinned", ptr) # Null THEN FindIn("pinned", ptr)
  ELSE FindIn("managed", ptr)

(***************************************************************************)
(* Allocation.  A request that fails changes nothing.                      *)
(***************************************************************************)
\* Of memory of a kind: pool_alloc, then the fields the caller sets.  The
\* host buffer is on Null for device memory.
Granted(kind, n, host) ==
  LET b == Fit(kind, n) IN
  /\ b # Null
  /\ \E m \in PoolAlloc(kind, b, n) :
       LET cell == [m.heap[b] EXCEPT !.flags = kind,
                      !.host = IF kind = "device" THEN @ ELSE host,
                      !.managed = @ \/ kind = "managed"]
       IN  Lists(kind, [m EXCEPT !.heap = [m.heap EXCEPT ![b] = cell]])
  /\ handles' = handles \cup
       {[kind |-> kind, block |-> b, size |-> n,
         ptr |-> IF kind = "device" THEN heap[b].addr ELSE host]}
  /\ net_count' = net_count + 1

\* Mutant: the size asked for is counted, not the block's.
ChargeRequest(b, n) == total_allocated' = total_allocated + n
Charge(b, n)        == total_allocated' = total_allocated + heap'[b].size

MallocDevice(n) ==
  /\ Granted("device", n, Null)
  /\ Charge(Fit("device", n), n)
  /\ UNCHANGED buffers

MallocManaged(n) ==
  \E host \in Hosts \ buffers :
    /\ host = Lowest(Hosts \ buffers)
    /\ Granted("managed", n, host)
    /\ Charge(Fit("managed", n), n)
    /\ buffers' = buffers \cup {host}

\* Pinned memory is not charged to total_allocated.
MallocPinned(n) ==
  \E host \in Hosts \ buffers :
    /\ host = Lowest(Hosts \ buffers)
    /\ Granted("pinned", n, host)
    /\ buffers' = buffers \cup {host}
    /\ UNCHANGED total_allocated

\* No room in the pinned pool: a block of its own, which no list holds.
MallocUntracked(n) ==
  \E host \in Hosts \ buffers, b \in Cells \ live :
    /\ host = Lowest(Hosts \ buffers) /\ b = Lowest(Cells \ live)
    /\ Fit("pinned", n) = Null
    /\ heap' = [heap EXCEPT ![b] =
                  [NewBlock(host, n) EXCEPT !.host = host, !.flags = "pinned",
                                            !.allocated = TRUE]]
    /\ live' = live \cup {b}
    /\ buffers' = buffers \cup {host}
    /\ handles' = handles \cup
         {[kind |-> "pinned", block |-> b, size |-> n, ptr |-> host]}
    /\ net_count' = net_count + 1
    /\ UNCHANGED <<pool, total_allocated>>

\* posix_memalign fails after the block was taken: the block goes back.
\* Mutant: it does not.
ManagedKeeps(n) ==
  LET b == Fit("managed", n) IN
  /\ Hosts \ buffers = {} /\ b # Null
  /\ \E m \in PoolAlloc("managed", b, n) : Lists("managed", m)
  /\ UNCHANGED <<buffers, total_allocated, net_count, handles>>
ManagedGivesBack(n) ==
  LET b == Fit("managed", n) IN
  /\ Hosts \ buffers = {} /\ b # Null
  /\ \E m \in PoolAlloc("managed", b, n) : Lists("managed", PoolFree(m, b))
  /\ UNCHANGED <<buffers, total_allocated, net_count, handles>>

Malloc(n) ==
  \/ "device" \in Kinds /\ MallocDevice(n)
  \/ "pinned" \in Kinds /\ (MallocPinned(n) \/ MallocUntracked(n))
  \/ "managed" \in Kinds /\ (MallocManaged(n) \/ ManagedGivesBack(n))

(***************************************************************************)
(* Release, by a caller that frees what it holds with the matching call.   *)
(***************************************************************************)
FreeDevice(h) ==
  LET b == Find(h.ptr) IN
  /\ h.kind = "device" /\ b # Null
  /\ Lists("device", PoolFree(Memory("device"), b))
  /\ total_allocated' = total_allocated - heap[b].size
  /\ net_count' = net_count - 1
  /\ handles' = handles \ {h}
  /\ UNCHANGED buffers

FreeManaged(h) ==
  LET b == Find(h.ptr) IN
  /\ h.kind = "managed" /\ b # Null
  /\ Lists("managed", PoolFree(Memory("managed"), b))
  /\ buffers' = buffers \ {heap[b].host}
  /\ total_allocated' = total_allocated - heap[b].size
  /\ net_count' = net_count - 1
  /\ handles' = handles \ {h}

\* A pointer no list knows is not counted; Linux frees its buffer, macOS does
\* not, for want of a size.  Mutant: its block is given to the pinned pool.
FreePinnedAnyway(h) ==
  /\ h.kind = "pinned"
  /\ Lists("pinned", PoolFree(Memory("pinned"), h.block))
  /\ net_count' = net_count - 1
  /\ buffers' = buffers \ {h.ptr}
  /\ handles' = handles \ {h}
  /\ UNCHANGED total_allocated
FreePinned(h) ==
  LET b == Find(h.ptr) IN
  /\ h.kind = "pinned"
  /\ IF b = Null
       THEN UNCHANGED <<heap, live, pool, net_count>>
       ELSE /\ Lists("pinned", PoolFree(Memory("pinned"), b))
            /\ net_count' = net_count - 1
  /\ \/ buffers' = buffers \ {h.ptr}
     \/ b = Null /\ UNCHANGED buffers
  /\ handles' = handles \ {h}
  /\ UNCHANGED total_allocated

Release(h) == FreeDevice(h) \/ FreeManaged(h) \/ FreePinned(h)

(***************************************************************************)
(* cb_memory_manager_init and cb_memory_manager_shutdown.                  *)
(***************************************************************************)
\* The blocks create_block makes for the three pools, in this order.
FirstBlocks(spare) ==
  LET d == Lowest(spare)
      q == Lowest(spare \ {d})
      g == Lowest(spare \ {d, q})
  IN  [device |-> d, pinned |-> q, managed |-> g]
FreshPools(f) ==
  [p \in Pools |-> [free_list |-> f[p], used_list |-> Null, used_size |-> 0]]
WithBlocks(hp, f) ==
  [c \in Cells |->
     IF c \in Range(f) THEN LET p == CHOOSE q \in Pools : f[q] = c
                            IN  NewBlock(PoolBase[p], PoolTotal[p])
                       ELSE hp[c]]
Nothing ==
  [p \in Pools |-> [free_list |-> Null, used_list |-> Null, used_size |-> 0]]

Init ==
  LET f == FirstBlocks(Cells) IN
  /\ up = TRUE
  /\ heap = WithBlocks([c \in Cells |-> Garbage], f)
  /\ live = Range(f) /\ pool = FreshPools(f)
  /\ buffers = {} /\ handles = {}
  /\ total_allocated = 0 /\ net_count = 0

\* An initialisation that runs out of memory gives back what it took.
ManagerInit ==
  /\ ~up /\ Cardinality(Cells \ live) >= 3
  /\ LET f == FirstBlocks(Cells \ live) IN
       /\ heap' = WithBlocks(heap, f)
       /\ live' = live \cup Range(f) /\ pool' = FreshPools(f)
  /\ up' = TRUE
  /\ UNCHANGED <<buffers, handles, total_allocated, net_count>>

\* pool_shutdown frees every block on both lists of every pool.
OnLists ==
  UNION {Range(List(heap, pool[p].free_list) \o List(heap, pool[p].used_list))
           : p \in Pools}

\* Pointers still held are void; the host buffers behind them are not freed.
Shutdown ==
  /\ up
  /\ up' = FALSE
  /\ heap' = [c \in Cells |-> IF c \in OnLists THEN Garbage ELSE heap[c]]
  /\ live' = live \ OnLists
  /\ pool' = Nothing
  /\ total_allocated' = 0 /\ net_count' = 0
  /\ handles' = {}
  /\ UNCHANGED buffers

Next ==
  \/ up /\ \E n \in Sizes : Malloc(n) /\ UNCHANGED up
  \/ up /\ \E h \in handles : Release(h) /\ UNCHANGED up
  \/ Shutdown \/ ManagerInit

Spec == Init /\ [][Next]_vars

(***************************************************************************)
(* Properties.                                                             *)
(***************************************************************************)
TypeOK ==
  /\ up \in BOOLEAN
  /\ live \subseteq Cells /\ buffers \subseteq Hosts
  /\ \A c \in Cells : heap[c].next \in Cells \cup {Null}
                      /\ heap[c].prev \in Cells \cup {Null}
  /\ \A p \in Pools : pool[p].used_size \in 0..(Width - 1)
  /\ total_allocated \in Int /\ net_count \in Int
  /\ \A h \in handles : h.kind \in Kinds /\ h.block \in Cells /\ h.size \in Sizes

\* The lists are what both directions of traversal assume: a list ends, each
\* block points back to the one before it, every block on it is allocated
\* memory of the C heap in the right state, and no block is on two lists.
GoodList(head, inUse) ==
  LET list == List(heap, head) IN
  /\ Len(list) <= Cardinality(Cells)
  /\ \A i \in 1..Len(list) :
       /\ list[i] \in live
       /\ heap[list[i]].allocated = inUse
       /\ heap[list[i]].prev = IF i = 1 THEN Null ELSE list[i - 1]
Heads == {<<p, f>> : p \in Pools, f \in {"free_list", "used_list"}}
ListsSound ==
  /\ TypeOK
  /\ \A x \in Heads : GoodList(pool[x[1]][x[2]], x[2] = "used_list")
  /\ \A x, y \in Heads : x # y =>
       Range(List(heap, pool[x[1]][x[2]])) \cap Range(List(heap, pool[y[1]][y[2]]))
         = {}

\* No block is lost: every block that was allocated is on a list, whatever
\* was split and merged (pool_alloc and pool_free make and free the blocks).
NoBlockLost == live = OnLists

\* Only what a caller holds is in use: a request that fails half way, its
\* block taken and no host buffer to be had, keeps nothing.
NothingKept ==
  \A p \in Pools :
    Range(List(heap, pool[p].used_list)) \subseteq {h.block : h \in handles}

\* A pointer leads back to the block it was given, and that block still is
\* what the caller asked for: memory of the kind, the size and the host
\* buffer of the call that returned the pointer.
LeadsBack(h) ==
  LET b == heap[h.block] IN
  /\ Find(h.ptr) = h.block
  /\ b.allocated /\ b.flags = h.kind /\ b.size >= h.size
  /\ b.managed <=> h.kind = "managed"
  /\ h.kind # "device" => b.host = h.ptr /\ b.host \in buffers

\* cb_find_block finds for each pointer its own block in whichever pool it
\* is, and never another's when it is in none.
PooledPointersFound ==
  \A h \in handles :
    IF h.block \in OnLists THEN LeadsBack(h) ELSE Find(h.ptr) = Null

\* The manager knows every pointer it handed out.  (It does not: cb_malloc_host
\* puts a block made when the pool has no room on no list.)
PointersFound == \A h \in handles : LeadsBack(h)

\* The statistics are those of the pointers held.
CountsExact ==
  /\ net_count = Cardinality(handles)
  /\ total_allocated =
       FoldSet(LAMBDA h, n : n + heap[h.block].size, 0,
               {h \in handles : h.kind # "pinned"})

\* Each pool of lists is a pool of blocks that PagePool describes.
BlocksOf(head) ==
  {[addr |-> heap[c].addr, size |-> heap[c].size] : c \in Range(List(heap, head))}
FreeBlocks(p) ==
  IF up THEN BlocksOf(pool[p].free_list)
        ELSE {[addr |-> PoolBase[p], size |-> PoolTotal[p]]}
UsedBlocks(p) == BlocksOf(pool[p].used_list)

Device == INSTANCE PagePool WITH
  Base <- PoolBase["device"], Total <- PoolTotal["device"], Page <- PoolPage["device"],
  free <- FreeBlocks("device"), used <- UsedBlocks("device"), used_size <- pool["device"].used_size
Pinned == INSTANCE PagePool WITH
  Base <- PoolBase["pinned"], Total <- PoolTotal["pinned"], Page <- PoolPage["pinned"],
  free <- FreeBlocks("pinned"), used <- UsedBlocks("pinned"), used_size <- pool["pinned"].used_size
Managed == INSTANCE PagePool WITH
  Base <- PoolBase["managed"], Total <- PoolTotal["managed"], Page <- PoolPage["managed"],
  free <- FreeBlocks("managed"), used <- UsedBlocks("managed"), used_size <- pool["managed"].used_size
DevicePool  == Device!Spec
PinnedPool  == Pinned!Spec
ManagedPool == Managed!Spec
=============================================================================
