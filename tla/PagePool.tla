------------------------------ MODULE PagePool ------------------------------
(***************************************************************************)
(* One address pool of the memory manager                                  *)
(* (src/cuda/memory/memory_manager.c): first fit over the free blocks in   *)
(* address order, sizes rounded up to the page, neighbours merged when a   *)
(* block is freed.  Blocks are values here; MemoryManager has the linked   *)
(* lists that represent them.                                              *)
(***************************************************************************)
EXTENDS Integers, FiniteSets

CONSTANTS
  Base,        \* pool->base_addr
  Total,       \* pool->total_size
  Page,        \* pool->page_size
  Width,       \* 2^w, for a size_t of w bits
  Sizes,       \* the sizes asked for
  CallocFails  \* may create_block return NULL?

ASSUME PoolAssumption ==
  /\ Base \in Nat
  /\ {Total, Page, Width} \subseteq Nat \ {0}
  /\ Base + Total <= Width
  /\ Sizes \subseteq 1..(Width - 1)
  /\ CallocFails \in BOOLEAN

VARIABLES
  free,      \* the blocks of pool->free_list
  used,      \* the blocks of pool->used_list
  used_size  \* pool->used_size

vars == <<free, used, used_size>>

Block  == [addr : Nat, size : Nat \ {0}]
End(b) == b.addr + b.size
Span(b) == b.addr .. (End(b) - 1)

\* ALIGN_UP in w-bit arithmetic.
AlignUp(n) ==
  LET up == (n + Page - 1) % Width IN up - (up % Page)

Init ==
  /\ free = {[addr |-> Base, size |-> Total]}
  /\ used = {}
  /\ used_size = 0

\* b is the first block that fits.
FirstFit(b, need) ==
  /\ b.size >= need
  /\ \A c \in free : c.size >= need => b.addr <= c.addr

\* A rest of one page or less is given away with the block.  Mutant: any rest
\* is split off, an empty one too.
SplitsAlways(b, need) == b.size >= need
Splits(b, need) == b.size > need + Page

TakeAll(b) ==
  /\ free' = free \ {b}
  /\ used' = used \cup {b}

\* Mutant: the rest starts at the block itself.
TakePartOverlap(b, need) ==
  /\ free' = (free \ {b}) \cup {[addr |-> b.addr, size |-> b.size - need]}
  /\ used' = used \cup {[addr |-> b.addr, size |-> need]}
TakePart(b, need) ==
  /\ free' = (free \ {b}) \cup {[addr |-> b.addr + need, size |-> b.size - need]}
  /\ used' = used \cup {[addr |-> b.addr, size |-> need]}

\* The size charged is the size asked for, rounded up, whatever was taken.
Alloc(n) ==
  /\ AlignUp(n) >= n
  /\ \E b \in free :
       /\ FirstFit(b, AlignUp(n))
       /\ \/ Splits(b, AlignUp(n)) /\ TakePart(b, AlignUp(n))
          \/ (Splits(b, AlignUp(n)) => CallocFails) /\ TakeAll(b)
  /\ used_size' = (used_size + AlignUp(n)) % Width

\* The free neighbours of a block that returns, and the block they make.
Before(b) == {f \in free : End(f) = b.addr}
\* Mutant: only the previous neighbour is merged.
AfterNone(b) == {}
After(b)  == {f \in free : f.addr = End(b)}
Merged(b) ==
  LET lo == IF Before(b) = {} THEN b.addr ELSE (CHOOSE f \in Before(b) : TRUE).addr
      hi == IF After(b) = {} THEN End(b) ELSE End(CHOOSE f \in After(b) : TRUE)
  IN  [addr |-> lo, size |-> hi - lo]

Free(b) ==
  /\ b \in used
  /\ used' = used \ {b}
  /\ free' = (free \ (Before(b) \cup After(b))) \cup {Merged(b)}
  /\ used_size' = (used_size - b.size) % Width

\* An allocation that cb_malloc_managed gives back at once, for want of a host
\* buffer: the blocks are as before, the size in use need not be.
Bounce(n) ==
  /\ AlignUp(n) >= n
  /\ \E b \in free :
       /\ FirstFit(b, AlignUp(n))
       /\ \/ Splits(b, AlignUp(n)) /\ UNCHANGED used_size
          \/ /\ Splits(b, AlignUp(n)) => CallocFails
             /\ used_size' = (used_size + AlignUp(n) - b.size) % Width
  /\ UNCHANGED <<free, used>>

\* pool_shutdown drops every block, used or not; pool_init starts again.
Restart ==
  /\ free' = {[addr |-> Base, size |-> Total]}
  /\ used' = {}
  /\ used_size' = 0

Next ==
  \/ \E n \in Sizes : Alloc(n) \/ Bounce(n)
  \/ \E b \in used : Free(b)
  \/ Restart

Spec == Init /\ [][Next]_vars

-----------------------------------------------------------------------------
Blocks == free \cup used

TypeOK ==
  /\ free \subseteq Block /\ used \subseteq Block
  /\ used_size \in 0..(Width - 1)

\* The free and the used blocks divide the pool's addresses among them: no
\* address is in two blocks, none is lost, none is outside (the splits of
\* pool_alloc and the merges of pool_free).
Partition ==
  /\ free \cap used = {}
  /\ \A b \in Blocks : Base <= b.addr /\ End(b) <= Base + Total
  /\ \A a, b \in Blocks : a = b \/ End(a) <= b.addr \/ End(b) <= a.addr
  /\ \A x \in Base .. (Base + Total - 1) : \E b \in Blocks : x \in Span(b)

\* No two free blocks touch: memory that was freed is again available to a
\* request of its whole size ("block coalescing").
Coalesced == \A a, b \in free : End(a) # b.addr

\* When everything is freed, whatever was allocated before and in whatever
\* order it came back, the pool is again one block.
EmptyIsWhole == used = {} => free = {[addr |-> Base, size |-> Total]}

\* pool_alloc finds no block only if no run of unused addresses would hold
\* the request: searching block by block loses nothing.
FailsOnlyWhenFull ==
  \A n \in Sizes : LET need == AlignUp(n) IN
    need >= n /\ (\A b \in free : b.size < need) =>
      \A x \in Base .. (Base + Total - need) :
        \E y \in x .. (x + need - 1) : \E b \in used : y \in Span(b)

\* used_size is the size in use: cb_mem_get_info reports the rest as free.
\* (It is not: a block that keeps a rest of one page is charged without it.)
SizeOf(S) == Cardinality(UNION {Span(b) : b \in S})
UsedSizeExact == used_size = SizeOf(used) % Width
=============================================================================
