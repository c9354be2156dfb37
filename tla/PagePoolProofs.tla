--------------------------- MODULE PagePoolProofs ---------------------------
(***************************************************************************)
(* Theorems about PagePool, for a pool of any size, any page and any       *)
(* requests.                                                               *)
(***************************************************************************)
EXTENDS PagePool, TLAPS

\* The size a request is rounded up to is an integer, and positive when it
\* did not overflow.
LEMMA AlignType ==
  ASSUME NEW n \in Sizes, AlignUp(n) >= n
  PROVE  AlignUp(n) \in Nat \ {0}
<1>1. n \in Nat \ {0} /\ Page \in Nat \ {0} /\ Width \in Nat \ {0}
  BY PoolAssumption DEF PoolAssumption
<1>2. (n + Page - 1) % Width \in Int
  BY <1>1
<1>3. AlignUp(n) \in Int
  BY <1>1, <1>2 DEF AlignUp
<1> QED
  BY <1>1, <1>3

\* One free block, as after pool_init.
LEMMA InitPool == Init => TypeOK /\ Partition /\ Coalesced
<1> SUFFICES ASSUME Init PROVE TypeOK /\ Partition /\ Coalesced
  OBVIOUS
<1> USE PoolAssumption DEF PoolAssumption, Init
<1>1. TypeOK
  BY DEF TypeOK, Block
<1>2. Partition
  BY DEF Partition, Blocks, End, Span
<1>3. Coalesced
  BY DEF Coalesced, End
<1> QED
  BY <1>1, <1>2, <1>3

\* An allocation.
LEMMA AllocInv ==
  ASSUME TypeOK, Partition, Coalesced, NEW n \in Sizes, Alloc(n)
  PROVE  TypeOK' /\ Partition' /\ Coalesced'
<1> DEFINE need == AlignUp(n)
<1>1. need \in Nat \ {0}
  BY AlignType DEF Alloc
<1>2. PICK b \in free :
         /\ FirstFit(b, need)
         /\ \/ Splits(b, need) /\ TakePart(b, need)
            \/ TakeAll(b)
  BY DEF Alloc
<1>3. used_size' \in 0..(Width - 1)
  BY <1>1, PoolAssumption DEF Alloc, PoolAssumption, TypeOK
<1> HIDE DEF need
<1>4. b \in Block /\ b \notin used /\ b.addr \in Nat /\ b.size \in Nat \ {0}
  BY DEF TypeOK, Partition, Block
<1>5. CASE TakeAll(b)
  <2>1. TypeOK'
    BY <1>3, <1>4, <1>5 DEF TakeAll, TypeOK
  <2>2. Blocks' = Blocks
    BY <1>5 DEF TakeAll, Blocks
  <2>3. Partition'
    BY <1>4, <1>5, <2>2 DEF TakeAll, Partition, Span, End
  <2>4. Coalesced'
    BY <1>5 DEF TakeAll, Coalesced, End
  <2> QED
    BY <2>1, <2>3, <2>4
<1>6. CASE Splits(b, need) /\ TakePart(b, need)
  <2> DEFINE head == [addr |-> b.addr, size |-> need]
             rest == [addr |-> b.addr + need, size |-> b.size - need]
  <2>1. /\ head \in Block /\ rest \in Block
        /\ head.addr = b.addr /\ End(head) = b.addr + need
        /\ rest.addr = b.addr + need /\ End(rest) = End(b)
        /\ b.addr < b.addr + need /\ b.addr + need < End(b)
    BY <1>1, <1>4, <1>6, PoolAssumption
       DEF Splits, Block, End, PoolAssumption
  <2>2. free' = (free \ {b}) \cup {rest} /\ used' = used \cup {head}
    BY <1>6 DEF TakePart
  <2> HIDE DEF head, rest
  <2>3. TypeOK'
    BY <1>3, <2>1, <2>2 DEF TypeOK
  <2>4. \A c \in Blocks : c \in Block /\ c.addr \in Nat /\ c.size \in Nat \ {0}
    BY DEF TypeOK, Blocks, Block
  <2>5. Blocks' = (Blocks \ {b}) \cup {head, rest}
    BY <1>4, <2>2 DEF Blocks
  <2>6. \A c \in Blocks \ {b} : End(c) <= b.addr \/ End(b) <= c.addr
    BY DEF Partition, Blocks
  <2>7. free' \cap used' = {}
    BY <1>4, <2>1, <2>2, <2>4, <2>6 DEF Partition, Blocks, End
  <2>8. \A c \in Blocks' : Base <= c.addr /\ End(c) <= Base + Total
    <3>1. /\ Base \in Nat /\ Total \in Nat /\ End(b) \in Nat
          /\ Base <= b.addr /\ End(b) <= Base + Total
      BY <1>4, PoolAssumption DEF PoolAssumption, Partition, Blocks, End
    <3>2. /\ Base <= head.addr /\ End(head) <= Base + Total
          /\ Base <= rest.addr /\ End(rest) <= Base + Total
      BY <1>1, <1>4, <2>1, <3>1
    <3> QED
      BY <2>5, <3>2 DEF Partition
  <2>9. \A c, d \in Blocks' : c = d \/ End(c) <= d.addr \/ End(d) <= c.addr
    BY <1>1, <1>4, <2>1, <2>4, <2>5, <2>6 DEF Partition, End
  <2>10. \A x \in Base .. (Base + Total - 1) : \E c \in Blocks' : x \in Span(c)
    BY <1>1, <1>4, <2>1, <2>5 DEF Partition, Blocks, Span, End
  <2>11. Coalesced'
    BY <1>1, <1>4, <2>1, <2>2, <2>4, <2>6 DEF Coalesced, Partition, Blocks, End
  <2> QED
    BY <2>3, <2>7, <2>8, <2>9, <2>10, <2>11 DEF Partition, Blocks
<1> QED
  BY <1>2, <1>5, <1>6

\* A block that returns has at most one free neighbour on each side, and the
\* merged block covers it and them exactly.
LEMMA FreeNeighbours ==
  ASSUME TypeOK, Partition, Coalesced, NEW b \in used
  PROVE  /\ Merged(b) \in Block
         /\ Merged(b).addr <= b.addr /\ End(b) <= End(Merged(b))
         /\ \A f \in Before(b) : f.addr = Merged(b).addr
         /\ \A f \in After(b) : End(f) = End(Merged(b))
         /\ Before(b) = {} => Merged(b).addr = b.addr
         /\ After(b) = {} => End(Merged(b)) = End(b)
<1>1. /\ b \in Block /\ b.addr \in Nat /\ b.size \in Nat \ {0}
      /\ \A f \in free : f \in Block /\ f.addr \in Nat /\ f.size \in Nat \ {0}
  BY DEF TypeOK, Block
<1> DEFINE lo == IF Before(b) = {} THEN b.addr
                 ELSE (CHOOSE f \in Before(b) : TRUE).addr
           hi == IF After(b) = {} THEN End(b)
                 ELSE End(CHOOSE f \in After(b) : TRUE)
<1>2. /\ lo \in Nat /\ lo <= b.addr
      /\ \A f \in Before(b) : f.addr = lo
      /\ Before(b) = {} => lo = b.addr
  <2>1. \A f, g \in Before(b) : f = g
    BY <1>1 DEF Before, Partition, Blocks, End
  <2>2. CASE Before(b) = {}
    BY <1>1, <2>2
  <2>3. CASE Before(b) # {}
    <3>1. (CHOOSE f \in Before(b) : TRUE) \in Before(b)
      BY <2>3
    <3> QED
      BY <1>1, <2>1, <2>3, <3>1 DEF Before, End
  <2> QED
    BY <2>2, <2>3
<1>3. /\ hi \in Nat /\ End(b) <= hi
      /\ \A f \in After(b) : End(f) = hi
      /\ After(b) = {} => hi = End(b)
  <2>1. \A f, g \in After(b) : f = g
    BY <1>1 DEF After, Partition, Blocks, End
  <2>2. CASE After(b) = {}
    BY <1>1, <2>2 DEF End
  <2>3. CASE After(b) # {}
    <3>1. (CHOOSE f \in After(b) : TRUE) \in After(b)
      BY <2>3
    <3> QED
      BY <1>1, <2>1, <2>3, <3>1 DEF After, End
  <2> QED
    BY <2>2, <2>3
<1>4. Merged(b) = [addr |-> lo, size |-> hi - lo]
  BY DEF Merged
<1> HIDE DEF lo, hi
<1>5. hi - lo \in Nat \ {0}
  BY <1>1, <1>2, <1>3 DEF End
<1>6. Merged(b).addr = lo /\ End(Merged(b)) = hi
  BY <1>2, <1>3, <1>4, <1>5 DEF End
<1> QED
  BY <1>2, <1>3, <1>4, <1>5, <1>6 DEF Block

\* A release.
LEMMA FreeInv ==
  ASSUME TypeOK, Partition, Coalesced, NEW b \in used, Free(b)
  PROVE  TypeOK' /\ Partition' /\ Coalesced'
<1> DEFINE m == Merged(b)
           gone == {b} \cup Before(b) \cup After(b)
<1>1. /\ m \in Block /\ m.addr \in Nat /\ End(m) \in Nat
      /\ m.addr <= b.addr /\ End(b) <= End(m) /\ m.addr < End(m)
      /\ \A f \in Before(b) : f.addr = m.addr
      /\ \A f \in After(b) : End(f) = End(m)
      /\ Before(b) = {} => m.addr = b.addr
      /\ After(b) = {} => End(m) = End(b)
  BY FreeNeighbours DEF Block, End
<1>2. /\ free' = (free \ (Before(b) \cup After(b))) \cup {m}
      /\ used' = used \ {b}
  BY DEF Free
<1> HIDE DEF m
<1>3. \A c \in Blocks : /\ c \in Block /\ c.addr \in Nat /\ End(c) \in Nat
                        /\ c.addr < End(c)
  BY DEF TypeOK, Blocks, Block, End
<1>4. b \in Blocks /\ gone \subseteq Blocks /\ b \notin free
  BY DEF Blocks, Before, After, Partition
<1>5. \A c \in Blocks \ gone : End(c) <= m.addr \/ End(m) <= c.addr
  <2> SUFFICES ASSUME NEW c \in Blocks \ gone
               PROVE  End(c) <= m.addr \/ End(m) <= c.addr
    OBVIOUS
  <2>1. \A d \in gone : End(c) <= d.addr \/ End(d) <= c.addr
    BY <1>4 DEF Partition
  <2>2. \A f \in Before(b) : f \in gone /\ End(f) = b.addr /\ f \in Blocks
    BY DEF Before, Blocks
  <2>3. \A f \in After(b) : f \in gone /\ f.addr = End(b) /\ f \in Blocks
    BY DEF After, Blocks
  <2>4. End(c) <= b.addr \/ End(b) <= c.addr
    BY <2>1
  <2>5. CASE End(c) <= b.addr
    <3>1. CASE Before(b) = {}
      BY <1>1, <2>5, <3>1
    <3>2. ASSUME NEW f \in Before(b)
          PROVE  End(c) <= m.addr
      BY <1>1, <1>3, <2>1, <2>2, <2>5
    <3> QED
      BY <3>1, <3>2
  <2>6. CASE End(b) <= c.addr
    <3>1. CASE After(b) = {}
      BY <1>1, <2>6, <3>1
    <3>2. ASSUME NEW f \in After(b)
          PROVE  End(m) <= c.addr
      BY <1>1, <1>3, <2>1, <2>3, <2>6
    <3> QED
      BY <3>1, <3>2
  <2> QED
    BY <2>4, <2>5, <2>6
<1>6. Blocks' = (Blocks \ gone) \cup {m}
  <2>1. \A c \in used : c \notin Before(b) /\ c \notin After(b)
    BY DEF Before, After, Partition
  <2> QED
    BY <1>2, <1>4, <2>1 DEF Blocks
<1>7. TypeOK'
  <2>1. used_size' \in 0..(Width - 1)
    BY <1>3, <1>4, PoolAssumption DEF Free, TypeOK, PoolAssumption, Block
  <2> QED
    BY <1>1, <1>2, <2>1 DEF TypeOK
<1>8. free' \cap used' = {}
  <2>1. m \notin used'
    BY <1>1, <1>2, <1>3, <1>5 DEF Blocks, Before, After, Partition
  <2> QED
    BY <1>2, <2>1 DEF Partition
<1>9. \A c \in Blocks' : Base <= c.addr /\ End(c) <= Base + Total
  <2>1. \A c \in Blocks : Base <= c.addr /\ End(c) <= Base + Total
    BY DEF Partition
  <2>2. Base <= m.addr
    BY <1>1, <1>4, <2>1
  <2>3. End(m) <= Base + Total
    BY <1>1, <1>4, <2>1
  <2> QED
    BY <1>6, <2>1, <2>2, <2>3
<1>10. \A c, d \in Blocks' : c = d \/ End(c) <= d.addr \/ End(d) <= c.addr
  BY <1>5, <1>6 DEF Partition
<1>11. \A x \in Base .. (Base + Total - 1) : \E c \in Blocks' : x \in Span(c)
  <2> SUFFICES ASSUME NEW x \in Base .. (Base + Total - 1)
               PROVE  \E c \in Blocks' : x \in Span(c)
    OBVIOUS
  <2>1. PICK c \in Blocks : x \in Span(c)
    BY DEF Partition
  <2>2. CASE c \in gone
    <3>1. m.addr <= c.addr /\ End(c) <= End(m)
      BY <1>1, <1>3, <1>4, <2>2 DEF Before, After
    <3>2. x \in Span(m)
      BY <1>1, <1>3, <2>1, <3>1, PoolAssumption DEF Span, PoolAssumption
    <3> QED
      BY <1>6, <3>2
  <2>3. CASE c \notin gone
    BY <1>6, <2>1, <2>3
  <2> QED
    BY <2>2, <2>3
<1>12. Coalesced'
  <2> SUFFICES ASSUME NEW c \in free', NEW d \in free' PROVE End(c) # d.addr
    BY DEF Coalesced, End
  <2>1. CASE c # m /\ d # m
    BY <1>2, <2>1 DEF Coalesced
  <2>2. CASE c = m /\ d = m
    BY <1>1, <2>2
  <2>3. CASE c = m /\ d # m
    <3>1. d \in free \ (Before(b) \cup After(b)) /\ d \in Blocks
      BY <1>2, <2>3 DEF Blocks
    <3>2. CASE After(b) = {}
      BY <1>1, <2>3, <3>1, <3>2 DEF After
    <3>3. ASSUME NEW f \in After(b) PROVE End(m) # d.addr
      BY <1>1, <3>1 DEF After, Coalesced
    <3> QED
      BY <2>3, <3>2, <3>3
  <2>4. CASE c # m /\ d = m
    <3>1. c \in free \ (Before(b) \cup After(b)) /\ c \in Blocks
      BY <1>2, <2>4 DEF Blocks
    <3>2. CASE Before(b) = {}
      BY <1>1, <2>4, <3>1, <3>2 DEF Before
    <3>3. ASSUME NEW f \in Before(b) PROVE End(c) # m.addr
      BY <1>1, <3>1 DEF Before, Coalesced
    <3> QED
      BY <2>4, <3>2, <3>3
  <2> QED
    BY <2>1, <2>2, <2>3, <2>4
<1> QED
  BY <1>7, <1>8, <1>9, <1>10, <1>11, <1>12 DEF Partition, Blocks

LEMMA PoolInv == Spec => [](TypeOK /\ Partition /\ Coalesced)
<1>1. TypeOK /\ Partition /\ Coalesced /\ [Next]_vars
        => TypeOK' /\ Partition' /\ Coalesced'
  <2> SUFFICES ASSUME TypeOK, Partition, Coalesced, [Next]_vars
               PROVE  TypeOK' /\ Partition' /\ Coalesced'
    OBVIOUS
  <2>1. ASSUME NEW n \in Sizes, Alloc(n)
        PROVE  TypeOK' /\ Partition' /\ Coalesced'
    BY <2>1, AllocInv
  <2>2. ASSUME NEW b \in used, Free(b)
        PROVE  TypeOK' /\ Partition' /\ Coalesced'
    BY <2>2, FreeInv
  <2>3. CASE Restart
    <3>1. TypeOK'
      BY <2>3, PoolAssumption DEF Restart, TypeOK, Block, PoolAssumption
    <3>2. Partition'
      BY <2>3, PoolAssumption
         DEF Restart, Partition, Blocks, Span, End, PoolAssumption
    <3>3. Coalesced'
      BY <2>3, PoolAssumption DEF Restart, Coalesced, End, PoolAssumption
    <3> QED
      BY <3>1, <3>2, <3>3
  <2>4. ASSUME NEW n \in Sizes, Bounce(n)
        PROVE  TypeOK' /\ Partition' /\ Coalesced'
    <3>1. AlignUp(n) \in Nat \ {0}
      BY <2>4, AlignType DEF Bounce
    <3>2. TypeOK'
      BY <2>4, <3>1, PoolAssumption DEF Bounce, TypeOK, Block, PoolAssumption
    <3>3. Partition' /\ Coalesced'
      BY <2>4 DEF Bounce, Partition, Coalesced, Blocks, Span, End
    <3> QED
      BY <3>2, <3>3
  <2>5. CASE UNCHANGED vars
    BY <2>5 DEF vars, TypeOK, Partition, Coalesced, Blocks, Span, End
  <2> QED
    BY <2>1, <2>2, <2>3, <2>4, <2>5 DEF Next
<1> QED
  BY InitPool, <1>1, PTL DEF Spec

\* Blocks keep an address and a size of at least one byte, and the account
\* stays within its word, although it is charged the request and credited
\* the block.
THEOREM PoolTypes == Spec => []TypeOK
BY PoolInv, PTL

\* The blocks always divide the pool's addresses: pool_alloc never hands out
\* an address twice, and splits and merges lose none.
THEOREM PoolPartition == Spec => []Partition
BY PoolInv, PTL

\* Free neighbours are always merged, in whatever order blocks come back.
THEOREM PoolCoalesced == Spec => []Coalesced
BY PoolInv, PTL

\* A pool whose blocks are all back is the one block pool_init made: there
\* is no fragmentation that outlives the allocations.
THEOREM PoolEmptyIsWhole == Spec => []EmptyIsWhole
<1>1. TypeOK /\ Partition /\ Coalesced => EmptyIsWhole
  <2> SUFFICES ASSUME TypeOK, Partition, Coalesced, used = {}
               PROVE  free = {[addr |-> Base, size |-> Total]}
    BY DEF EmptyIsWhole
  <2>1. Base \in Nat /\ Total \in Nat \ {0}
    BY PoolAssumption DEF PoolAssumption
  <2>2. \A c \in free : c \in Block /\ c.addr \in Nat /\ c.size \in Nat \ {0}
                        /\ Base <= c.addr /\ c.addr + c.size <= Base + Total
    BY DEF TypeOK, Block, Partition, Blocks, End
  <2>3. \A x \in Base .. (Base + Total - 1) :
          \E c \in free : c.addr <= x /\ x < c.addr + c.size
    BY <2>1, <2>2 DEF Partition, Blocks, Span, End
  <2>4. PICK b \in free : b.addr <= Base /\ Base < b.addr + b.size
    BY <2>1, <2>3
  <2>5. b.addr = Base
    BY <2>1, <2>2, <2>4
  <2>6. b.addr + b.size = Base + Total
    <3> SUFFICES ASSUME b.addr + b.size # Base + Total PROVE FALSE
      OBVIOUS
    <3>1. b.addr + b.size \in Base .. (Base + Total - 1)
      BY <2>1, <2>2, <2>5
    <3>2. PICK c \in free : c.addr <= b.addr + b.size
                            /\ b.addr + b.size < c.addr + c.size
      BY <2>3, <3>1
    <3>3. c.addr = b.addr + b.size
      BY <2>2, <3>2 DEF Partition, Blocks, End
    <3> QED
      BY <3>3 DEF Coalesced, End
  <2>7. b = [addr |-> Base, size |-> Total]
    BY <2>1, <2>2, <2>5, <2>6 DEF Block
  <2>8. \A c \in free : c = b
    BY <2>1, <2>2, <2>5, <2>6 DEF Partition, Blocks, End
  <2> QED
    BY <2>7, <2>8
<1> QED
  BY PoolInv, <1>1, PTL

\* pool_alloc refuses a request only when no run of unused addresses is long
\* enough for it.
THEOREM PoolFailsOnlyWhenFull == Spec => []FailsOnlyWhenFull
<1>1. TypeOK /\ Partition /\ Coalesced => FailsOnlyWhenFull
  <2> SUFFICES ASSUME TypeOK, Partition, Coalesced, NEW n \in Sizes,
                      AlignUp(n) >= n, \A b \in free : b.size < AlignUp(n),
                      NEW x \in Base .. (Base + Total - AlignUp(n))
               PROVE  \E y \in x .. (x + AlignUp(n) - 1) :
                        \E b \in used : y \in Span(b)
    BY DEF FailsOnlyWhenFull
  <2> DEFINE need == AlignUp(n)
  <2>1. need \in Nat \ {0}
    BY AlignType
  <2>2. \A b \in free : b.size < need
    OBVIOUS
  <2>3. x \in Base .. (Base + Total - need)
    OBVIOUS
  <2> HIDE DEF need
  <2>4. Base \in Nat /\ Total \in Nat \ {0} /\ x \in Nat
    BY <2>1, <2>3, PoolAssumption DEF PoolAssumption
  <2>5. \A c \in Blocks : c.addr \in Nat /\ c.size \in Nat \ {0}
    BY DEF TypeOK, Block, Blocks
  <2>6. \A z \in Base .. (Base + Total - 1) :
          \E c \in Blocks : c.addr <= z /\ z < c.addr + c.size
    BY <2>4, <2>5 DEF Partition, Span, End
  <2> SUFFICES ASSUME \A y \in x .. (x + need - 1) :
                        \A b \in used : ~(b.addr <= y /\ y < b.addr + b.size)
               PROVE  FALSE
    BY <2>1, <2>4, <2>5 DEF need, Span, End, Blocks
  <2>7. PICK b \in Blocks : b.addr <= x /\ x < b.addr + b.size
    BY <2>1, <2>3, <2>4, <2>6
  <2>8. b \in free
    BY <2>1, <2>4, <2>7 DEF Blocks
  <2>9. b.addr + b.size \in x .. (x + need - 1)
    BY <2>1, <2>2, <2>4, <2>5, <2>7, <2>8
  <2>10. PICK c \in Blocks : /\ c.addr <= b.addr + b.size
                             /\ b.addr + b.size < c.addr + c.size
    BY <2>1, <2>3, <2>4, <2>6, <2>9
  <2>11. c \in free
    BY <2>9, <2>10 DEF Blocks
  <2>12. c.addr = b.addr + b.size
    BY <2>5, <2>10 DEF Partition, End
  <2> QED
    BY <2>8, <2>11, <2>12 DEF Coalesced, End
<1> QED
  BY PoolInv, <1>1, PTL
=============================================================================
