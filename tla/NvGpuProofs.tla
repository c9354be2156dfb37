----------------------------- MODULE NvGpuProofs -----------------------------
(***************************************************************************)
(* The table of allocations of NvGpu stays in address order, without       *)
(* overlap, for pages, tables, words and requests of any size; its VRAM    *)
(* account is exact and every channel keeps a push buffer of its own, as   *)
(* long as no request wraps the word it is rounded in.                     *)
(***************************************************************************)
EXTENDS NvGpu, SequenceTheorems, WellFoundedInduction, TLAPS

Fields == {"addr", "size", "type", "data"}

IsRecord(r) == DOMAIN r = Fields /\ r.addr \in Nat /\ r.size \in Nat

Ends(r) == r.addr + r.size

\* A table in address order that ends at e or before.
Table(s, e) ==
  /\ s \in Seq(Range(s))
  /\ \A i \in 1 .. Len(s) : IsRecord(s[i])
  /\ \A i, j \in 1 .. Len(s) : i < j => Ends(s[i]) <= s[j].addr
  /\ \A i \in 1 .. Len(s) : Ends(s[i]) <= e

\* The inductive invariant.
TableInv == next_gpu_addr \in Nat /\ Table(allocations, next_gpu_addr)

-----------------------------------------------------------------------------
(***************************************************************************)
(* Searches and sequences.                                                 *)
(***************************************************************************)
\* A set of naturals that is not empty has a least element.
LEMMA LeastNatural ==
  ASSUME NEW T, T \subseteq Nat, T # {}
  PROVE  \E x \in T : \A y \in T : x <= y
<1> DEFINE R == {ss \in Nat \X Nat : ss[1] < ss[2]}
<1>1. IsWellFoundedOn(R, Nat)
  BY NatLessThanWellFounded DEF OpToRel
<1>2. PICK x \in T : \A y \in T : <<y, x>> \notin R
  <2> HIDE DEF R
  <2> QED
    BY <1>1, WFMin, Zenon
<1>3. ASSUME NEW y \in T PROVE x <= y
  <2>1. x \in Nat /\ y \in Nat
    OBVIOUS
  <2>2. y < x => <<y, x>> \in R
    BY <2>1
  <2> QED
    BY <1>2, <2>1, <2>2
<1> QED
  BY <1>3

LEMMA MinIn ==
  ASSUME NEW T, T \subseteq Nat, T # {}
  PROVE  Min(T) \in T
<1>1. \E x \in T : \A y \in T : x <= y
  BY LeastNatural
<1> QED
  BY <1>1 DEF Min

\* What a search of the table returns is an index of it, or 0.
LEMMA RecordAtIndex ==
  ASSUME NEW addr, Len(allocations) \in Nat
  PROVE  RecordAt(addr) = 0 \/ RecordAt(addr) \in 1 .. Len(allocations)
<1> DEFINE I == {i \in 1 .. Len(allocations) : allocations[i].addr = addr}
<1>1. RecordAt(addr) = IF I # {} THEN Min(I) ELSE 0
  BY DEF RecordAt, SelectInSeq
<1>2. I \subseteq Nat /\ I \subseteq 1 .. Len(allocations)
  OBVIOUS
<1> HIDE DEF I
<1> QED
  BY <1>1, <1>2, MinIn

LEMMA FindIndex ==
  ASSUME NEW addr, Len(allocations) \in Nat
  PROVE  Find(addr) = 0 \/ Find(addr) \in 1 .. Len(allocations)
<1> DEFINE I == {i \in 1 .. Len(allocations) :
                   /\ allocations[i].addr <= addr
                   /\ addr < allocations[i].addr + allocations[i].size}
<1>1. Find(addr) = IF I # {} THEN Min(I) ELSE 0
  BY DEF Find, SelectInSeq
<1>2. I \subseteq Nat /\ I \subseteq 1 .. Len(allocations)
  OBVIOUS
<1> HIDE DEF I
<1> QED
  BY <1>1, <1>2, MinIn

\* A sequence is one over its own elements.
LEMMA OverItsRange ==
  ASSUME NEW S, NEW s \in Seq(S)
  PROVE  s \in Seq(Range(s))
<1>1. Len(s) \in Nat /\ DOMAIN s = 1 .. Len(s) /\ s \in [1 .. Len(s) -> S]
  BY LenProperties
<1>2. s \in [1 .. Len(s) -> Range(s)]
  BY <1>1 DEF Range
<1> QED
  BY <1>1, <1>2, SeqDef

-----------------------------------------------------------------------------
(***************************************************************************)
(* What the operations do to a table.                                      *)
(***************************************************************************)
LEMMA EmptyTable ==
  ASSUME NEW e
  PROVE  Table(<<>>, e)
<1>1. <<>> \in Seq(Range(<<>>)) /\ Len(<<>>) = 0
  BY EmptySeq
<1> QED
  BY <1>1 DEF Table

LEMMA LaterEnd ==
  ASSUME NEW s, NEW e \in Nat, NEW f \in Nat, Table(s, e), e <= f
  PROVE  Table(s, f)
<1>1. ASSUME NEW i \in 1 .. Len(s) PROVE Ends(s[i]) <= f
  <2>1. Ends(s[i]) \in Nat /\ Ends(s[i]) <= e
    BY DEF Table, IsRecord, Ends
  <2> QED
    BY <2>1
<1> QED
  BY <1>1 DEF Table

LEMMA AppendTable ==
  ASSUME NEW s, NEW e \in Nat, Table(s, e), NEW r, IsRecord(r), r.addr = e
  PROVE  Table(Append(s, r), e + r.size)
<1> DEFINE t == Append(s, r)
           f == e + r.size
           S == Range(s) \cup {r}
<1>1. s \in Seq(S) /\ Len(s) \in Nat
  BY SeqMonotonic, LenProperties DEF Table
<1>2. /\ t \in Seq(S) /\ Len(t) = Len(s) + 1 /\ t[Len(s) + 1] = r
      /\ \A i \in 1 .. Len(s) : t[i] = s[i]
  BY <1>1, AppendProperties
<1>3. t \in Seq(Range(t))
  BY <1>2, OverItsRange
<1>4. f \in Nat /\ e <= f /\ Ends(r) = f
  BY DEF IsRecord, Ends
<1>5. Table(s, f)
  BY <1>4, LaterEnd
<1> HIDE DEF t, f, S
<1>6. \A i \in 1 .. Len(t) : i \in 1 .. Len(s) \/ i = Len(s) + 1
  BY <1>1, <1>2
<1>7. \A i \in 1 .. Len(t) : IsRecord(t[i])
  BY <1>2, <1>5, <1>6 DEF Table
<1>8. \A i \in 1 .. Len(t) : Ends(t[i]) <= f
  BY <1>2, <1>4, <1>5, <1>6 DEF Table
<1>9. ASSUME NEW i \in 1 .. Len(t), NEW j \in 1 .. Len(t), i < j
      PROVE  Ends(t[i]) <= t[j].addr
  <2>1. i \in 1 .. Len(s) /\ t[i] = s[i]
    BY <1>1, <1>2, <1>9
  <2>2. CASE j \in 1 .. Len(s)
    BY <1>2, <1>9, <2>1, <2>2 DEF Table
  <2>3. CASE j = Len(s) + 1
    BY <1>2, <2>1, <2>3 DEF Table
  <2> QED
    BY <1>6, <2>2, <2>3
<1> QED
  BY <1>3, <1>7, <1>8, <1>9 DEF Table, t, f

\* RemoveAt closes the gap.
LEMMA RemoveAtItems ==
  ASSUME NEW S, NEW s \in Seq(S), NEW k \in 1 .. Len(s)
  PROVE  /\ RemoveAt(s, k) \in Seq(S) /\ Len(RemoveAt(s, k)) = Len(s) - 1
         /\ \A i \in 1 .. Len(RemoveAt(s, k)) :
              RemoveAt(s, k)[i] = s[IF i < k THEN i ELSE i + 1]
<1> DEFINE a == SubSeq(s, 1, k - 1)
           b == SubSeq(s, k + 1, Len(s))
           t == RemoveAt(s, k)
           Old(i) == IF i < k THEN i ELSE i + 1
<1>1. s \in Seq(S) /\ Len(s) \in Nat /\ k \in Nat /\ 1 <= k /\ k <= Len(s)
  BY LenProperties
<1>2. \A i \in 1 .. Len(s) : s[i] \in S
  BY <1>1, ElementOfSeq
<1>3. a \in Seq(S) /\ Len(a) = k - 1 /\ \A i \in 1 .. k - 1 : a[i] = s[i]
  <2>1. \A i \in 1 .. k - 1 : s[i] \in S
    BY <1>1, <1>2
  <2>2. /\ a \in Seq(S) /\ Len(a) = IF 1 <= k - 1 THEN k - 1 - 1 + 1 ELSE 0
        /\ \A i \in 1 .. k - 1 - 1 + 1 : a[i] = s[1 + i - 1]
    BY <1>1, <2>1, SubSeqProperties
  <2> QED
    BY <1>1, <2>2
<1>4. b \in Seq(S) /\ Len(b) = Len(s) - k /\ \A i \in 1 .. Len(s) - k : b[i] = s[k + i]
  <2>1. \A i \in k + 1 .. Len(s) : s[i] \in S
    BY <1>1, <1>2
  <2>2. /\ b \in Seq(S)
        /\ Len(b) = IF k + 1 <= Len(s) THEN Len(s) - (k + 1) + 1 ELSE 0
        /\ \A i \in 1 .. Len(s) - (k + 1) + 1 : b[i] = s[(k + 1) + i - 1]
    BY <1>1, <2>1, SubSeqProperties
  <2> QED
    BY <1>1, <2>2
<1>5. /\ t \in Seq(S) /\ Len(t) = Len(s) - 1
      /\ \A i \in 1 .. Len(t) : t[i] = s[Old(i)]
  <2> HIDE DEF a, b
  <2>1. t = a \o b
    BY DEF RemoveAt, a, b
  <2>2. /\ a \o b \in Seq(S) /\ Len(a \o b) = Len(a) + Len(b)
        /\ \A i \in 1 .. Len(a) + Len(b) :
             (a \o b)[i] = IF i <= Len(a) THEN a[i] ELSE b[i - Len(a)]
    BY <1>3, <1>4, ConcatProperties
  <2> HIDE DEF t
  <2>3. Len(t) = Len(s) - 1
    BY <1>1, <1>3, <1>4, <2>1, <2>2
  <2>4. ASSUME NEW i \in 1 .. Len(t) PROVE t[i] = s[Old(i)]
    <3>1. CASE i < k
      BY <1>1, <1>3, <1>4, <2>1, <2>2, <2>3, <3>1
    <3>2. CASE ~ (i < k)
      <4>1. /\ i - (k - 1) \in 1 .. Len(s) - k /\ ~ (i <= k - 1)
            /\ k + (i - (k - 1)) = i + 1 /\ i \in 1 .. (k - 1) + (Len(s) - k)
        BY <1>1, <2>3, <3>2
      <4>2. t[i] = b[i - (k - 1)]
        BY <1>3, <1>4, <2>1, <2>2, <4>1
      <4>3. b[i - (k - 1)] = s[i + 1]
        BY <1>4, <4>1
      <4> QED
        BY <3>2, <4>2, <4>3
    <3> QED
      BY <3>1, <3>2
  <2> QED
    BY <2>1, <2>2, <2>3, <2>4
<1> QED
  BY <1>5

LEMMA RemoveAtTable ==
  ASSUME NEW s, NEW e, Table(s, e), NEW k \in 1 .. Len(s)
  PROVE  Table(RemoveAt(s, k), e)
<1> DEFINE S == Range(s)
           t == RemoveAt(s, k)
           Old(i) == IF i < k THEN i ELSE i + 1
<1>1. s \in Seq(S) /\ Len(s) \in Nat /\ k \in Nat /\ 1 <= k /\ k <= Len(s)
  BY LenProperties DEF Table
<1>2. /\ t \in Seq(S) /\ Len(t) = Len(s) - 1
      /\ \A i \in 1 .. Len(t) : t[i] = s[Old(i)]
  BY <1>1, RemoveAtItems
<1> HIDE DEF t, S
<1>3. t \in Seq(Range(t))
  BY <1>2, OverItsRange
<1>4. \A i \in 1 .. Len(t) : Old(i) \in 1 .. Len(s)
  BY <1>1, <1>2
<1>5. \A i, j \in 1 .. Len(t) : i < j => Old(i) < Old(j)
  BY <1>1, <1>2
<1> HIDE DEF Old
<1>6. \A i \in 1 .. Len(t) : IsRecord(t[i]) /\ Ends(t[i]) <= e
  BY <1>2, <1>4 DEF Table
<1>7. \A i, j \in 1 .. Len(t) : i < j => Ends(t[i]) <= t[j].addr
  BY <1>2, <1>4, <1>5 DEF Table
<1> QED
  BY <1>3, <1>6, <1>7 DEF Table, t

\* New contents for one store.
LEMMA StoreTable ==
  ASSUME NEW s, NEW e, Table(s, e), NEW k \in 1 .. Len(s), NEW d
  PROVE  Table([s EXCEPT ![k].data = d], e)
<1> DEFINE r == [s[k] EXCEPT !.data = d]
           S == Range(s) \cup {r}
           t == [s EXCEPT ![k] = r]
<1>1. s \in Seq(S)
  BY SeqMonotonic DEF Table
<1>2. /\ t \in Seq(S) /\ Len(t) = Len(s)
      /\ \A j \in 1 .. Len(s) : t[j] = IF j = k THEN r ELSE s[j]
  <2> HIDE DEF r
  <2> QED
    BY <1>1, ExceptSeq
<1>3. IsRecord(r) /\ r.addr = s[k].addr /\ r.size = s[k].size
  BY DEF Table, IsRecord, Fields
<1>4. t = [s EXCEPT ![k].data = d]
  OBVIOUS
<1>5. t \in Seq(Range(t))
  BY <1>2, OverItsRange
<1> HIDE DEF t, r, S
<1>6. \A j \in 1 .. Len(s) : /\ IsRecord(t[j]) /\ t[j].addr = s[j].addr
                            /\ t[j].size = s[j].size
  BY <1>2, <1>3 DEF Table
<1>7. Table(t, e)
  BY <1>2, <1>5, <1>6 DEF Table, Ends
<1> QED
  BY <1>4, <1>7

-----------------------------------------------------------------------------
(***************************************************************************)
(* The steps.                                                              *)
(***************************************************************************)
\* A rounded size is a size, whatever the word it was rounded in.
LEMMA RoundedType ==
  ASSUME NEW n \in Nat
  PROVE  Rounded(n) \in Nat
<1> DEFINE up == (n + Page - 1) % Width
<1>1. Page \in Nat \ {0} /\ Width \in Nat \ {0}
  BY GpuAssumption
<1>2. up \in Nat
  BY <1>1
<1> HIDE DEF up
<1>3. up % Page \in Nat /\ up % Page <= up
  BY <1>1, <1>2
<1>4. up - (up % Page) \in Nat
  BY <1>2, <1>3
<1> QED
  BY <1>4 DEF Rounded, up

LEMMA AllocTable ==
  ASSUME TableInv, NEW n \in Nat, NEW type, AllocMemory(n, type)
  PROVE  TableInv'
<1> DEFINE r == Record(n, type)
<1>1. next_gpu_addr \in Nat /\ Rounded(n) \in Nat
  BY RoundedType DEF TableInv
<1>2. IsRecord(r) /\ r.addr = next_gpu_addr /\ r.size = Rounded(n)
  BY <1>1 DEF Record, IsRecord, Fields
<1>3. allocations' = Append(allocations, r) /\ next_gpu_addr' = next_gpu_addr + r.size
  BY <1>2 DEF AllocMemory, Advance
<1> HIDE DEF r
<1>4. Table(Append(allocations, r), next_gpu_addr + r.size)
  BY <1>1, <1>2, AppendTable DEF TableInv
<1> QED
  BY <1>1, <1>2, <1>3, <1>4 DEF TableInv

LEMMA AllocFailsTable ==
  ASSUME TableInv, NEW n \in Nat, NEW type, AllocMemoryFails(n, type)
  PROVE  TableInv'
<1>1. /\ next_gpu_addr \in Nat /\ next_gpu_addr' \in Nat
      /\ next_gpu_addr <= next_gpu_addr' /\ allocations' = allocations
  BY RoundedType DEF TableInv, AllocMemoryFails, Advance
<1> QED
  BY <1>1, LaterEnd DEF TableInv

LEMMA FreeTable ==
  ASSUME TableInv, NEW addr, NEW size, NEW type, FreeMemory(addr, size, type)
  PROVE  TableInv'
<1>1. Len(allocations) \in Nat
  BY LenProperties DEF TableInv, Table
<1>2. Table(WithoutRecord(addr), next_gpu_addr)
  BY <1>1, RecordAtIndex, RemoveAtTable DEF TableInv, WithoutRecord
<1> QED
  BY <1>2 DEF FreeMemory, TableInv

LEMMA TransferNaturals ==
  ASSUME TableInv
  PROVE  1 .. HostCells \cup CopyLengths \subseteq Nat /\ Addresses \subseteq Nat
<1>1. {FirstAddr, HostCells, Width} \subseteq Nat /\ CopyLengths \subseteq 0 .. (Width - 1)
  BY GpuAssumption
<1>2. next_gpu_addr \in Nat
  BY DEF TableInv
<1>3. 1 .. HostCells \subseteq Nat /\ CopyLengths \subseteq Nat
  BY <1>1
<1>4. FirstAddr .. (next_gpu_addr - 1) \subseteq Nat
  BY <1>1, <1>2
<1> QED
  BY <1>3, <1>4 DEF Addresses

LEMMA TransferTable ==
  ASSUME TableInv, NEW a \in Nat, NEW b \in Nat, NEW n \in Nat, NEW src,
         MemcpyH2D(a, src, n) \/ MemcpyD2H(a, n) \/ MemcpyD2D(a, b, n)
  PROVE  TableInv'
<1>1. Len(allocations) \in Nat
  BY LenProperties DEF TableInv, Table
<1>2. next_gpu_addr' = next_gpu_addr
  BY DEF MemcpyH2D, MemcpyD2H, MemcpyD2D
<1>3. \/ allocations' = allocations
      \/ /\ Find(a) # 0
         /\ \E d : allocations' = [allocations EXCEPT ![Find(a)].data = d]
  <2>1. CASE MemcpyH2D(a, src, n)
    BY <2>1 DEF MemcpyH2D, Store, Accepted
  <2>2. CASE MemcpyD2H(a, n)
    BY <2>2 DEF MemcpyD2H
  <2>3. CASE MemcpyD2D(a, b, n)
    BY <2>3 DEF MemcpyD2D, Store, Accepted
  <2> QED
    BY <2>1, <2>2, <2>3
<1>4. CASE allocations' = allocations
  BY <1>2, <1>4 DEF TableInv
<1>5. CASE /\ Find(a) # 0
           /\ \E d : allocations' = [allocations EXCEPT ![Find(a)].data = d]
  <2>1. Find(a) \in 1 .. Len(allocations)
    BY <1>1, <1>5, FindIndex
  <2>2. PICK d : allocations' = [allocations EXCEPT ![Find(a)].data = d]
    BY <1>5
  <2>3. Table([allocations EXCEPT ![Find(a)].data = d], next_gpu_addr)
    BY <2>1, StoreTable DEF TableInv
  <2> QED
    BY <1>2, <2>2, <2>3 DEF TableInv
<1> QED
  BY <1>3, <1>4, <1>5

LEMMA TableInitially == GpuStart => TableInv
<1>1. FirstAddr \in Nat
  BY GpuAssumption
<1> QED
  BY <1>1, EmptyTable DEF GpuStart, TableInv

LEMMA TableNext == TableInv /\ [GpuNext]_gpuVars => TableInv'
<1> SUFFICES ASSUME TableInv, [GpuNext]_gpuVars PROVE TableInv'
  OBVIOUS
<1>1. CASE GpuInit \/ GpuShutdown
  <2>1. allocations' = <<>> /\ next_gpu_addr' = next_gpu_addr
    BY <1>1 DEF GpuInit, GpuShutdown
  <2> QED
    BY <2>1, EmptyTable DEF TableInv
<1>2. ASSUME NEW n \in Sizes, AllocMemory(n, "video") \/ AllocMemoryFails(n, "video")
      PROVE  TableInv'
  <2>1. n \in Nat
    BY GpuAssumption
  <2> QED
    BY <1>2, <2>1, AllocTable, AllocFailsTable
<1>3. CASE CallerFrees
  BY <1>3, FreeTable DEF CallerFrees
<1>4. CASE CreateChannel \/ CreateChannelFails
  <2>1. PushBuffer \in Nat
    BY GpuAssumption
  <2>2. CASE UNCHANGED <<next_gpu_addr, vram_free, allocations>>
    BY <2>2 DEF TableInv
  <2> QED
    BY <1>4, <2>1, <2>2, AllocTable, AllocFailsTable
       DEF CreateChannel, CreateChannelFails
<1>5. ASSUME NEW i \in DOMAIN channels, DestroyChannel(channels[i]) PROVE TableInv'
  BY <1>5, FreeTable DEF DestroyChannel
<1>6. CASE Transfers
  <2>1. PICK n \in 1 .. HostCells \cup CopyLengths, a \in Addresses, b \in Addresses :
          MemcpyH2D(a, host, n) \/ MemcpyD2H(a, n) \/ MemcpyD2D(a, b, n)
    BY <1>6 DEF Transfers
  <2>2. n \in Nat /\ a \in Nat /\ b \in Nat
    BY TransferNaturals
  <2> QED
    BY <2>1, <2>2, TransferTable
<1>7. CASE HostFill \/ UNCHANGED gpuVars
  BY <1>7 DEF HostFill, gpuVars, TableInv
<1>8. CASE FatalCopy
  <2>1. allocations' = <<>> /\ next_gpu_addr' = FirstAddr /\ FirstAddr \in Nat
    BY <1>8, GpuAssumption DEF FatalCopy, MemcpyD2DDies
  <2> QED
    BY <2>1, EmptyTable DEF TableInv
<1> QED
  BY <1>1, <1>2, <1>3, <1>4, <1>5, <1>6, <1>7, <1>8 DEF GpuNext

\* nv_gpu_alloc_memory only appends at addresses it never handed out, and
\* nv_gpu_free_memory closes the gap: the table is in address order whatever
\* was freed, so that the first match of nv_find_alloc_by_addr and of
\* nv_gpu_free_memory is the only one.
THEOREM TableIsDisjoint == GpuSpec => []Disjoint
<1>1. TableInv => Disjoint
  <2> SUFFICES ASSUME TableInv PROVE Disjoint
    OBVIOUS
  <2>1. DOMAIN allocations = 1 .. Len(allocations)
    BY LenProperties DEF TableInv, Table
  <2> QED
    BY <2>1 DEF TableInv, Table, Disjoint, Ends
<1> QED
  BY <1>1, TableInitially, TableNext, PTL DEF GpuSpec

-----------------------------------------------------------------------------
\* Rounding a request of 2^64 - 4095 bytes or more wraps to nothing.
NoWrap == \A n \in Sizes \cup {PushBuffer} : n + Page <= Width

-----------------------------------------------------------------------------
(***************************************************************************)
(* What a table holds, as the last of its running totals.                  *)
(***************************************************************************)
\* A table whose records can be added up.
Weighed(s) == Len(s) \in Nat /\ \A i \in 1 .. Len(s) : VideoSize(s[i]) \in Nat

RunningTotal(s, f) ==
  /\ f \in [0 .. Len(s) -> Nat] /\ f[0] = 0
  /\ \A i \in 1 .. Len(s) : f[i] = f[i - 1] + VideoSize(s[i])

\* Running totals exist: the least length without any has one.
LEMMA TotalExists ==
  ASSUME NEW s, Weighed(s)
  PROVE  \E f : RunningTotal(s, f)
<1> DEFINE Has(n, f) == /\ f \in [0 .. n -> Nat] /\ f[0] = 0
                        /\ \A i \in 1 .. n : f[i] = f[i - 1] + VideoSize(s[i])
           T == {n \in 0 .. Len(s) : ~ \E f : Has(n, f)}
<1>1. Len(s) \in Nat /\ \A i \in 1 .. Len(s) : VideoSize(s[i]) \in Nat
  BY DEF Weighed
<1>2. CASE T = {}
  <2>1. Len(s) \in 0 .. Len(s)
    BY <1>1
  <2>2. \E f : Has(Len(s), f)
    <3> HIDE DEF Has
    <3> QED
      BY <1>2, <2>1
  <2> QED
    BY <2>2 DEF RunningTotal
<1>3. CASE T # {}
  <2>1. T \subseteq Nat
    BY <1>1
  <2>2. PICK n \in T : \A m \in T : n <= m
    <3> HIDE DEF T
    <3> QED
      BY <1>3, <2>1, LeastNatural
  <2>3. n \in 0 .. Len(s) /\ ~ \E f : Has(n, f)
    OBVIOUS
  <2>4. Has(0, [i \in 0 .. 0 |-> 0])
    OBVIOUS
  <2>5. n # 0
    BY <2>3, <2>4
  <2>6. n - 1 \in 0 .. Len(s) /\ n - 1 \notin T
    <3>1. n - 1 \in 0 .. Len(s) /\ ~ (n <= n - 1)
      BY <1>1, <2>3, <2>5
    <3> HIDE DEF T
    <3> QED
      BY <2>2, <3>1
  <2>7. PICK f : Has(n - 1, f)
    <3> HIDE DEF Has
    <3> QED
      BY <2>6
  <2> DEFINE g == [i \in 0 .. n |-> IF i = n THEN f[n - 1] + VideoSize(s[n]) ELSE f[i]]
  <2>8. f[n - 1] \in Nat /\ VideoSize(s[n]) \in Nat
    BY <1>1, <2>3, <2>5, <2>7
  <2>9. Has(n, g)
    <3>1. g \in [0 .. n -> Nat] /\ g[0] = 0
      BY <1>1, <2>3, <2>5, <2>7, <2>8
    <3>2. ASSUME NEW i \in 1 .. n
          PROVE  g[i] = g[i - 1] + VideoSize(s[i])
      BY <1>1, <2>3, <2>5, <2>7
    <3> QED
      BY <3>1, <3>2
  <2> QED
    BY <2>3, <2>9
<1> QED
  BY <1>2, <1>3

\* The total VramHeld computes is the last of any running totals.
LEMMA HeldIsTotal ==
  ASSUME NEW s, Weighed(s), NEW f, RunningTotal(s, f)
  PROVE  VramHeld(s) = f[Len(s)]
<1> DEFINE E(g) == g = [i \in 0 .. Len(s) |->
                          IF i = 0 THEN 0 ELSE g[i - 1] + VideoSize(s[i])]
           upTo == CHOOSE g : E(g)
           T == {i \in 0 .. Len(s) : upTo[i] # f[i]}
<1>1. Len(s) \in Nat /\ \A i \in 1 .. Len(s) : VideoSize(s[i]) \in Nat
  BY DEF Weighed
<1>2. E(f)
  BY <1>1 DEF RunningTotal
<1>3. E(upTo)
  BY <1>2
<1>4. VramHeld(s) = upTo[Len(s)]
  BY DEF VramHeld
<1> HIDE DEF upTo
<1>5. /\ upTo[0] = 0
      /\ \A i \in 1 .. Len(s) : upTo[i] = upTo[i - 1] + VideoSize(s[i])
  BY <1>1, <1>3
<1> HIDE DEF E
<1>6. T = {}
  <2> SUFFICES ASSUME T # {} PROVE FALSE
    OBVIOUS
  <2>1. T \subseteq Nat
    BY <1>1
  <2>2. PICK n \in T : \A m \in T : n <= m
    <3> HIDE DEF T
    <3> QED
      BY <2>1, LeastNatural
  <2>3. n \in 0 .. Len(s) /\ upTo[n] # f[n]
    OBVIOUS
  <2>4. n # 0
    BY <1>5, <2>3 DEF RunningTotal
  <2>5. n - 1 \in 0 .. Len(s) /\ upTo[n - 1] = f[n - 1]
    BY <1>1, <2>2, <2>3, <2>4
  <2> QED
    BY <1>1, <1>5, <2>3, <2>4, <2>5 DEF RunningTotal
<1> QED
  BY <1>1, <1>4, <1>6

LEMMA HeldType ==
  ASSUME NEW s, Weighed(s)
  PROVE  VramHeld(s) \in Nat
<1>1. PICK f : RunningTotal(s, f)
  BY TotalExists
<1>2. f[Len(s)] \in Nat
  BY <1>1 DEF RunningTotal, Weighed
<1> QED
  BY <1>1, <1>2, HeldIsTotal

LEMMA HeldEmpty == VramHeld(<<>>) = 0
<1>1. Len(<<>>) = 0
  BY EmptySeq
<1>2. Weighed(<<>>) /\ RunningTotal(<<>>, [i \in 0 .. 0 |-> 0])
  BY <1>1 DEF Weighed, RunningTotal
<1> QED
  BY <1>1, <1>2, HeldIsTotal

\* Tables that agree on types and sizes hold the same.
LEMMA HeldSame ==
  ASSUME NEW s, NEW t, Weighed(s), Len(t) = Len(s),
         \A i \in 1 .. Len(s) : VideoSize(t[i]) = VideoSize(s[i])
  PROVE  Weighed(t) /\ VramHeld(t) = VramHeld(s)
<1>1. PICK f : RunningTotal(s, f)
  BY TotalExists
<1>2. Weighed(t) /\ RunningTotal(t, f)
  BY <1>1 DEF Weighed, RunningTotal
<1> QED
  BY <1>1, <1>2, HeldIsTotal

LEMMA HeldMore ==
  ASSUME NEW s, NEW t, Weighed(s), Len(t) = Len(s) + 1,
         VideoSize(t[Len(s) + 1]) \in Nat,
         \A i \in 1 .. Len(s) : t[i] = s[i]
  PROVE  Weighed(t) /\ VramHeld(t) = VramHeld(s) + VideoSize(t[Len(s) + 1])
<1>1. PICK f : RunningTotal(s, f)
  BY TotalExists
<1> DEFINE n == Len(s)
           g == [i \in 0 .. n + 1 |-> IF i = n + 1 THEN f[n] + VideoSize(t[n + 1]) ELSE f[i]]
<1>2. n \in Nat /\ f \in [0 .. n -> Nat] /\ f[0] = 0
  BY <1>1 DEF Weighed, RunningTotal
<1>3. Weighed(t)
  BY DEF Weighed
<1>4. RunningTotal(t, g)
  <2>1. g \in [0 .. n + 1 -> Nat] /\ g[0] = 0
    BY <1>2
  <2>2. ASSUME NEW i \in 1 .. n + 1
        PROVE  g[i] = g[i - 1] + VideoSize(t[i])
    <3>1. CASE i = n + 1
      BY <1>2, <3>1
    <3>2. CASE i \in 1 .. n
      BY <1>1, <1>2, <3>2 DEF RunningTotal
    <3> QED
      BY <1>2, <3>1, <3>2
  <2> QED
    BY <2>1, <2>2 DEF RunningTotal
<1>5. g[n + 1] = f[n] + VideoSize(t[n + 1])
  BY <1>2
<1> HIDE DEF g
<1> QED
  BY <1>1, <1>3, <1>4, <1>5, HeldIsTotal

\* The table without its k-th record, as RemoveAt leaves it.
LEMMA HeldLess ==
  ASSUME NEW s, NEW t, NEW k \in 1 .. Len(s), Weighed(s), Len(t) = Len(s) - 1,
         \A i \in 1 .. Len(t) : t[i] = s[IF i < k THEN i ELSE i + 1]
  PROVE  Weighed(t) /\ VramHeld(s) = VramHeld(t) + VideoSize(s[k])
<1> DEFINE n == Len(t)
<1>1. n \in Nat /\ Len(s) = n + 1 /\ Weighed(t)
  <2>1. Len(s) \in Nat /\ k \in 1 .. Len(s) /\ n = Len(s) - 1
    BY DEF Weighed
  <2>2. n \in Nat /\ Len(s) = n + 1
    BY <2>1
  <2>3. ASSUME NEW i \in 1 .. n PROVE VideoSize(t[i]) \in Nat
    <3> DEFINE x == IF i < k THEN i ELSE i + 1
    <3>1. x \in 1 .. Len(s)
      BY <2>1, <2>2
    <3>2. t[i] = s[x]
      OBVIOUS
    <3> HIDE DEF x
    <3> QED
      BY <3>1, <3>2 DEF Weighed
  <2> QED
    BY <2>2, <2>3 DEF Weighed
<1>2. PICK f : RunningTotal(t, f)
  BY <1>1, TotalExists
<1> DEFINE g == [i \in 0 .. n + 1 |-> IF i < k THEN f[i] ELSE f[i - 1] + VideoSize(s[k])]
<1>3. f \in [0 .. n -> Nat] /\ f[0] = 0 /\ VideoSize(s[k]) \in Nat
  BY <1>1, <1>2 DEF Weighed, RunningTotal
<1>4. RunningTotal(s, g)
  <2>1. g \in [0 .. n + 1 -> Nat] /\ g[0] = 0
    BY <1>1, <1>3
  <2>2. ASSUME NEW i \in 1 .. n + 1
        PROVE  g[i] = g[i - 1] + VideoSize(s[i])
    <3>1. CASE i < k
      <4>1. i \in 1 .. n /\ t[i] = s[i] /\ f[i] = f[i - 1] + VideoSize(t[i])
        BY <1>1, <1>2, <3>1 DEF RunningTotal
      <4> QED
        BY <1>1, <3>1, <4>1
    <3>2. CASE i = k
      BY <1>1, <1>3, <3>2
    <3>3. CASE i > k
      <4>1. /\ i - 1 \in 1 .. n /\ t[i - 1] = s[i]
            /\ f[i - 1] = f[i - 2] + VideoSize(t[i - 1])
        BY <1>1, <1>2, <3>3 DEF RunningTotal
      <4>2. f[i - 2] \in Nat /\ f[i - 1] \in Nat
        <5>1. i - 2 \in 0 .. n /\ i - 1 \in 0 .. n
          BY <1>1, <3>3
        <5> QED
          BY <1>3, <5>1
      <4>3. VideoSize(s[i]) \in Nat
        BY <1>1 DEF Weighed
      <4>4. g[i] = f[i - 1] + VideoSize(s[k])
        BY <1>1, <3>3
      <4>5. g[i - 1] = f[i - 2] + VideoSize(s[k])
        <5>1. CASE i - 1 = k
          BY <1>1, <1>2, <3>3, <5>1
        <5>2. CASE i - 1 # k
          BY <1>1, <3>3, <5>2
        <5> QED
          BY <5>1, <5>2
      <4> HIDE DEF g
      <4> QED
        BY <1>3, <4>1, <4>2, <4>3, <4>4, <4>5
    <3> QED
      BY <1>1, <3>1, <3>2, <3>3
  <2> QED
    BY <1>1, <2>1, <2>2 DEF RunningTotal
<1>5. g[n + 1] = f[n] + VideoSize(s[k])
  BY <1>1, <1>3
<1> HIDE DEF g
<1> QED
  BY <1>1, <1>2, <1>4, <1>5, HeldIsTotal

-----------------------------------------------------------------------------
(***************************************************************************)
(* The inductive invariant: with TableInv, sizes are not zero, so that an  *)
(* address names one record; a channel is the address of a push buffer.    *)
(***************************************************************************)
Pushed(s) == {s[i].addr : i \in {k \in 1 .. Len(s) : s[k].type = "system"}}

Sized(s) == \A i \in 1 .. Len(s) : s[i].size > 0 /\ s[i].type \in Types

Injective(s) == \A i, j \in 1 .. Len(s) : s[i] = s[j] => i = j

Balanced == gpu_ready => vram_free \in Nat /\ vram_free + VramHeld(allocations) = VramSize

AccountInv ==
  /\ Sized(allocations)
  /\ channels \in Seq(Nat) /\ Injective(channels)
  /\ Range(channels) = Pushed(allocations)
  /\ Balanced

LEMMA TableLen ==
  ASSUME NEW s, NEW e, Table(s, e)
  PROVE  Len(s) \in Nat /\ DOMAIN s = 1 .. Len(s)
BY LenProperties DEF Table

LEMMA SizedWeighed ==
  ASSUME NEW s, NEW e, Table(s, e), Sized(s)
  PROVE  /\ Weighed(s)
         /\ \A i \in 1 .. Len(s) : s[i].size \in Nat \ {0} /\ s[i].addr \in Nat
BY TableLen DEF Table, IsRecord, Sized, Weighed, VideoSize

LEMMA RoundedPositive ==
  ASSUME NoWrap, NEW n \in Sizes \cup {PushBuffer}, n # 0
  PROVE  n \in Nat /\ Rounded(n) \in Nat /\ Rounded(n) > 0
<1>1. Page \in Nat \ {0} /\ Width \in Nat \ {0} /\ n \in Nat \ {0} /\ n + Page <= Width
  <2>1. Page \in Nat \ {0} /\ Width \in Nat \ {0} /\ PushBuffer \in Nat
    BY GpuAssumption
  <2> QED
    BY <2>1, GpuAssumption DEF NoWrap
<1>2. (n + Page - 1) % Width = n + Page - 1
  BY <1>1
<1> DEFINE up == n + Page - 1
<1>3. up \in Nat /\ up % Page \in 0 .. Page - 1
  BY <1>1
<1>4. up - (up % Page) >= n
  BY <1>1, <1>3
<1> QED
  BY <1>1, <1>2, <1>3, <1>4 DEF Rounded

\* The first record at the address of a record is that record.
LEMMA FirstAtAddress ==
  ASSUME TableInv, Sized(allocations), NEW i \in 1 .. Len(allocations)
  PROVE  WithoutRecord(allocations[i].addr) = RemoveAt(allocations, i)
<1> DEFINE a == allocations[i].addr
           I == {j \in 1 .. Len(allocations) : allocations[j].addr = a}
<1>1. /\ Len(allocations) \in Nat
      /\ \A j \in 1 .. Len(allocations) :
           allocations[j].size \in Nat \ {0} /\ allocations[j].addr \in Nat
  BY TableLen, SizedWeighed DEF TableInv
<1>2. \A j, k \in 1 .. Len(allocations) :
        j < k => allocations[j].addr < allocations[k].addr
  <2> SUFFICES ASSUME NEW j \in 1 .. Len(allocations), NEW k \in 1 .. Len(allocations), j < k
               PROVE  allocations[j].addr < allocations[k].addr
    OBVIOUS
  <2>1. Ends(allocations[j]) <= allocations[k].addr
    BY DEF TableInv, Table
  <2> QED
    BY <1>1, <2>1 DEF Ends
<1>3. I = {i}
  <2>1. ASSUME NEW j \in 1 .. Len(allocations), allocations[j].addr = a PROVE j = i
    <3>1. ~ (j < i) /\ ~ (i < j)
      BY <1>1, <1>2, <2>1
    <3> QED
      BY <1>1, <3>1
  <2> QED
    BY <2>1
<1>4. RecordAt(a) = IF I # {} THEN Min(I) ELSE 0
  BY DEF RecordAt, SelectInSeq
<1>5. Min({i}) = i
  BY MinIn
<1> HIDE DEF I
<1>6. RecordAt(a) = i /\ i # 0
  BY <1>1, <1>3, <1>4, <1>5
<1> QED
  BY <1>6 DEF WithoutRecord

-----------------------------------------------------------------------------
(***************************************************************************)
(* What the operations do to the sizes, the push buffers and the total.    *)
(***************************************************************************)
LEMMA AppendAccount ==
  ASSUME NEW s, NEW e \in Nat, Table(s, e), Sized(s),
         NEW r, IsRecord(r), r.addr = e, r.size > 0, r.type \in Types
  PROVE  /\ Sized(Append(s, r))
         /\ VramHeld(Append(s, r)) = VramHeld(s) + VideoSize(r)
         /\ Pushed(Append(s, r)) = Pushed(s) \cup (IF r.type = "system" THEN {e} ELSE {})
         /\ e \notin Pushed(s)
<1> DEFINE t == Append(s, r)
           n == Len(s)
<1>1. n \in Nat /\ Weighed(s)
  BY TableLen, SizedWeighed
<1>2. Len(t) = n + 1 /\ t[n + 1] = r /\ \A i \in 1 .. n : t[i] = s[i]
  <2>1. s \in Seq(Range(s) \cup {r})
    BY SeqMonotonic DEF Table
  <2> QED
    BY <2>1, AppendProperties
<1> HIDE DEF t
<1>3. \A i \in 1 .. n + 1 : i \in 1 .. n \/ i = n + 1
  BY <1>1
<1>4. Sized(t)
  BY <1>2, <1>3 DEF Sized
<1>5. VideoSize(r) \in Nat
  BY DEF VideoSize, IsRecord
<1>6. VramHeld(t) = VramHeld(s) + VideoSize(r)
  BY <1>1, <1>2, <1>5, HeldMore
<1>7. Pushed(t) = Pushed(s) \cup (IF r.type = "system" THEN {e} ELSE {})
  <2>1. 1 .. n + 1 = 1 .. n \cup {n + 1}
    BY <1>1
  <2> QED
    BY <1>2, <2>1 DEF Pushed
<1>8. e \notin Pushed(s)
  <2>1. ASSUME NEW i \in 1 .. n PROVE s[i].addr # e
    <3>1. Ends(s[i]) <= e /\ s[i].size \in Nat \ {0} /\ s[i].addr \in Nat
      BY SizedWeighed DEF Table
    <3> QED
      BY <3>1 DEF Ends
  <2> QED
    BY <2>1 DEF Pushed
<1> QED
  BY <1>4, <1>6, <1>7, <1>8 DEF t

LEMMA RemoveAccount ==
  ASSUME NEW s, NEW e, Table(s, e), Sized(s), NEW k \in 1 .. Len(s)
  PROVE  /\ Sized(RemoveAt(s, k))
         /\ VramHeld(RemoveAt(s, k)) \in Nat
         /\ VramHeld(s) = VramHeld(RemoveAt(s, k)) + VideoSize(s[k])
         /\ Pushed(RemoveAt(s, k)) = Pushed(s) \ {s[k].addr}
         /\ s[k].type = "video" => s[k].addr \notin Pushed(s)
<1> DEFINE t == RemoveAt(s, k)
           n == Len(s)
           Old(i) == IF i < k THEN i ELSE i + 1
<1>1. n \in Nat /\ Weighed(s)
  BY TableLen, SizedWeighed
<1>2. Len(t) = n - 1 /\ \A i \in 1 .. n - 1 : t[i] = s[Old(i)]
  BY RemoveAtItems DEF Table
<1> HIDE DEF t
<1>3. Weighed(t) /\ VramHeld(s) = VramHeld(t) + VideoSize(s[k])
  BY <1>1, <1>2, HeldLess
<1>4. VramHeld(t) \in Nat
  BY <1>3, HeldType
<1>5. \A i \in 1 .. n - 1 : Old(i) \in 1 .. n /\ Old(i) # k
  BY <1>1
<1>6. \A j \in 1 .. n : j # k => \E i \in 1 .. n - 1 : Old(i) = j
  <2> SUFFICES ASSUME NEW j \in 1 .. n, j # k PROVE \E i \in 1 .. n - 1 : Old(i) = j
    OBVIOUS
  <2>1. CASE j < k
    BY <1>1, <2>1
  <2>2. CASE j > k
    <3>1. j - 1 \in 1 .. n - 1 /\ Old(j - 1) = j
      BY <1>1, <2>2
    <3> QED
      BY <3>1
  <2> QED
    BY <1>1, <2>1, <2>2
<1>7. \A i, j \in 1 .. n : s[i].addr = s[j].addr => i = j
  <2> SUFFICES ASSUME NEW i \in 1 .. n, NEW j \in 1 .. n, i < j
               PROVE  s[i].addr # s[j].addr
    BY <1>1
  <2>1. /\ Ends(s[i]) <= s[j].addr /\ s[i].size \in Nat \ {0}
        /\ s[i].addr \in Nat /\ s[j].addr \in Nat
    BY SizedWeighed DEF Table
  <2> QED
    BY <2>1 DEF Ends
<1> HIDE DEF Old
<1>8. Sized(t)
  BY <1>2, <1>5 DEF Sized
<1>9. Pushed(t) = Pushed(s) \ {s[k].addr}
  <2>1. ASSUME NEW a \in Pushed(t) PROVE a \in Pushed(s) \ {s[k].addr}
    <3>1. PICK i \in 1 .. n - 1 : t[i].type = "system" /\ a = t[i].addr
      BY <1>2, <2>1 DEF Pushed
    <3>2. t[i] = s[Old(i)] /\ Old(i) \in 1 .. n /\ Old(i) # k
      BY <1>2, <1>5, <3>1
    <3>3. s[Old(i)].type = "system" /\ a = s[Old(i)].addr /\ s[Old(i)].addr # s[k].addr
      BY <1>7, <3>1, <3>2
    <3> QED
      BY <3>2, <3>3 DEF Pushed
  <2>2. ASSUME NEW a \in Pushed(s), a # s[k].addr PROVE a \in Pushed(t)
    <3>1. PICK j \in 1 .. n : s[j].type = "system" /\ a = s[j].addr
      BY <2>2 DEF Pushed
    <3>2. PICK i \in 1 .. n - 1 : Old(i) = j
      BY <1>6, <2>2, <3>1
    <3> QED
      BY <1>2, <3>1, <3>2 DEF Pushed
  <2> QED
    BY <2>1, <2>2
<1>10. s[k].type = "video" => s[k].addr \notin Pushed(s)
  BY <1>7 DEF Pushed
<1> QED
  BY <1>3, <1>4, <1>8, <1>9, <1>10 DEF t

LEMMA StoreAccount ==
  ASSUME NEW s, NEW e, Table(s, e), Sized(s), NEW k \in 1 .. Len(s), NEW d
  PROVE  LET t == [s EXCEPT ![k].data = d]
         IN  /\ Sized(t) /\ VramHeld(t) = VramHeld(s) /\ Pushed(t) = Pushed(s)
             /\ Len(t) = Len(s)
<1> DEFINE r == [s[k] EXCEPT !.data = d]
           S == Range(s) \cup {r}
           t == [s EXCEPT ![k] = r]
<1>1. s \in Seq(S) /\ Weighed(s)
  BY SeqMonotonic, SizedWeighed DEF Table
<1>2. /\ Len(t) = Len(s)
      /\ \A j \in 1 .. Len(s) : t[j] = IF j = k THEN r ELSE s[j]
  <2> HIDE DEF r
  <2> QED
    BY <1>1, ExceptSeq
<1>3. r.addr = s[k].addr /\ r.size = s[k].size /\ r.type = s[k].type
  BY DEF Table, IsRecord, Fields
<1>4. t = [s EXCEPT ![k].data = d]
  OBVIOUS
<1> HIDE DEF t, r, S
<1>5. \A j \in 1 .. Len(s) : /\ t[j].addr = s[j].addr /\ t[j].size = s[j].size
                            /\ t[j].type = s[j].type
  BY <1>2, <1>3
<1>6. VramHeld(t) = VramHeld(s)
  BY <1>1, <1>2, <1>5, HeldSame DEF VideoSize
<1>7. Sized(t) /\ Pushed(t) = Pushed(s)
  BY <1>2, <1>5 DEF Sized, Pushed
<1> QED
  BY <1>2, <1>4, <1>6, <1>7

-----------------------------------------------------------------------------
(***************************************************************************)
(* The steps.                                                              *)
(***************************************************************************)
LEMMA AllocTotals ==
  ASSUME NoWrap, TableInv, Sized(allocations),
         NEW n \in Sizes \cup {PushBuffer}, NEW type \in Types, AllocMemory(n, type)
  PROVE  /\ Sized(allocations')
         /\ VramHeld(allocations') = VramHeld(allocations) + Charged(n, type)
         /\ vram_free' = vram_free - Charged(n, type) /\ Charged(n, type) \in Nat
         /\ vram_free \in Nat => vram_free' \in Nat
         /\ Pushed(allocations') = Pushed(allocations)
              \cup (IF type = "system" THEN {next_gpu_addr} ELSE {})
         /\ next_gpu_addr \notin Pushed(allocations) /\ gpu_ready
         /\ Len(allocations') = Len(allocations) + 1 /\ Len(allocations) < MaxAllocs
<1> DEFINE r == Record(n, type)
<1>1. /\ n # 0 /\ gpu_ready /\ ~ (type = "video" /\ Rounded(n) > vram_free)
      /\ ~ (Len(allocations) >= MaxAllocs)
  BY DEF AllocMemory, Refused
<1>2. n \in Nat /\ Rounded(n) \in Nat /\ Rounded(n) > 0 /\ next_gpu_addr \in Nat
  BY <1>1, RoundedPositive DEF TableInv
<1>3. /\ IsRecord(r) /\ r.addr = next_gpu_addr /\ r.size = Rounded(n)
      /\ r.type = type
  BY <1>2 DEF Record, IsRecord, Fields
<1>4. allocations' = Append(allocations, r) /\ vram_free' = vram_free - Charged(n, type)
  BY DEF AllocMemory
<1>5. VideoSize(r) = Charged(n, type)
  BY <1>3 DEF VideoSize, Charged
<1> HIDE DEF r
<1>6. /\ Sized(allocations')
      /\ VramHeld(allocations') = VramHeld(allocations) + VideoSize(r)
      /\ Pushed(allocations') = Pushed(allocations)
           \cup (IF type = "system" THEN {next_gpu_addr} ELSE {})
      /\ next_gpu_addr \notin Pushed(allocations)
  BY <1>2, <1>3, <1>4, AppendAccount DEF TableInv
<1>7. Len(allocations') = Len(allocations) + 1 /\ Len(allocations) < MaxAllocs
  <2>1. allocations \in Seq(Range(allocations) \cup {r}) /\ Len(allocations) \in Nat
    BY SeqMonotonic, TableLen DEF TableInv, Table
  <2>2. MaxAllocs \in Nat
    BY GpuAssumption
  <2> QED
    BY <1>1, <1>4, <2>1, <2>2, AppendProperties
<1>8. Charged(n, type) \in Nat /\ (vram_free \in Nat => vram_free' \in Nat)
  BY <1>1, <1>2, <1>4 DEF Charged
<1> QED
  BY <1>1, <1>4, <1>5, <1>6, <1>7, <1>8

LEMMA AllocAccount ==
  ASSUME NoWrap, TableInv, Sized(allocations), Balanced,
         NEW n \in Sizes \cup {PushBuffer}, NEW type \in Types, AllocMemory(n, type),
         UNCHANGED gpu_ready
  PROVE  /\ Sized(allocations') /\ Balanced'
         /\ Pushed(allocations') = Pushed(allocations)
              \cup (IF type = "system" THEN {next_gpu_addr} ELSE {})
         /\ next_gpu_addr \notin Pushed(allocations)
<1>1. VramHeld(allocations) \in Nat
  BY SizedWeighed, HeldType DEF TableInv
<1>2. /\ VramHeld(allocations') = VramHeld(allocations) + Charged(n, type)
      /\ vram_free' = vram_free - Charged(n, type) /\ Charged(n, type) \in Nat
      /\ vram_free \in Nat => vram_free' \in Nat
  BY AllocTotals
<1>3. Balanced'
  <2>1. gpu_ready' => vram_free \in Nat /\ vram_free + VramHeld(allocations) = VramSize
    BY DEF Balanced
  <2> QED
    BY <1>1, <1>2, <2>1 DEF Balanced
<1> QED
  BY <1>3, AllocTotals

LEMMA FreeAccount ==
  ASSUME TableInv, Sized(allocations), Balanced, NEW i \in 1 .. Len(allocations),
         NEW size, NEW type, FreeMemory(allocations[i].addr, size, type),
         (IF type = "video" THEN size ELSE 0) = VideoSize(allocations[i]),
         UNCHANGED gpu_ready
  PROVE  /\ Sized(allocations') /\ Balanced'
         /\ Pushed(allocations') = Pushed(allocations) \ {allocations[i].addr}
         /\ allocations[i].type = "video" => allocations[i].addr \notin Pushed(allocations)
<1>1. allocations' = RemoveAt(allocations, i)
  BY FirstAtAddress DEF FreeMemory
<1>2. vram_free' = vram_free + VideoSize(allocations[i])
  BY DEF FreeMemory
<1>3. /\ Sized(allocations') /\ VramHeld(allocations') \in Nat
      /\ VramHeld(allocations) = VramHeld(allocations') + VideoSize(allocations[i])
      /\ Pushed(allocations') = Pushed(allocations) \ {allocations[i].addr}
      /\ allocations[i].type = "video" => allocations[i].addr \notin Pushed(allocations)
  BY <1>1, RemoveAccount DEF TableInv
<1>4. VideoSize(allocations[i]) \in Nat
  BY SizedWeighed DEF TableInv, Weighed
<1> QED
  BY <1>2, <1>3, <1>4 DEF Balanced

LEMMA TransferTotals ==
  ASSUME TableInv, Sized(allocations), NEW a \in Nat, NEW b \in Nat, NEW n \in Nat, NEW src,
         MemcpyH2D(a, src, n) \/ MemcpyD2H(a, n) \/ MemcpyD2D(a, b, n)
  PROVE  /\ Sized(allocations') /\ VramHeld(allocations') = VramHeld(allocations)
         /\ Pushed(allocations') = Pushed(allocations)
         /\ Len(allocations') = Len(allocations)
         /\ UNCHANGED <<next_gpu_addr, vram_free, channels>>
<1>1. UNCHANGED <<next_gpu_addr, vram_free, channels>>
  BY DEF MemcpyH2D, MemcpyD2H, MemcpyD2D
<1>2. \/ allocations' = allocations
      \/ /\ Find(a) # 0
         /\ \E d : allocations' = [allocations EXCEPT ![Find(a)].data = d]
  <2>1. CASE MemcpyH2D(a, src, n)
    BY <2>1 DEF MemcpyH2D, Store, Accepted
  <2>2. CASE MemcpyD2H(a, n)
    BY <2>2 DEF MemcpyD2H
  <2>3. CASE MemcpyD2D(a, b, n)
    BY <2>3 DEF MemcpyD2D, Store, Accepted
  <2> QED
    BY <2>1, <2>2, <2>3
<1>3. CASE allocations' = allocations
  BY <1>1, <1>3
<1>4. CASE /\ Find(a) # 0
           /\ \E d : allocations' = [allocations EXCEPT ![Find(a)].data = d]
  <2>1. Find(a) \in 1 .. Len(allocations)
    BY <1>4, TableLen, FindIndex DEF TableInv
  <2>2. PICK d : allocations' = [allocations EXCEPT ![Find(a)].data = d]
    BY <1>4
  <2> QED
    BY <1>1, <2>1, <2>2, StoreAccount DEF TableInv
<1> QED
  BY <1>2, <1>3, <1>4

LEMMA TransferAccount ==
  ASSUME TableInv, AccountInv, NEW a \in Nat, NEW b \in Nat, NEW n \in Nat,
         MemcpyH2D(a, host, n) \/ MemcpyD2H(a, n) \/ MemcpyD2D(a, b, n),
         UNCHANGED gpu_ready
  PROVE  AccountInv'
<1>1. /\ Sized(allocations') /\ VramHeld(allocations') = VramHeld(allocations)
      /\ Pushed(allocations') = Pushed(allocations) /\ UNCHANGED <<vram_free, channels>>
  BY TransferTotals DEF AccountInv
<1> QED
  BY <1>1 DEF AccountInv, Balanced

\* RemoveFirst takes an item out of a table that holds it once: a channel, or
\* a host buffer of the runtime.
LEMMA RemoveItem ==
  ASSUME NEW S, NEW s \in Seq(S), Injective(s), NEW i \in 1 .. Len(s)
  PROVE  /\ RemoveFirst(s, s[i]) \in Seq(S)
         /\ Len(RemoveFirst(s, s[i])) = Len(s) - 1
         /\ Injective(RemoveFirst(s, s[i]))
         /\ Range(RemoveFirst(s, s[i])) = Range(s) \ {s[i]}
<1> DEFINE I == {j \in 1 .. Len(s) : s[j] = s[i]}
           t == RemoveAt(s, i)
           n == Len(s)
           Old(j) == IF j < i THEN j ELSE j + 1
<1>1. n \in Nat /\ DOMAIN s = 1 .. n
  BY LenProperties
<1>2. I = {i}
  BY DEF Injective
<1>3. RemoveFirst(s, s[i]) = t
  <2>1. SelectInSeq(s, LAMBDA v : v = s[i]) = IF I # {} THEN Min(I) ELSE 0
    BY DEF SelectInSeq
  <2>2. Min({i}) = i
    <3>1. {i} \subseteq Nat /\ {i} # {}
      BY <1>1
    <3> QED
      BY <3>1, MinIn
  <2> HIDE DEF I
  <2> QED
    BY <1>2, <2>1, <2>2 DEF RemoveFirst
<1>4. t \in Seq(S) /\ Len(t) = n - 1 /\ \A j \in 1 .. n - 1 : t[j] = s[Old(j)]
  BY RemoveAtItems
<1>5. DOMAIN t = 1 .. n - 1
  BY <1>4, LenProperties
<1> HIDE DEF t
<1>6. \A j \in 1 .. n - 1 : Old(j) \in 1 .. n /\ Old(j) # i
  BY <1>1
<1>7. \A j, k \in 1 .. n - 1 : Old(j) = Old(k) => j = k
  BY <1>1
<1>8. \A k \in 1 .. n : k # i => \E j \in 1 .. n - 1 : Old(j) = k
  <2> SUFFICES ASSUME NEW k \in 1 .. n, k # i PROVE \E j \in 1 .. n - 1 : Old(j) = k
    OBVIOUS
  <2>1. CASE k < i
    <3>1. k \in 1 .. n - 1 /\ Old(k) = k
      BY <1>1, <2>1
    <3> QED
      BY <3>1
  <2>2. CASE k > i
    <3>1. k - 1 \in 1 .. n - 1 /\ Old(k - 1) = k
      BY <1>1, <2>2
    <3> QED
      BY <3>1
  <2> QED
    BY <1>1, <2>1, <2>2
<1> HIDE DEF Old
<1>9. Injective(t)
  <2>1. ASSUME NEW j \in 1 .. n - 1, NEW k \in 1 .. n - 1, t[j] = t[k]
        PROVE  j = k
    <3>1. s[Old(j)] = s[Old(k)] /\ Old(j) \in 1 .. n /\ Old(k) \in 1 .. n
      BY <1>4, <1>6, <2>1
    <3>2. Old(j) = Old(k)
      BY <3>1 DEF Injective
    <3> QED
      BY <1>7, <3>2
  <2> QED
    BY <1>4, <2>1 DEF Injective
<1>10. Range(t) = Range(s) \ {s[i]}
  <2>1. ASSUME NEW j \in 1 .. n - 1 PROVE t[j] \in Range(s) \ {s[i]}
    BY <1>1, <1>4, <1>6 DEF Injective, Range
  <2>2. ASSUME NEW k \in 1 .. n, s[k] # s[i] PROVE s[k] \in Range(t)
    <3>1. PICK j \in 1 .. n - 1 : Old(j) = k
      BY <1>8, <2>2
    <3> QED
      BY <1>4, <1>5, <3>1 DEF Range
  <2> QED
    BY <1>1, <1>5, <2>1, <2>2 DEF Range
<1> QED
  BY <1>3, <1>4, <1>9, <1>10

\* A new item is one the table does not hold: a channel is the address of a
\* new push buffer.
LEMMA AppendItem ==
  ASSUME NEW S, NEW s \in Seq(S), Injective(s), NEW c \in S, c \notin Range(s)
  PROVE  /\ Append(s, c) \in Seq(S) /\ Injective(Append(s, c))
         /\ Len(Append(s, c)) = Len(s) + 1
         /\ Range(Append(s, c)) = Range(s) \cup {c}
<1> DEFINE t == Append(s, c)
           n == Len(s)
<1>1. n \in Nat /\ DOMAIN s = 1 .. n
  BY LenProperties
<1>2. /\ t \in Seq(S) /\ Len(t) = n + 1 /\ t[n + 1] = c
      /\ \A i \in 1 .. n : t[i] = s[i]
  BY AppendProperties
<1>3. DOMAIN t = 1 .. n + 1
  BY <1>2, LenProperties
<1> HIDE DEF t
<1>4. 1 .. n + 1 = 1 .. n \cup {n + 1}
  BY <1>1
<1>5. \A i \in 1 .. n : s[i] \in Range(s)
  BY <1>1 DEF Range
<1>6. Injective(t)
  <2>1. ASSUME NEW j \in 1 .. n + 1, NEW k \in 1 .. n + 1, t[j] = t[k]
        PROVE  j = k
    <3>1. CASE j \in 1 .. n /\ k \in 1 .. n
      BY <1>2, <2>1, <3>1 DEF Injective
    <3>2. CASE j = n + 1 \/ k = n + 1
      BY <1>2, <1>4, <1>5, <2>1, <3>2
    <3> QED
      BY <1>4, <3>1, <3>2
  <2> QED
    BY <1>2, <2>1 DEF Injective
<1>7. Range(t) = Range(s) \cup {c}
  BY <1>1, <1>2, <1>3, <1>4 DEF Range
<1> QED
  BY <1>2, <1>6, <1>7 DEF t

LEMMA AccountInitially == GpuStart => AccountInv
<1>1. <<>> \in Seq(Nat) /\ Len(<<>>) = 0 /\ DOMAIN <<>> = {}
  BY EmptySeq
<1> QED
  BY <1>1 DEF GpuStart, AccountInv, Sized, Injective, Range, Pushed, Balanced

LEMMA AccountNext ==
  ASSUME NoWrap, TableInv, AccountInv, [GpuNext]_gpuVars
  PROVE  AccountInv'
<1>1. CASE GpuInit \/ GpuShutdown
  <2>1. /\ allocations' = <<>> /\ channels' = <<>>
        /\ gpu_ready' => vram_free' = VramSize
    BY <1>1 DEF GpuInit, GpuShutdown
  <2>2. <<>> \in Seq(Nat) /\ Len(<<>>) = 0 /\ DOMAIN <<>> = {}
    BY EmptySeq
  <2>3. VramSize \in Nat /\ VramHeld(<<>>) = 0
    BY GpuAssumption, HeldEmpty
  <2> QED
    BY <2>1, <2>2, <2>3
       DEF AccountInv, Sized, Injective, Range, Pushed, Balanced
<1>2. ASSUME NEW n \in Sizes, UNCHANGED <<gpu_ready, channels>>,
             AllocMemory(n, "video") \/ AllocMemoryFails(n, "video")
      PROVE  AccountInv'
  <2>1. CASE AllocMemory(n, "video")
    <3>1. /\ Sized(allocations') /\ Balanced'
          /\ Pushed(allocations') = Pushed(allocations)
      BY <1>2, <2>1, AllocAccount DEF AccountInv, Types
    <3> QED
      BY <1>2, <3>1 DEF AccountInv
  <2>2. CASE AllocMemoryFails(n, "video")
    BY <1>2, <2>2 DEF AllocMemoryFails, AccountInv, Balanced
  <2> QED
    BY <1>2, <2>1, <2>2
<1>3. CASE CallerFrees
  <2>1. PICK i \in 1 .. Len(allocations) :
          /\ allocations[i].type = "video"
          /\ FreeMemory(allocations[i].addr, allocations[i].size, allocations[i].type)
    BY <1>3, TableLen DEF CallerFrees, TableInv
  <2>2. UNCHANGED <<gpu_ready, channels>>
    BY <1>3 DEF CallerFrees
  <2>3. /\ Sized(allocations') /\ Balanced'
        /\ Pushed(allocations') = Pushed(allocations)
    BY <2>1, <2>2, FreeAccount DEF AccountInv, VideoSize
  <2> QED
    BY <2>2, <2>3 DEF AccountInv
<1>4. ASSUME CreateChannel, UNCHANGED gpu_ready
      PROVE  AccountInv'
  <2>1. /\ Sized(allocations') /\ Balanced'
        /\ Pushed(allocations') = Pushed(allocations) \cup {next_gpu_addr}
        /\ next_gpu_addr \notin Pushed(allocations)
    BY <1>4, AllocAccount DEF CreateChannel, AccountInv, Types
  <2>2. channels' = Append(channels, next_gpu_addr) /\ next_gpu_addr \in Nat
    BY <1>4 DEF CreateChannel, TableInv
  <2> QED
    BY <2>1, <2>2, AppendItem DEF AccountInv
<1>5. ASSUME CreateChannelFails, UNCHANGED gpu_ready
      PROVE  AccountInv'
  BY <1>5 DEF CreateChannelFails, AllocMemoryFails, AccountInv, Balanced
<1>6. ASSUME NEW c \in DOMAIN channels, DestroyChannel(channels[c]), UNCHANGED gpu_ready
      PROVE  AccountInv'
  <2>1. c \in 1 .. Len(channels) /\ channels[c] \in Pushed(allocations)
    BY LenProperties DEF AccountInv, Range
  <2>2. PICK i \in 1 .. Len(allocations) :
          allocations[i].type = "system" /\ allocations[i].addr = channels[c]
    BY <2>1 DEF Pushed
  <2>3. /\ Sized(allocations') /\ Balanced'
        /\ Pushed(allocations') = Pushed(allocations) \ {channels[c]}
    BY <1>6, <2>2, FreeAccount DEF DestroyChannel, AccountInv, VideoSize
  <2>4. channels' = RemoveFirst(channels, channels[c])
    BY <1>6 DEF DestroyChannel
  <2> QED
    BY <2>1, <2>3, <2>4, RemoveItem DEF AccountInv
<1>7. CASE Transfers
  <2>1. PICK n \in 1 .. HostCells \cup CopyLengths, a \in Addresses, b \in Addresses :
          MemcpyH2D(a, host, n) \/ MemcpyD2H(a, n) \/ MemcpyD2D(a, b, n)
    BY <1>7 DEF Transfers
  <2>2. n \in Nat /\ a \in Nat /\ b \in Nat
    BY TransferNaturals
  <2>3. UNCHANGED gpu_ready
    BY <1>7 DEF Transfers
  <2> QED
    BY <2>1, <2>2, <2>3, TransferAccount
<1>8. CASE HostFill \/ UNCHANGED gpuVars
  BY <1>8 DEF HostFill, gpuVars, AccountInv, Balanced
<1>9. CASE FatalCopy
  <2>1. allocations' = <<>> /\ channels' = <<>> /\ gpu_ready' = FALSE
    BY <1>9 DEF FatalCopy, MemcpyD2DDies
  <2>2. <<>> \in Seq(Nat) /\ Len(<<>>) = 0 /\ DOMAIN <<>> = {}
    BY EmptySeq
  <2> QED
    BY <2>1, <2>2 DEF AccountInv, Sized, Injective, Range, Pushed, Balanced
<1> QED
  BY <1>1, <1>2, <1>3, <1>4, <1>5, <1>6, <1>7, <1>8, <1>9 DEF GpuNext

\* The VRAM account stays exact through any sequence of allocations, failed
\* ones included, of frees and of channels: nv_gpu_free_memory and
\* nv_gpu_alloc_memory never drift apart.
THEOREM AccountIsExact == ASSUME NoWrap PROVE GpuSpec => []VramExact
<1>1. TableInv /\ AccountInv /\ [GpuNext]_gpuVars => AccountInv'
  BY AccountNext
<1>2. AccountInv => VramExact
  BY DEF AccountInv, Balanced, VramExact
<1> QED
  BY TableInitially, TableNext, AccountInitially, <1>1, <1>2, PTL DEF GpuSpec

\* Every channel has a push buffer of its own for as long as it lives, and
\* none outlives its channel, although nv_gpu_destroy_channel frees it by its
\* address alone.
THEOREM ChannelsOwnTheirBuffers == ASSUME NoWrap PROVE GpuSpec => []PushBuffers
<1>1. TableInv /\ AccountInv /\ [GpuNext]_gpuVars => AccountInv'
  BY AccountNext
<1>2. ASSUME TableInv, AccountInv PROVE PushBuffers
  <2>1. DOMAIN allocations = 1 .. Len(allocations) /\ DOMAIN channels = 1 .. Len(channels)
    BY <1>2, TableLen, LenProperties DEF TableInv, AccountInv
  <2> QED
    BY <1>2, <2>1 DEF AccountInv, Injective, Pushed, Range, PushBuffers
<1> QED
  BY TableInitially, TableNext, AccountInitially, <1>1, <1>2, PTL DEF GpuSpec

-----------------------------------------------------------------------------
(***************************************************************************)
(* The tables implement the heap of DeviceHeap, step by step.              *)
(***************************************************************************)
(***************************************************************************)
(* The refinement mapping, as functions of the table.                      *)
(***************************************************************************)
Block(r)    == [addr |-> r.addr, size |-> r.size]
BlocksOf(s) == {Block(s[i]) : i \in DOMAIN s}
CellsOf(s)  == UNION {LiveCells(s[i]) : i \in DOMAIN s}
Holding(s, a) ==
  SelectInSeq(s, LAMBDA r : r.addr <= a /\ a < r.addr + r.size)
MemOf(s) == [a \in CellsOf(s) |->
               s[Holding(s, a)].data[a - s[Holding(s, a)].addr]]

\* Every store has a cell for each cell of its record, and lies in one address
\* space with the caller's buffer.
Stored(s) ==
  \A i \in 1 .. Len(s) : /\ s[i].data \in [0 .. (s[i].size - 1) -> Values]
                        /\ s[i].size + HostCells <= Width

LEMMA HeapOfTable ==
  /\ HeapBlocks = BlocksOf(allocations) /\ HeapMem = MemOf(allocations)
  /\ HeapBlocks' = BlocksOf(allocations') /\ HeapMem' = MemOf(allocations')
BY
   DEF HeapBlocks, HeapMem, BlocksOf, Block, MemOf, CellsOf, Cell, Find,
       Holding,
       SelectInSeq

\* A cell lies in one record only.
LEMMA HoldingRecord ==
  ASSUME NEW s, NEW e, Table(s, e), Sized(s), NEW i \in 1 .. Len(s), NEW a \in LiveCells(s[i])
  PROVE  Holding(s, a) = i
<1> DEFINE I == {j \in 1 .. Len(s) : s[j].addr <= a /\ a < s[j].addr + s[j].size}
<1>1. /\ Len(s) \in Nat
      /\ \A j \in 1 .. Len(s) : s[j].size \in Nat \ {0} /\ s[j].addr \in Nat
  BY TableLen, SizedWeighed
<1>2. a \in Nat /\ s[i].addr <= a /\ a < s[i].addr + s[i].size
  BY <1>1 DEF LiveCells
<1>3. ASSUME NEW j \in 1 .. Len(s), s[j].addr <= a, a < s[j].addr + s[j].size
      PROVE  j = i
  <2>1. /\ i < j => s[i].addr + s[i].size <= s[j].addr
        /\ j < i => s[j].addr + s[j].size <= s[i].addr
    BY DEF Table, Ends
  <2>2. ~ (i < j) /\ ~ (j < i)
    BY <1>1, <1>2, <1>3, <2>1
  <2> QED
    BY <1>1, <2>2
<1>4. I = {i}
  BY <1>2, <1>3
<1>5. Holding(s, a) = IF I # {} THEN Min(I) ELSE 0
  BY DEF Holding, SelectInSeq
<1>6. Min({i}) = i
  <2>1. {i} \subseteq Nat /\ {i} # {}
    BY <1>1
  <2>2. Min({i}) \in {i}
    BY <2>1, MinIn
  <2> QED
    BY <2>2
<1> HIDE DEF I
<1> QED
  BY <1>4, <1>5, <1>6

\* A record that a search returns has the cell searched for.
LEMMA HoldingHolds ==
  ASSUME NEW s, NEW e, Table(s, e), Sized(s), NEW a \in Int, Holding(s, a) # 0
  PROVE  Holding(s, a) \in 1 .. Len(s) /\ a \in LiveCells(s[Holding(s, a)])
<1> DEFINE I == {j \in 1 .. Len(s) : s[j].addr <= a /\ a < s[j].addr + s[j].size}
           k == Holding(s, a)
<1>1. k = IF I # {} THEN Min(I) ELSE 0
  BY DEF Holding, SelectInSeq
<1>2. I \subseteq Nat
  BY TableLen
<1>3. k \in I
  <2> HIDE DEF I
  <2> QED
    BY <1>1, <1>2, MinIn
<1>4. s[k].addr \in Nat /\ s[k].size \in Nat
  BY <1>3, SizedWeighed
<1> QED
  BY <1>3, <1>4 DEF LiveCells

LEMMA MemAt ==
  ASSUME NEW s, NEW e, Table(s, e), Sized(s), NEW i \in 1 .. Len(s), NEW a \in LiveCells(s[i])
  PROVE  a \in CellsOf(s) /\ MemOf(s)[a] = s[i].data[a - s[i].addr]
<1>1. a \in CellsOf(s)
  BY TableLen DEF CellsOf
<1>2. Holding(s, a) = i
  BY HoldingRecord
<1> QED
  BY <1>1, <1>2 DEF MemOf

LEMMA CellOwner ==
  ASSUME NEW s, NEW e, Table(s, e), NEW a \in CellsOf(s)
  PROVE  \E i \in 1 .. Len(s) : a \in LiveCells(s[i])
BY TableLen DEF CellsOf

LEMMA MemIsFunction ==
  ASSUME NEW s
  PROVE  DOMAIN MemOf(s) = CellsOf(s) /\ MemOf(s) = [a \in CellsOf(s) |-> MemOf(s)[a]]
BY DEF MemOf

-----------------------------------------------------------------------------
(***************************************************************************)
(* What the operations do to blocks and memory.                            *)
(***************************************************************************)
Zeroed(r) == r.data = [c \in 0 .. (r.size - 1) |-> 0]

\* Table t has what s has, and the zeroed block of r.
HasGrown(s, t, r) ==
  /\ BlocksOf(t) = BlocksOf(s) \cup {Block(r)} /\ Block(r) \notin BlocksOf(s)
  /\ MemOf(t) = [a \in LiveCells(r) \cup CellsOf(s) |->
                   IF a \in LiveCells(r) THEN 0 ELSE MemOf(s)[a]]

LEMMA AppendHeap ==
  ASSUME NEW s, NEW e \in Nat, Table(s, e), Sized(s),
         NEW r, IsRecord(r), r.addr = e, r.size > 0, r.type \in Types, Zeroed(r)
  PROVE  HasGrown(s, Append(s, r), r)
<1> DEFINE t == Append(s, r)
           n == Len(s)
<1>1. /\ n \in Nat /\ DOMAIN s = 1 .. n
      /\ \A i \in 1 .. n : s[i].addr \in Nat /\ s[i].size \in Nat \ {0}
  BY TableLen, SizedWeighed
<1>2. Len(t) = n + 1 /\ t[n + 1] = r /\ \A i \in 1 .. n : t[i] = s[i]
  <2>1. s \in Seq(Range(s) \cup {r})
    BY SeqMonotonic DEF Table
  <2> QED
    BY <2>1, AppendProperties
<1>3. Table(t, e + r.size) /\ Sized(t)
  BY AppendTable, AppendAccount
<1>4. DOMAIN t = 1 .. n + 1 /\ 1 .. n + 1 = 1 .. n \cup {n + 1}
  BY <1>1, <1>2, <1>3, TableLen
<1> HIDE DEF t
<1>5. BlocksOf(t) = BlocksOf(s) \cup {Block(r)}
  BY <1>1, <1>2, <1>4 DEF BlocksOf
<1>6. Block(r) \notin BlocksOf(s)
  <2>1. ASSUME NEW i \in 1 .. n PROVE s[i].addr # e
    <3>1. Ends(s[i]) <= e
      BY DEF Table
    <3> QED
      BY <1>1, <3>1 DEF Ends
  <2> QED
    BY <1>1, <2>1 DEF BlocksOf, Block
<1>7. CellsOf(t) = LiveCells(r) \cup CellsOf(s)
  BY <1>1, <1>2, <1>4 DEF CellsOf
<1>8. ASSUME NEW a \in CellsOf(t)
      PROVE  MemOf(t)[a] = IF a \in LiveCells(r) THEN 0 ELSE MemOf(s)[a]
  <2>1. CASE a \in LiveCells(r)
    <3>1. MemOf(t)[a] = r.data[a - r.addr]
      <4>1. n + 1 \in 1 .. Len(t) /\ a \in LiveCells(t[n + 1])
        BY <1>1, <1>2, <2>1
      <4> QED
        BY <1>2, <1>3, <4>1, MemAt
    <3>2. a - r.addr \in 0 .. (r.size - 1)
      BY <2>1 DEF LiveCells, IsRecord
    <3> QED
      BY <2>1, <3>1, <3>2 DEF Zeroed
  <2>2. CASE a \notin LiveCells(r)
    <3>1. PICK i \in 1 .. n : a \in LiveCells(s[i])
      BY <1>7, <2>2, CellOwner
    <3>2. MemOf(s)[a] = s[i].data[a - s[i].addr]
      BY <3>1, MemAt
    <3>3. i \in 1 .. Len(t) /\ t[i] = s[i]
      BY <1>1, <1>2
    <3>4. MemOf(t)[a] = s[i].data[a - s[i].addr]
      BY <1>3, <3>1, <3>3, MemAt
    <3> QED
      BY <2>2, <3>2, <3>4
  <2> QED
    BY <2>1, <2>2
<1>9. MemOf(t) = [a \in LiveCells(r) \cup CellsOf(s) |->
                    IF a \in LiveCells(r) THEN 0 ELSE MemOf(s)[a]]
  BY <1>7, <1>8, MemIsFunction
<1> QED
  BY <1>5, <1>6, <1>9 DEF t, HasGrown

LEMMA RemoveHeap ==
  ASSUME NEW s, NEW e, Table(s, e), Sized(s), NEW k \in 1 .. Len(s)
  PROVE  LET t == RemoveAt(s, k)
         IN  /\ Block(s[k]) \in BlocksOf(s) /\ BlocksOf(t) = BlocksOf(s) \ {Block(s[k])}
             /\ MemOf(t) = [a \in CellsOf(s) \ LiveCells(s[k]) |-> MemOf(s)[a]]
<1> DEFINE t == RemoveAt(s, k)
           n == Len(s)
           Old(i) == IF i < k THEN i ELSE i + 1
<1>1. /\ n \in Nat /\ DOMAIN s = 1 .. n
      /\ \A i \in 1 .. n : s[i].addr \in Nat /\ s[i].size \in Nat \ {0}
  BY TableLen, SizedWeighed
<1>2. Len(t) = n - 1 /\ \A i \in 1 .. n - 1 : t[i] = s[Old(i)]
  BY RemoveAtItems DEF Table
<1>3. Table(t, e) /\ Sized(t)
  BY RemoveAtTable, RemoveAccount
<1>4. DOMAIN t = 1 .. n - 1
  BY <1>1, <1>2, <1>3, TableLen
<1> HIDE DEF t
<1>5. \A i \in 1 .. n - 1 : Old(i) \in 1 .. n /\ Old(i) # k
  BY <1>1
<1>6. \A j \in 1 .. n : j # k => \E i \in 1 .. n - 1 : Old(i) = j
  <2> SUFFICES ASSUME NEW j \in 1 .. n, j # k PROVE \E i \in 1 .. n - 1 : Old(i) = j
    OBVIOUS
  <2>1. CASE j < k
    BY <1>1, <2>1
  <2>2. CASE j > k
    <3>1. j - 1 \in 1 .. n - 1 /\ Old(j - 1) = j
      BY <1>1, <2>2
    <3> QED
      BY <3>1
  <2> QED
    BY <1>1, <2>1, <2>2
<1> HIDE DEF Old
<1>7. ASSUME NEW i \in 1 .. n, NEW a \in LiveCells(s[i]), a \in LiveCells(s[k])
      PROVE  i = k
  BY <1>7, HoldingRecord
<1>8. ASSUME NEW i \in 1 .. n, i # k PROVE Block(s[i]) # Block(s[k])
  <2>1. s[i].addr \in LiveCells(s[i])
    BY <1>1 DEF LiveCells
  <2>2. s[k].addr \in LiveCells(s[k])
    BY <1>1 DEF LiveCells
  <2> QED
    BY <1>7, <1>8, <2>1, <2>2 DEF Block
<1>9. Block(s[k]) \in BlocksOf(s)
  BY <1>1 DEF BlocksOf
<1>10. BlocksOf(t) = BlocksOf(s) \ {Block(s[k])}
  <2>1. ASSUME NEW i \in 1 .. n - 1 PROVE Block(t[i]) \in BlocksOf(s) \ {Block(s[k])}
    BY <1>1, <1>2, <1>5, <1>8 DEF BlocksOf
  <2>2. ASSUME NEW j \in 1 .. n, j # k PROVE Block(s[j]) \in BlocksOf(t)
    <3>1. PICK i \in 1 .. n - 1 : Old(i) = j
      BY <1>6, <2>2
    <3> QED
      BY <1>2, <1>4, <3>1 DEF BlocksOf
  <2> QED
    BY <1>1, <1>4, <2>1, <2>2 DEF BlocksOf
<1>11. CellsOf(t) = CellsOf(s) \ LiveCells(s[k])
  <2>1. ASSUME NEW a \in CellsOf(t) PROVE a \in CellsOf(s) \ LiveCells(s[k])
    <3>1. PICK i \in 1 .. n - 1 : a \in LiveCells(s[Old(i)])
      BY <1>2, <1>3, CellOwner
    <3> QED
      BY <1>1, <1>5, <1>7, <3>1 DEF CellsOf
  <2>2. ASSUME NEW a \in CellsOf(s), a \notin LiveCells(s[k]) PROVE a \in CellsOf(t)
    <3>1. PICK j \in 1 .. n : a \in LiveCells(s[j])
      BY CellOwner
    <3>2. PICK i \in 1 .. n - 1 : Old(i) = j
      BY <1>6, <2>2, <3>1
    <3> QED
      BY <1>2, <1>4, <3>1, <3>2 DEF CellsOf
  <2> QED
    BY <2>1, <2>2
<1>12. ASSUME NEW a \in CellsOf(t) PROVE MemOf(t)[a] = MemOf(s)[a]
  <2>1. PICK i \in 1 .. n - 1 : a \in LiveCells(t[i])
    BY <1>2, <1>3, CellOwner
  <2>2. MemOf(t)[a] = t[i].data[a - t[i].addr]
    BY <1>2, <1>3, <2>1, MemAt
  <2>3. MemOf(s)[a] = s[Old(i)].data[a - s[Old(i)].addr]
    BY <1>2, <1>5, <2>1, MemAt
  <2> QED
    BY <1>2, <2>2, <2>3
<1>13. MemOf(t) = [a \in CellsOf(s) \ LiveCells(s[k]) |-> MemOf(s)[a]]
  BY <1>11, <1>12, MemIsFunction
<1> QED
  BY <1>9, <1>10, <1>13 DEF t

\* d holds the n values of val from offset o on, and the old data elsewhere.
Overwrites(d, old, o, n, val) ==
  /\ DOMAIN d = DOMAIN old
  /\ \A c \in DOMAIN old : d[c] = IF c >= o /\ c < o + n THEN val[c - o] ELSE old[c]

Restored(s, k, d) == [s EXCEPT ![k].data = d]

\* n cells of record k from address a on are to get the values of val.
Storing(s, e, k, a, n, val, d) ==
  /\ Table(s, e) /\ Sized(s) /\ Stored(s)
  /\ k \in 1 .. Len(s) /\ n \in Nat /\ a \in LiveCells(s[k])
  /\ a + n <= s[k].addr + s[k].size
  /\ Overwrites(d, s[k].data, a - s[k].addr, n, val)

\* They have them, and nothing else has changed.
HasStored(s, t, a, n, val) ==
  /\ BlocksOf(t) = BlocksOf(s)
  /\ DOMAIN MemOf(t) = DOMAIN MemOf(s)
  /\ \A c \in DOMAIN MemOf(s) :
       MemOf(t)[c] = IF c \in a .. (a + n - 1) THEN val[c - a] ELSE MemOf(s)[c]

LEMMA StoreHeap ==
  ASSUME NEW s, NEW e, NEW k, NEW a, NEW n, NEW val, NEW d,
         Storing(s, e, k, a, n, val, d)
  PROVE  HasStored(s, Restored(s, k, d), a, n, val)
<1> USE DEF Storing
<1> DEFINE t == Restored(s, k, d)
           r == [s[k] EXCEPT !.data = d]
           S == Range(s) \cup {r}
<1>1. /\ s \in Seq(S) /\ Len(s) \in Nat /\ DOMAIN s = 1 .. Len(s)
      /\ \A j \in 1 .. Len(s) : s[j].addr \in Nat /\ s[j].size \in Nat \ {0}
  BY SeqMonotonic, TableLen, SizedWeighed DEF Table
<1>2. t = [s EXCEPT ![k] = r]
  BY DEF Restored
<1>3. r.addr = s[k].addr /\ r.size = s[k].size /\ r.data = d
  BY DEF Table, IsRecord, Fields
<1>4. /\ Len(t) = Len(s)
      /\ \A j \in 1 .. Len(s) : t[j] = IF j = k THEN r ELSE s[j]
  <2> HIDE DEF r
  <2> QED
    BY <1>1, <1>2, ExceptSeq
<1>5. Table(t, e) /\ Sized(t)
  BY StoreTable, StoreAccount DEF Restored
<1> HIDE DEF t, r, S
<1>6. /\ DOMAIN t = 1 .. Len(s)
      /\ \A j \in 1 .. Len(s) : t[j].addr = s[j].addr /\ t[j].size = s[j].size
  BY <1>3, <1>4, <1>5, TableLen
<1>7. BlocksOf(t) = BlocksOf(s)
  BY <1>1, <1>6 DEF BlocksOf, Block
<1>8. CellsOf(t) = CellsOf(s)
  BY <1>1, <1>6 DEF CellsOf, LiveCells
<1>9. ASSUME NEW c \in CellsOf(s)
      PROVE  MemOf(t)[c] = IF c \in a .. (a + n - 1) THEN val[c - a] ELSE MemOf(s)[c]
  <2>1. PICK i \in 1 .. Len(s) : c \in LiveCells(s[i])
    BY CellOwner
  <2>2. c \in LiveCells(t[i]) /\ i \in 1 .. Len(t)
    BY <1>4, <1>6, <2>1 DEF LiveCells
  <2>3. MemOf(s)[c] = s[i].data[c - s[i].addr]
    BY <2>1, MemAt
  <2>7. MemOf(t)[c] = t[i].data[c - t[i].addr]
    BY <1>5, <2>2, MemAt
  <2>4. c \in Nat /\ a \in Nat /\ s[k].addr <= a
    BY <1>1, <2>1 DEF LiveCells
  <2>5. CASE i = k
    <3>1. c - s[k].addr \in DOMAIN s[k].data
      <4>1. DOMAIN s[k].data = 0 .. (s[k].size - 1)
        BY <1>1 DEF Stored
      <4>2. c \in s[k].addr .. (s[k].addr + s[k].size - 1)
        BY <2>1, <2>5 DEF LiveCells
      <4>3. s[k].addr \in Nat /\ s[k].size \in Nat
        BY <1>1
      <4>4. \A x, y \in Nat : c \in x .. (x + y - 1) => c - x \in 0 .. (y - 1)
        BY <2>4
      <4> QED
        BY <4>1, <4>2, <4>3, <4>4
    <3>2. (c - s[k].addr) - (a - s[k].addr) = c - a
      BY <1>1, <2>4
    <3>3. MemOf(t)[c] = d[c - s[k].addr] /\ MemOf(s)[c] = s[k].data[c - s[k].addr]
      BY <1>3, <1>4, <2>3, <2>5, <2>7
    <3>4. (c - s[k].addr >= a - s[k].addr /\ c - s[k].addr < (a - s[k].addr) + n)
            <=> c \in a .. (a + n - 1)
      BY <1>1, <2>4
    <3> QED
      BY <3>1, <3>2, <3>3, <3>4 DEF Overwrites
  <2>6. CASE i # k
    <3>1. t[i] = s[i]
      BY <1>4, <2>6
    <3>2. c \notin LiveCells(s[k])
      BY <2>1, <2>6, HoldingRecord
    <3>3. c \notin a .. (a + n - 1)
      BY <1>1, <2>4, <3>2 DEF LiveCells
    <3> QED
      BY <2>3, <2>7, <3>1, <3>3
  <2> QED
    BY <2>5, <2>6
<1> QED
  BY <1>7, <1>8, <1>9, MemIsFunction DEF t, HasStored

-----------------------------------------------------------------------------
(***************************************************************************)
(* Stores and the host buffer keep their shape.                            *)
(***************************************************************************)
HostTyped == host \in [0 .. (HostCells - 1) -> Values]

StoresInv == Stored(allocations) /\ HostTyped

LEMMA AppendStored ==
  ASSUME NEW s, NEW e, Table(s, e), Stored(s), NEW r,
         r.data \in [0 .. (r.size - 1) -> Values], r.size + HostCells <= Width
  PROVE  Stored(Append(s, r))
<1> DEFINE t == Append(s, r)
           n == Len(s)
<1>1. n \in Nat /\ Len(t) = n + 1 /\ t[n + 1] = r /\ \A i \in 1 .. n : t[i] = s[i]
  <2>1. s \in Seq(Range(s) \cup {r})
    BY SeqMonotonic DEF Table
  <2> QED
    BY <2>1, TableLen, AppendProperties
<1>2. 1 .. n + 1 = 1 .. n \cup {n + 1}
  BY <1>1
<1> HIDE DEF t
<1>3. Stored(t)
  BY <1>1, <1>2 DEF Stored
<1> QED
  BY <1>3 DEF t

LEMMA RemoveStored ==
  ASSUME NEW s, NEW e, Table(s, e), Stored(s), NEW k \in 1 .. Len(s)
  PROVE  Stored(RemoveAt(s, k))
<1> DEFINE t == RemoveAt(s, k)
           n == Len(s)
<1>1. n \in Nat /\ Len(t) = n - 1 /\ \A i \in 1 .. n - 1 : t[i] = s[IF i < k THEN i ELSE i + 1]
  BY TableLen, RemoveAtItems DEF Table
<1> HIDE DEF t
<1>2. Stored(t)
  BY <1>1 DEF Stored
<1> QED
  BY <1>2 DEF t

LEMMA StoreStored ==
  ASSUME NEW s, NEW e, Table(s, e), Stored(s), NEW k \in 1 .. Len(s),
         NEW d \in [0 .. (s[k].size - 1) -> Values]
  PROVE  Stored([s EXCEPT ![k].data = d])
<1> DEFINE r == [s[k] EXCEPT !.data = d]
           S == Range(s) \cup {r}
           t == [s EXCEPT ![k] = r]
<1>1. s \in Seq(S)
  BY SeqMonotonic DEF Table
<1>2. /\ Len(t) = Len(s)
      /\ \A j \in 1 .. Len(s) : t[j] = IF j = k THEN r ELSE s[j]
  <2> HIDE DEF r
  <2> QED
    BY <1>1, ExceptSeq
<1>3. r.size = s[k].size /\ r.data = d
  BY DEF Table, IsRecord, Fields
<1>4. t = [s EXCEPT ![k].data = d]
  OBVIOUS
<1> HIDE DEF t, r, S
<1>5. Stored(t)
  BY <1>2, <1>3 DEF Stored
<1> QED
  BY <1>4, <1>5

-----------------------------------------------------------------------------
(***************************************************************************)
(* Transfers.                                                              *)
(***************************************************************************)
\* A range within the record its first cell lies in.
LEMMA WithinRecord ==
  ASSUME TableInv, Sized(allocations), Stored(allocations),
         NEW a \in Nat, NEW n \in Nat \ {0}, Within(a, n)
  PROVE  /\ Find(a) \in 1 .. Len(allocations)
         /\ a \in LiveCells(allocations[Find(a)])
         /\ a + n <= allocations[Find(a)].addr + allocations[Find(a)].size
         /\ a .. (a + n - 1) \subseteq LiveCells(allocations[Find(a)])
         /\ \A i \in 0 .. (n - 1) : /\ Cell(a + i) = HeapMem[a + i]
                                    /\ Cell(a + i) \in Values
<1> DEFINE k == Find(a)
           r == allocations[k]
<1>1. \A c : Find(c) = Holding(allocations, c)
  BY DEF Find, Holding, SelectInSeq
<1>2. k \in 1 .. Len(allocations) /\ a \in LiveCells(r)
  BY <1>1, HoldingHolds DEF Within, TableInv
<1>3. r.addr \in Nat /\ r.size \in Nat \ {0} /\ r.addr <= a
  BY <1>2, SizedWeighed DEF TableInv, LiveCells
<1>4. a + n <= r.addr + r.size
  BY <1>3 DEF Within
<1>5. a .. (a + n - 1) \subseteq LiveCells(r)
  BY <1>3, <1>4 DEF LiveCells
<1>6. ASSUME NEW i \in 0 .. (n - 1)
      PROVE  Cell(a + i) = HeapMem[a + i] /\ Cell(a + i) \in Values
  <2>1. a + i \in LiveCells(r)
    BY <1>5
  <2>2. Find(a + i) = k
    BY <1>1, <1>2, <2>1, HoldingRecord DEF TableInv
  <2>3. Cell(a + i) = r.data[(a + i) - r.addr]
    BY <2>2 DEF Cell
  <2>4. HeapMem[a + i] = r.data[(a + i) - r.addr]
    BY <1>2, <2>1, MemAt, HeapOfTable DEF TableInv
  <2>5. (a + i) - r.addr \in 0 .. (r.size - 1)
    BY <1>3, <2>1 DEF LiveCells
  <2> QED
    BY <1>2, <2>3, <2>4, <2>5 DEF Stored
<1> QED
  BY <1>2, <1>4, <1>5, <1>6

\* A buffer of the caller is too short for the sum of the test to wrap.
LEMMA AcceptedFits ==
  ASSUME TableInv, Sized(allocations), Stored(allocations),
         NEW a \in Nat, NEW n \in 1 .. HostCells, Accepted(a, n)
  PROVE  Within(a, n)
<1> DEFINE r == allocations[Find(a)]
           o == a - r.addr
<1>1. Find(a) = Holding(allocations, a) /\ Find(a) # 0
  BY DEF Find, Holding, SelectInSeq, Accepted
<1>2. Find(a) \in 1 .. Len(allocations) /\ a \in LiveCells(r)
  BY <1>1, HoldingHolds DEF TableInv
<1>3. r.addr \in Nat /\ r.size \in Nat \ {0} /\ r.size + HostCells <= Width
  BY <1>2, SizedWeighed DEF TableInv, Stored
<1>4. HostCells \in Nat /\ Width \in Nat \ {0}
  BY GpuAssumption
<1>5. o \in 0 .. (r.size - 1) /\ n \in 1 .. HostCells
  BY <1>2, <1>3 DEF LiveCells
<1>6. o + n \in 0 .. (Width - 1)
  BY <1>3, <1>4, <1>5
<1>7. (o + n) % Width = o + n
  BY <1>4, <1>6
<1> QED
  BY <1>1, <1>7 DEF Accepted, Within

\* What a transfer to device memory stores, at the address it stores it.
Stores(a, n, val) ==
  LET r == allocations[Find(a)]
  IN  /\ \E d : /\ d \in [DOMAIN r.data -> Values]
                /\ Overwrites(d, r.data, a - r.addr, n, val)
                /\ allocations' = [allocations EXCEPT ![Find(a)].data = d]
      /\ val \in [0 .. (n - 1) -> Values]

LEMMA StoreStep ==
  ASSUME TableInv, Sized(allocations), Stored(allocations),
         NEW a \in Nat, NEW n \in Nat \ {0}, Within(a, n), NEW val, Stores(a, n, val)
  PROVE  /\ Stored(allocations')
         /\ HeapBlocks' = HeapBlocks /\ DOMAIN HeapMem' = DOMAIN HeapMem
         /\ \A c \in DOMAIN HeapMem :
              HeapMem'[c] = IF c \in a .. (a + n - 1) THEN val[c - a] ELSE HeapMem[c]
<1> DEFINE k == Find(a)
           s == allocations
<1>1. /\ k \in 1 .. Len(s) /\ a \in LiveCells(s[k])
      /\ a + n <= s[k].addr + s[k].size
  BY WithinRecord
<1>2. PICK d : /\ d \in [DOMAIN s[k].data -> Values]
               /\ Overwrites(d, s[k].data, a - s[k].addr, n, val)
               /\ allocations' = [s EXCEPT ![k].data = d]
  BY DEF Stores
<1>3. DOMAIN s[k].data = 0 .. (s[k].size - 1)
  BY <1>1 DEF Stored
<1>4. Stored(allocations')
  BY <1>1, <1>2, <1>3, StoreStored DEF TableInv
<1> HIDE DEF k, s
<1>5. HasStored(s, allocations', a, n, val)
  <2>1. Storing(s, next_gpu_addr, k, a, n, val, d)
    BY <1>1, <1>2 DEF TableInv, s, Storing
  <2>2. HasStored(s, Restored(s, k, d), a, n, val)
    BY <2>1, StoreHeap
  <2>3. allocations' = Restored(s, k, d)
    BY <1>2 DEF Restored
  <2> QED
    BY <2>2, <2>3
<1> QED
  BY <1>4, <1>5, HeapOfTable DEF s, HasStored

\* The store of a transfer is that of the values it is given.
LEMMA StoreOverwrites ==
  ASSUME TableInv, Sized(allocations), Stored(allocations),
         NEW a \in Nat, NEW n \in Nat \ {0}, Within(a, n),
         NEW val \in [0 .. (n - 1) -> Values],
         allocations' =
           [allocations EXCEPT ![Find(a)].data =
              [c \in DOMAIN allocations[Find(a)].data |->
                 IF c >= a - allocations[Find(a)].addr
                      /\ c < a - allocations[Find(a)].addr + n
                   THEN val[c - (a - allocations[Find(a)].addr)]
                   ELSE allocations[Find(a)].data[c]]]
  PROVE  Stores(a, n, val)
<1> DEFINE r == allocations[Find(a)]
           o == a - r.addr
           d == [c \in DOMAIN r.data |->
                   IF c >= o /\ c < o + n THEN val[c - o] ELSE r.data[c]]
<1>1. Find(a) \in 1 .. Len(allocations) /\ a \in LiveCells(r)
  BY WithinRecord
<1>2. r.addr \in Nat /\ r.size \in Nat /\ r.data \in [0 .. (r.size - 1) -> Values]
  BY <1>1, SizedWeighed DEF TableInv, Stored
<1>3. ASSUME NEW c \in 0 .. (r.size - 1), c >= o, c < o + n
      PROVE  val[c - o] \in Values
  <2>1. c - o \in 0 .. (n - 1)
    BY <1>2, <1>3
  <2> QED
    BY <2>1
<1>4. d \in [DOMAIN r.data -> Values]
  BY <1>2, <1>3
<1>5. Overwrites(d, r.data, o, n, val)
  BY DEF Overwrites
<1> QED
  BY <1>4, <1>5 DEF Stores


-----------------------------------------------------------------------------
(***************************************************************************)
(* Blocks and cells, as DeviceHeap has them.                               *)
(***************************************************************************)
LEMMA BlockCells ==
  ASSUME NEW s, NEW e, Table(s, e)
  PROVE  UNION {Heap!Cells(b) : b \in BlocksOf(s)} = CellsOf(s)
<1>1. \A r : Heap!Cells(Block(r)) = LiveCells(r)
  BY DEF Block, LiveCells, Heap!Cells
<1>2. ASSUME NEW b \in BlocksOf(s) PROVE Heap!Cells(b) \subseteq CellsOf(s)
  <2>1. PICK i \in DOMAIN s : b = Block(s[i])
    BY DEF BlocksOf
  <2> QED
    BY <1>1, <2>1 DEF CellsOf
<1>3. ASSUME NEW i \in DOMAIN s
      PROVE  LiveCells(s[i]) \subseteq UNION {Heap!Cells(b) : b \in BlocksOf(s)}
  <2>1. Block(s[i]) \in BlocksOf(s)
    BY DEF BlocksOf
  <2> QED
    BY <1>1, <2>1
<1> QED
  BY <1>2, <1>3 DEF CellsOf

LEMMA EmptyHeap == BlocksOf(<<>>) = {} /\ CellsOf(<<>>) = {} /\ MemOf(<<>>) = <<>>
<1>1. DOMAIN <<>> = {}
  BY EmptySeq
<1>2. BlocksOf(<<>>) = {} /\ CellsOf(<<>>) = {}
  BY <1>1 DEF BlocksOf, CellsOf
<1>3. MemOf(<<>>) = [a \in {} |-> MemOf(<<>>)[a]]
  BY <1>2, MemIsFunction
<1>4. <<>> = [a \in {} |-> MemOf(<<>>)[a]]
  OBVIOUS
<1> QED
  BY <1>2, <1>3, <1>4

-----------------------------------------------------------------------------
(***************************************************************************)
(* The steps, each a step of the heap or none.                             *)
(***************************************************************************)
HeapInv == StoresInv /\ FirstAddr <= next_gpu_addr

LEMMA AllocHeap ==
  ASSUME NoWrap, TableInv, Sized(allocations), HeapInv,
         NEW n \in Sizes \cup {PushBuffer}, NEW type \in Types, AllocMemory(n, type),
         UNCHANGED host
  PROVE  Heap!Next /\ HeapInv'
<1> DEFINE r == Record(n, type)
           b == Block(r)
<1>1. n # 0
  BY DEF AllocMemory, Refused
<1>2. /\ n \in Nat /\ Rounded(n) \in Nat /\ Rounded(n) > 0
      /\ next_gpu_addr \in Nat /\ FirstAddr \in Nat /\ FirstAddr <= next_gpu_addr
  BY <1>1, RoundedPositive, GpuAssumption DEF TableInv, HeapInv
<1>3. /\ IsRecord(r) /\ r.addr = next_gpu_addr /\ r.size = Rounded(n) /\ r.type = type
      /\ r.data = [c \in 0 .. (r.size - 1) |-> 0]
      /\ r.data \in [0 .. (r.size - 1) -> Values]
      /\ r.size + HostCells <= Width
  BY <1>2, GpuAssumption DEF Record, IsRecord, Fields, AllocMemory, Mappable
<1>4. allocations' = Append(allocations, r) /\ next_gpu_addr' = next_gpu_addr + r.size
  BY <1>3 DEF AllocMemory, Advance
<1> HIDE DEF r
<1>5. /\ HeapBlocks' = HeapBlocks \cup {b} /\ b \notin HeapBlocks
      /\ HeapMem' = [a \in LiveCells(r) \cup DOMAIN HeapMem |->
                       IF a \in LiveCells(r) THEN 0 ELSE HeapMem[a]]
  <2> DEFINE t == Append(allocations, r)
  <2>1. HasGrown(allocations, t, r)
    <3>1. r.size > 0 /\ r.type \in Types /\ Zeroed(r)
      BY <1>2, <1>3 DEF Zeroed
    <3>2. Table(allocations, next_gpu_addr)
      BY DEF TableInv
    <3> QED
      BY <1>2, <1>3, <3>1, <3>2, AppendHeap
  <2>2. allocations' = t /\ DOMAIN MemOf(allocations) = CellsOf(allocations)
    BY <1>4, MemIsFunction
  <2> HIDE DEF t, b
  <2> QED
    BY <2>1, <2>2, HeapOfTable DEF HasGrown, b
<1>6. Heap!Cells(b) = LiveCells(r)
  BY DEF Heap!Cells, LiveCells, Block
<1>7. /\ LiveCells(r) \cap (FirstAddr .. (next_gpu_addr - 1)) = {}
      /\ FirstAddr .. (next_gpu_addr - 1) \cup LiveCells(r)
           \subseteq FirstAddr .. (next_gpu_addr' - 1)
  BY <1>2, <1>3, <1>4 DEF LiveCells
<1>8. Heap!Alloc(b)
  BY <1>5, <1>6, <1>7 DEF Heap!Alloc, Addresses
<1>9. b \in HeapBlocks' \ HeapBlocks
  BY <1>5
<1>10. HeapInv'
  <2>1. Stored(allocations')
    <3>1. Table(allocations, next_gpu_addr) /\ Stored(allocations)
      BY DEF HeapInv, StoresInv, TableInv
    <3> QED
      BY <1>3, <1>4, <3>1, AppendStored
  <2>2. HostTyped'
    BY DEF HeapInv, StoresInv, HostTyped
  <2>3. FirstAddr <= next_gpu_addr'
    BY <1>2, <1>3, <1>4
  <2> QED
    BY <2>1, <2>2, <2>3 DEF HeapInv, StoresInv
<1> QED
  BY <1>8, <1>9, <1>10 DEF Heap!Next

LEMMA AllocFailsHeap ==
  ASSUME TableInv, HeapInv, NEW n \in Nat, NEW type, AllocMemoryFails(n, type),
         UNCHANGED host
  PROVE  Heap!Next /\ HeapInv'
<1>1. /\ next_gpu_addr \in Nat /\ next_gpu_addr' \in Nat /\ FirstAddr \in Nat
      /\ next_gpu_addr <= next_gpu_addr' /\ allocations' = allocations
  BY RoundedType, GpuAssumption DEF TableInv, AllocMemoryFails, Advance
<1>2. HeapBlocks' = HeapBlocks /\ HeapMem' = HeapMem
  BY <1>1, HeapOfTable
<1>3. FirstAddr .. (next_gpu_addr - 1) \subseteq FirstAddr .. (next_gpu_addr' - 1)
  <2>1. /\ next_gpu_addr \in Nat /\ next_gpu_addr' \in Nat /\ FirstAddr \in Nat
        /\ next_gpu_addr <= next_gpu_addr'
    BY <1>1
  <2>2. \A x, y, z \in Nat : y <= z => x .. (y - 1) \subseteq x .. (z - 1)
    OBVIOUS
  <2> QED
    BY <2>1, <2>2
<1>4. Heap!PassOver
  BY <1>2, <1>3 DEF Heap!PassOver, Addresses
<1> QED
  BY <1>1, <1>4 DEF Heap!Next, HeapInv, StoresInv, HostTyped

\* The block of one record leaves.
LEMMA FreeHeap ==
  ASSUME TableInv, Sized(allocations), HeapInv, NEW i \in 1 .. Len(allocations),
         NEW size, NEW type, FreeMemory(allocations[i].addr, size, type), UNCHANGED host
  PROVE  Heap!Next /\ HeapInv'
<1> DEFINE r == allocations[i]
           b == Block(r)
<1>1. allocations' = RemoveAt(allocations, i) /\ next_gpu_addr' = next_gpu_addr
  BY FirstAtAddress DEF FreeMemory
<1>2. /\ b \in HeapBlocks /\ HeapBlocks' = HeapBlocks \ {b}
      /\ HeapMem' = [a \in DOMAIN HeapMem \ LiveCells(r) |-> HeapMem[a]]
  <2> DEFINE t == RemoveAt(allocations, i)
  <2>1. /\ b \in BlocksOf(allocations) /\ BlocksOf(t) = BlocksOf(allocations) \ {b}
        /\ MemOf(t) = [a \in CellsOf(allocations) \ LiveCells(r) |-> MemOf(allocations)[a]]
    BY RemoveHeap DEF TableInv
  <2>2. allocations' = t /\ DOMAIN MemOf(allocations) = CellsOf(allocations)
    BY <1>1, MemIsFunction
  <2> HIDE DEF t, b, r
  <2> QED
    BY <2>1, <2>2, HeapOfTable
<1>3. Heap!Cells(b) = LiveCells(r)
  BY DEF Heap!Cells, LiveCells, Block
<1> HIDE DEF b
<1>4. HeapBlocks \ HeapBlocks' = {b}
  BY <1>2
<1>5. UNION {Heap!Cells(c) : c \in {b}} = LiveCells(r)
  BY <1>3
<1>6. Heap!Free({b})
  <2>1. HeapMem' = Heap!Restrict(HeapMem, DOMAIN HeapMem \ UNION {Heap!Cells(c) : c \in {b}})
    BY <1>2, <1>5 DEF Heap!Restrict
  <2> QED
    BY <1>1, <1>2, <2>1 DEF Heap!Free, Addresses
<1>7. HeapInv'
  BY <1>1, RemoveStored DEF HeapInv, StoresInv, TableInv, HostTyped
<1>8. b \in HeapBlocks \ HeapBlocks' /\ Heap!Free(HeapBlocks \ HeapBlocks')
  BY <1>4, <1>6
<1> QED
  BY <1>7, <1>8 DEF Heap!Next

\* Every block leaves, where there is one.
LEMMA WipeHeap ==
  ASSUME TableInv, HeapInv, allocations' = <<>>, UNCHANGED <<next_gpu_addr, host>>
  PROVE  [Heap!Next]_<<HeapBlocks, HeapMem, Addresses, host>> /\ HeapInv'
<1>1. HeapBlocks' = {} /\ HeapMem' = <<>> /\ MemOf(<<>>) = <<>>
  BY EmptyHeap, HeapOfTable
<1>2. ASSUME HeapBlocks = {}
      PROVE  UNCHANGED <<HeapBlocks, HeapMem, Addresses, host>>
  <2>1. CellsOf(allocations) = {}
    BY <1>2, BlockCells, HeapOfTable DEF TableInv
  <2>2. HeapMem = [a \in {} |-> HeapMem[a]]
    BY <2>1, HeapOfTable, MemIsFunction
  <2>3. HeapMem = <<>>
    BY <2>2
  <2> QED
    BY <1>1, <1>2, <2>3 DEF Addresses
<1>3. ASSUME HeapBlocks # {}
      PROVE  Heap!Next
  <2>1. HeapBlocks \ HeapBlocks' = HeapBlocks /\ HeapBlocks \ HeapBlocks = {}
    BY <1>1
  <2>2. UNION {Heap!Cells(c) : c \in HeapBlocks} = DOMAIN HeapMem
    BY BlockCells, HeapOfTable, MemIsFunction DEF TableInv
  <2>3. <<>> = [a \in {} |-> HeapMem[a]]
    OBVIOUS
  <2>4. HeapMem' = Heap!Restrict(HeapMem, DOMAIN HeapMem \ UNION {Heap!Cells(c) : c \in HeapBlocks})
    BY <1>1, <2>2, <2>3 DEF Heap!Restrict
  <2>5. Heap!Free(HeapBlocks)
    BY <1>1, <2>1, <2>4 DEF Heap!Free, Addresses
  <2>6. \E b \in HeapBlocks \ HeapBlocks' : Heap!Free(HeapBlocks \ HeapBlocks')
    BY <1>3, <2>1, <2>5
  <2> QED
    BY <2>6 DEF Heap!Next
<1>4. HeapInv'
  <2>1. Len(<<>>) = 0
    BY EmptySeq
  <2> QED
    BY <2>1 DEF HeapInv, StoresInv, Stored, HostTyped
<1> QED
  BY <1>2, <1>3, <1>4

\* n cells from a on lie in a block, where nv_find_alloc_by_addr finds them.
LEMMA InsideBlock ==
  ASSUME TableInv, Sized(allocations), Stored(allocations),
         NEW a \in Nat, NEW n \in Nat \ {0}, Within(a, n)
  PROVE  /\ Heap!Inside(a, n)
         /\ \E b \in HeapBlocks : a \in Heap!Cells(b)
         /\ a .. (a + n - 1) \subseteq DOMAIN HeapMem
<1> DEFINE r == allocations[Find(a)]
           b == Block(r)
<1>1. /\ Find(a) \in DOMAIN allocations /\ a \in LiveCells(r)
      /\ a .. (a + n - 1) \subseteq LiveCells(r)
  BY WithinRecord, TableLen DEF TableInv
<1>2. Heap!Cells(b) = LiveCells(r)
  BY DEF Heap!Cells, LiveCells, Block
<1>3. b \in HeapBlocks /\ LiveCells(r) \subseteq CellsOf(allocations)
  BY <1>1, HeapOfTable DEF BlocksOf, CellsOf
<1>4. DOMAIN HeapMem = CellsOf(allocations)
  BY HeapOfTable, MemIsFunction
<1> HIDE DEF b, r
<1> QED
  BY <1>1, <1>2, <1>3, <1>4 DEF Heap!Inside

LEMMA HostFits ==
  ASSUME HeapInv, NEW n \in 1 .. HostCells
  PROVE  Heap!HostFits(n) /\ n \in Nat \ {0}
<1>1. HostCells \in Nat
  BY GpuAssumption
<1>2. DOMAIN host = 0 .. (HostCells - 1)
  BY DEF HeapInv, StoresInv, HostTyped
<1>3. n \in Nat \ {0} /\ 0 .. (n - 1) \subseteq 0 .. (HostCells - 1)
  BY <1>1
<1> QED
  BY <1>2, <1>3 DEF Heap!HostFits

\* A transfer whose range is in no record moves nothing.
LEMMA WriteHeap ==
  ASSUME TableInv, Sized(allocations), HeapInv, NEW a \in Nat, NEW n \in 1 .. HostCells,
         MemcpyH2D(a, host, n)
  PROVE  /\ Heap!Next \/ UNCHANGED <<allocations, next_gpu_addr, host>>
         /\ HeapInv'
<1>1. UNCHANGED <<next_gpu_addr, host>>
  BY DEF MemcpyH2D
<1>2. CASE ~ Accepted(a, n)
  BY <1>1, <1>2 DEF MemcpyH2D, HeapInv, StoresInv, HostTyped
<1>3. CASE Accepted(a, n) /\ Within(a, n)
  <2> DEFINE val == [i \in 0 .. (n - 1) |-> host[i]]
  <2>1. Heap!HostFits(n) /\ n \in Nat \ {0} /\ Stored(allocations)
    BY HostFits DEF HeapInv, StoresInv
  <2>2. 0 .. (n - 1) \subseteq DOMAIN host /\ host \in [DOMAIN host -> Values]
    BY <2>1 DEF Heap!HostFits, HeapInv, StoresInv, HostTyped
  <2>3. val \in [0 .. (n - 1) -> Values]
    BY <2>2
  <2>4. Stores(a, n, val)
    <3> DEFINE r == allocations[Find(a)]
               o == a - r.addr
    <3>1. r.addr \in Nat /\ DOMAIN r.data = 0 .. (r.size - 1) /\ r.size \in Nat
      BY <1>3, <2>1, WithinRecord, SizedWeighed DEF TableInv, Stored
    <3>2. allocations' = [allocations EXCEPT ![Find(a)].data =
            [c \in DOMAIN r.data |-> IF c >= o /\ c < o + n THEN val[c - o] ELSE r.data[c]]]
      BY <1>3 DEF MemcpyH2D, Store
    <3> HIDE DEF val
    <3> QED
      BY <1>3, <2>1, <2>3, <3>2, StoreOverwrites
  <2>5. /\ Stored(allocations') /\ HeapBlocks' = HeapBlocks
        /\ DOMAIN HeapMem' = DOMAIN HeapMem
        /\ \A c \in DOMAIN HeapMem :
             HeapMem'[c] = IF c \in a .. (a + n - 1) THEN val[c - a] ELSE HeapMem[c]
    <3> HIDE DEF val
    <3> QED
      BY <1>3, <2>1, <2>4, StoreStep
  <2>6. UNION {Heap!Cells(b) : b \in HeapBlocks} = DOMAIN HeapMem
    BY BlockCells, HeapOfTable, MemIsFunction DEF TableInv
  <2>7. \A c \in a .. (a + n - 1) : val[c - a] = host[c - a]
    BY <2>1
  <2>8. /\ \A c \in UNION {Heap!Cells(b) : b \in HeapBlocks} :
             HeapMem'[c] = IF c \in a .. (a + n - 1) THEN host[c - a] ELSE HeapMem[c]
    <3> HIDE DEF val
    <3> QED
      BY <2>5, <2>6, <2>7
  <2>9. Heap!Write(a, n) /\ HeapBlocks' = HeapBlocks
    <3> HIDE DEF val
    <3>1. Heap!Inside(a, n)
      BY <1>3, <2>1, InsideBlock
    <3> QED
      BY <1>1, <2>1, <2>5, <2>8, <3>1 DEF Heap!Write, Heap!MemBecomes, Addresses
  <2>10. PICK b \in HeapBlocks : a \in Heap!Cells(b)
    BY <1>3, <2>1, InsideBlock
  <2>11. Heap!Next
    BY <2>9, <2>10 DEF Heap!Next
  <2> QED
    BY <1>1, <2>5, <2>11 DEF HeapInv, StoresInv, HostTyped
<1> QED
  BY <1>2, <1>3, AcceptedFits DEF HeapInv, StoresInv

LEMMA ReadHeap ==
  ASSUME TableInv, Sized(allocations), HeapInv, NEW a \in Nat, NEW n \in 1 .. HostCells,
         MemcpyD2H(a, n)
  PROVE  /\ Heap!Next \/ UNCHANGED <<allocations, next_gpu_addr, host>>
         /\ HeapInv'
<1>1. UNCHANGED <<next_gpu_addr, allocations>>
  BY DEF MemcpyD2H
<1>2. CASE ~ Accepted(a, n)
  BY <1>1, <1>2 DEF MemcpyD2H, HeapInv, StoresInv, HostTyped
<1>3. CASE Accepted(a, n) /\ Within(a, n)
  <2>1. Heap!HostFits(n) /\ n \in Nat \ {0} /\ Stored(allocations)
    BY HostFits DEF HeapInv, StoresInv
  <2>2. host' = [i \in DOMAIN host |-> IF i < n THEN Cell(a + i) ELSE host[i]]
    BY <1>3 DEF MemcpyD2H
  <2>3. /\ DOMAIN host = 0 .. (HostCells - 1) /\ HostCells \in Nat
        /\ host \in [DOMAIN host -> Values]
    BY GpuAssumption DEF HeapInv, StoresInv, HostTyped
  <2>4. \A i \in 0 .. (n - 1) : Cell(a + i) = HeapMem[a + i] /\ Cell(a + i) \in Values
    BY <1>3, <2>1, WithinRecord
  <2>5. \A i \in DOMAIN host : i < n => i \in 0 .. (n - 1)
    BY <2>1, <2>3
  <2>6. \A i \in DOMAIN host : host'[i] = IF i < n THEN HeapMem[a + i] ELSE host[i]
    BY <2>2, <2>4, <2>5
  <2>7. host' \in [0 .. (HostCells - 1) -> Values]
    BY <2>2, <2>3, <2>4, <2>5
  <2>8. HeapBlocks' = HeapBlocks /\ HeapMem' = HeapMem
    BY <1>1, HeapOfTable
  <2>9. Heap!Read(a, n)
    <3>1. Heap!Inside(a, n)
      BY <1>3, <2>1, InsideBlock
    <3> QED
      BY <1>1, <2>1, <2>6, <2>8, <3>1 DEF Heap!Read, Addresses
  <2>10. PICK b \in HeapBlocks : a \in Heap!Cells(b)
    BY <1>3, <2>1, InsideBlock
  <2>11. Heap!Next
    BY <2>8, <2>9, <2>10 DEF Heap!Next
  <2> QED
    BY <1>1, <2>7, <2>11 DEF HeapInv, StoresInv, HostTyped
<1> QED
  BY <1>2, <1>3, AcceptedFits DEF HeapInv, StoresInv

LEMMA CopyHeap ==
  ASSUME TableInv, Sized(allocations), HeapInv, NEW a \in Nat, NEW f \in Nat,
         NEW n \in Nat, MemcpyD2D(a, f, n)
  PROVE  /\ n \in CopyLengths => Heap!Next \/ UNCHANGED <<allocations, next_gpu_addr, host>>
         /\ HeapInv'
<1>1. UNCHANGED <<next_gpu_addr, host>>
  BY DEF MemcpyD2D
<1>2. CASE ~ (Accepted(f, n) /\ Accepted(a, n))
  BY <1>1, <1>2 DEF MemcpyD2D, HeapInv, StoresInv, HostTyped
<1>3. CASE /\ Accepted(f, n) /\ Accepted(a, n)
           /\ Within(f, n) /\ Within(a, n)
  <2> DEFINE val == [i \in 0 .. (n - 1) |-> Cell(f + i)]
  <2>1. n \in Nat \ {0} /\ Stored(allocations)
    BY DEF MemcpyD2D, HeapInv, StoresInv
  <2>2. \A i \in 0 .. (n - 1) : Cell(f + i) = HeapMem[f + i] /\ Cell(f + i) \in Values
    BY <1>3, <2>1, WithinRecord
  <2>3. val \in [0 .. (n - 1) -> Values]
    BY <2>2
  <2>4. Stores(a, n, val)
    <3> DEFINE r == allocations[Find(a)]
               o == a - r.addr
    <3>1. r.addr \in Nat /\ DOMAIN r.data = 0 .. (r.size - 1) /\ r.size \in Nat
      BY <1>3, <2>1, WithinRecord, SizedWeighed DEF TableInv, Stored
    <3>2. allocations' = [allocations EXCEPT ![Find(a)].data =
            [c \in DOMAIN r.data |-> IF c >= o /\ c < o + n THEN val[c - o] ELSE r.data[c]]]
      BY <1>3 DEF MemcpyD2D, Store
    <3> HIDE DEF val
    <3> QED
      BY <1>3, <2>1, <2>3, <3>2, StoreOverwrites
  <2>5. /\ Stored(allocations') /\ HeapBlocks' = HeapBlocks
        /\ DOMAIN HeapMem' = DOMAIN HeapMem
        /\ \A c \in DOMAIN HeapMem :
             HeapMem'[c] = IF c \in a .. (a + n - 1) THEN val[c - a] ELSE HeapMem[c]
    <3> HIDE DEF val
    <3> QED
      BY <1>3, <2>1, <2>4, StoreStep
  <2>6. UNION {Heap!Cells(b) : b \in HeapBlocks} = DOMAIN HeapMem
    BY BlockCells, HeapOfTable, MemIsFunction DEF TableInv
  <2>7. \A c \in a .. (a + n - 1) : val[c - a] = HeapMem[f + (c - a)]
    <3>1. \A c \in a .. (a + n - 1) : c - a \in 0 .. (n - 1)
      BY <2>1
    <3> QED
      BY <2>2, <3>1
  <2> HIDE DEF val
  <2>8. /\ \A c \in UNION {Heap!Cells(b) : b \in HeapBlocks} :
             HeapMem'[c] = IF c \in a .. (a + n - 1) THEN HeapMem[f + (c - a)] ELSE HeapMem[c]
    BY <2>5, <2>6, <2>7
  <2>9. Heap!Copy(a, f, n)
    <3>1. Heap!Inside(a, n) /\ Heap!Inside(f, n)
      BY <1>3, <2>1, InsideBlock
    <3> QED
      BY <1>1, <2>5, <2>8, <3>1 DEF Heap!Copy, Heap!MemBecomes, Addresses
  <2>10. PICK b \in HeapBlocks : a \in Heap!Cells(b)
    BY <1>3, <2>1, InsideBlock
  <2>11. PICK c \in HeapBlocks : f \in Heap!Cells(c)
    BY <1>3, <2>1, InsideBlock
  <2>12. n \in CopyLengths => Heap!Next
    BY <2>5, <2>9, <2>10, <2>11 DEF Heap!Next
  <2> QED
    BY <1>1, <2>5, <2>12 DEF HeapInv, StoresInv, HostTyped
<1> QED
  BY <1>2, <1>3 DEF MemcpyD2D, Overruns

\* A store of cells from anywhere, such as the buffer of a memset.
LEMMA StoredFromAnywhere ==
  ASSUME TableInv, Sized(allocations), HeapInv, NEW a \in Nat, NEW n \in Nat \ {0},
         NEW src, \A i \in 0 .. (n - 1) : src[i] \in Values, MemcpyH2D(a, src, n)
  PROVE  HeapInv'
<1>1. UNCHANGED <<next_gpu_addr, host>> /\ Stored(allocations)
  BY DEF MemcpyH2D, HeapInv, StoresInv
<1>2. CASE ~ Accepted(a, n)
  BY <1>1, <1>2 DEF MemcpyH2D, HeapInv, StoresInv, HostTyped
<1>3. CASE Accepted(a, n)
  <2> DEFINE r == allocations[Find(a)]
             o == a - r.addr
             val == [i \in 0 .. (n - 1) |-> src[i]]
             d == [c \in DOMAIN r.data |->
                     IF c >= o /\ c < o + n THEN val[c - o] ELSE r.data[c]]
  <2>1. Find(a) \in 1 .. Len(allocations) /\ Table(allocations, next_gpu_addr)
    BY <1>3, TableLen, FindIndex DEF TableInv, Accepted
  <2>2. r.addr \in Nat /\ r.size \in Nat /\ r.data \in [0 .. (r.size - 1) -> Values]
    BY <1>1, <2>1, SizedWeighed DEF Stored
  <2>3. ASSUME NEW c \in 0 .. (r.size - 1), c >= o, c < o + n
        PROVE  val[c - o] \in Values
    <3>1. c - o \in 0 .. (n - 1)
      BY <2>2, <2>3
    <3> QED
      BY <3>1
  <2>4. d \in [0 .. (r.size - 1) -> Values]
    BY <2>2, <2>3
  <2>5. allocations' = [allocations EXCEPT ![Find(a)].data = d]
    BY <1>3 DEF MemcpyH2D, Store
  <2> HIDE DEF d
  <2>6. Stored(allocations')
    BY <1>1, <2>1, <2>4, <2>5, StoreStored
  <2> QED
    BY <1>1, <2>6 DEF HeapInv, StoresInv, HostTyped
<1> QED
  BY <1>2, <1>3

-----------------------------------------------------------------------------
LEMMA HeapInitially == GpuStart => HeapInv /\ Heap!Init
<1> SUFFICES ASSUME GpuStart PROVE HeapInv /\ Heap!Init
  OBVIOUS
<1>1. /\ allocations = <<>> /\ next_gpu_addr = FirstAddr
      /\ host = [i \in 0 .. (HostCells - 1) |-> 0]
  BY DEF GpuStart
<1>2. FirstAddr \in Nat /\ 0 \in Values /\ Len(<<>>) = 0
  BY GpuAssumption, EmptySeq
<1>3. HeapInv
  BY <1>1, <1>2 DEF HeapInv, StoresInv, Stored, HostTyped
<1>4. HeapBlocks = {} /\ HeapMem = <<>>
  BY <1>1, EmptyHeap, HeapOfTable
<1>5. Addresses = {}
  BY <1>1, <1>2 DEF Addresses
<1>6. host = [i \in DOMAIN host |-> 0]
  BY <1>1
<1> QED
  BY <1>3, <1>4, <1>5, <1>6 DEF Heap!Init

\* A copy kills the process only by a length that is near the word's.
LEMMA DieHeap ==
  ASSUME TableInv, Sized(allocations), HeapInv, NEW a \in Addresses, NEW f \in Addresses,
         NEW n \in CopyLengths, MemcpyD2DDies(a, f, n)
  PROVE  Heap!Next /\ HeapInv'
<1>1. a \in Nat /\ f \in Nat /\ n \in Nat /\ Width \in Nat \ {0} /\ n < Width
  BY TransferNaturals, GpuAssumption
<1>2. PICK x \in {a, f} : Accepted(x, n) /\ ~ Within(x, n)
  BY DEF MemcpyD2DDies, Overruns
<1> DEFINE r == allocations[Find(x)]
           o == x - r.addr
<1>3. Find(x) = Holding(allocations, x) /\ Find(x) # 0 /\ x \in Nat
  BY <1>1, <1>2 DEF Find, Holding, SelectInSeq, Accepted
<1>4. Find(x) \in 1 .. Len(allocations) /\ x \in LiveCells(r)
  BY <1>3, HoldingHolds DEF TableInv
<1>5. r.addr \in Nat /\ r.size \in Nat \ {0} /\ o \in 0 .. (r.size - 1)
  BY <1>4, SizedWeighed DEF TableInv, LiveCells
<1>6. (o + n) % Width <= r.size /\ o + n > r.size
  BY <1>1, <1>2, <1>3, <1>5 DEF Accepted, Within
<1>7. n > Width - r.size
  <2>1. CASE o + n < Width
    BY <1>1, <1>5, <1>6, <2>1
  <2>2. CASE o + n >= Width
    BY <1>1, <1>5, <2>2
  <2> QED
    BY <1>1, <1>5, <2>1, <2>2
<1>8. Heap!TooLong(n)
  <2>1. Block(r) \in HeapBlocks /\ Block(r).size = r.size
    BY <1>4, HeapOfTable, TableLen DEF TableInv, BlocksOf, Block
  <2> QED
    BY <1>7, <2>1 DEF Heap!TooLong
<1>9. /\ allocations' = <<>> /\ next_gpu_addr' = FirstAddr
      /\ host' = [i \in 0 .. (HostCells - 1) |-> 0]
  BY DEF MemcpyD2DDies
<1>10. FirstAddr \in Nat /\ 0 \in Values /\ Len(<<>>) = 0
  BY GpuAssumption, EmptySeq
<1>11. HeapBlocks' = {} /\ HeapMem' = <<>> /\ Addresses' = {}
  BY <1>9, <1>10, EmptyHeap, HeapOfTable DEF Addresses
<1>12. Heap!Die
  BY <1>8, <1>9, <1>11 DEF Heap!Die
<1>13. HeapInv'
  BY <1>9, <1>10 DEF HeapInv, StoresInv, Stored, HostTyped
<1> QED
  BY <1>12, <1>13 DEF Heap!Next

LEMMA HeapNext ==
  ASSUME NoWrap, TableInv, AccountInv, HeapInv, [GpuNext]_gpuVars
  PROVE  [Heap!Next]_<<HeapBlocks, HeapMem, Addresses, host>> /\ HeapInv'
<1> DEFINE Same == UNCHANGED <<allocations, next_gpu_addr, host>>
<1>0. Sized(allocations)
  BY DEF AccountInv
<1>1. ASSUME GpuInit \/ GpuShutdown, UNCHANGED host
      PROVE  [Heap!Next]_<<HeapBlocks, HeapMem, Addresses, host>>
             /\ HeapInv'
  <2>1. allocations' = <<>> /\ UNCHANGED next_gpu_addr
    BY <1>1 DEF GpuInit, GpuShutdown
  <2> QED
    BY <1>1, <2>1, WipeHeap
<1>2. ASSUME NEW n \in Sizes, AllocMemory(n, "video") \/ AllocMemoryFails(n, "video"),
             UNCHANGED host
      PROVE  Heap!Next /\ HeapInv'
  <2>1. n \in Nat
    BY GpuAssumption
  <2> QED
    BY <1>0, <1>2, <2>1, AllocHeap, AllocFailsHeap DEF Types
<1>3. ASSUME CallerFrees
      PROVE  Heap!Next /\ HeapInv'
  <2>1. PICK i \in 1 .. Len(allocations) :
          FreeMemory(allocations[i].addr, allocations[i].size, allocations[i].type)
    BY <1>3, TableLen DEF CallerFrees, TableInv
  <2>2. UNCHANGED host
    BY <1>3 DEF CallerFrees
  <2> QED
    BY <1>0, <2>1, <2>2, FreeHeap
<1>4. ASSUME CreateChannel \/ CreateChannelFails, UNCHANGED host
      PROVE  (Heap!Next \/ Same) /\ HeapInv'
  <2>1. PushBuffer \in Nat
    BY GpuAssumption
  <2>2. CASE UNCHANGED <<next_gpu_addr, vram_free, allocations>>
    BY <1>4, <2>2 DEF HeapInv, StoresInv, HostTyped
  <2> QED
    BY <1>0, <1>4, <2>1, <2>2, AllocHeap, AllocFailsHeap
       DEF CreateChannel, CreateChannelFails, Types
<1>5. ASSUME NEW c \in DOMAIN channels, DestroyChannel(channels[c]), UNCHANGED host
      PROVE  Heap!Next /\ HeapInv'
  <2>1. c \in 1 .. Len(channels) /\ channels[c] \in Pushed(allocations)
    BY LenProperties DEF AccountInv, Range
  <2>2. PICK i \in 1 .. Len(allocations) : allocations[i].addr = channels[c]
    BY <2>1 DEF Pushed
  <2>3. FreeMemory(allocations[i].addr, 0, "system")
    BY <1>5, <2>2 DEF DestroyChannel
  <2> QED
    BY <1>0, <1>5, <2>3, FreeHeap
<1>6. ASSUME Transfers
      PROVE  (Heap!Next \/ Same) /\ HeapInv'
  <2>1. PICK a \in Addresses, f \in Addresses :
          \/ \E n \in 1 .. HostCells : MemcpyH2D(a, host, n) \/ MemcpyD2H(a, n)
          \/ \E n \in CopyLengths : MemcpyD2D(a, f, n)
    BY <1>6 DEF Transfers
  <2>2. a \in Nat /\ f \in Nat /\ CopyLengths \subseteq Nat
    BY TransferNaturals
  <2> QED
    BY <1>0, <2>1, <2>2, WriteHeap, ReadHeap, CopyHeap
<1>7. ASSUME HostFill
      PROVE  Heap!Next /\ HeapInv'
  <2>1. UNCHANGED <<allocations, next_gpu_addr>> /\ host' \in [0 .. (HostCells - 1) -> Values]
    BY <1>7 DEF HostFill
  <2>2. DOMAIN host = 0 .. (HostCells - 1)
    BY DEF HeapInv, StoresInv, HostTyped
  <2>3. Heap!Fill
    BY <2>1, <2>2, HeapOfTable DEF Heap!Fill, Addresses
  <2> QED
    BY <2>1, <2>3 DEF Heap!Next, HeapInv, StoresInv, HostTyped
<1>8. ASSUME UNCHANGED gpuVars
      PROVE  Same /\ HeapInv'
  BY <1>8 DEF gpuVars, HeapInv, StoresInv, HostTyped
<1>9. Same => UNCHANGED <<HeapBlocks, HeapMem, Addresses, host>>
  BY HeapOfTable DEF Addresses
<1>10. ASSUME FatalCopy
       PROVE  Heap!Next /\ HeapInv'
  BY <1>0, <1>10, DieHeap DEF FatalCopy
<1> HIDE DEF Same
<1> QED
  BY <1>1, <1>2, <1>3, <1>4, <1>5, <1>6, <1>7, <1>8, <1>9, <1>10 DEF GpuNext

\* The tables of the driver implement the heap: an allocation is zeroed and
\* at addresses no block ever had, a transfer moves the cells it names and
\* nothing else, and device memory changes by nothing else, whatever
\* nv_find_alloc_by_addr has to search and whatever half-fails.
THEOREM TablesImplementHeap == ASSUME NoWrap PROVE GpuSpec => HeapSpec
<1>1. TableInv /\ AccountInv /\ [GpuNext]_gpuVars => AccountInv'
  BY AccountNext
<1>2. TableInv /\ AccountInv /\ HeapInv /\ [GpuNext]_gpuVars
        => [Heap!Next]_<<HeapBlocks, HeapMem, Addresses, host>>
           /\ HeapInv'
  BY HeapNext
<1>3. GpuStart => HeapInv /\ Heap!Init
  BY HeapInitially
<1> QED
  BY TableInitially, TableNext, AccountInitially, <1>1, <1>2, <1>3, PTL
     DEF GpuSpec, HeapSpec, Heap!Spec, Heap!heapVars
=============================================================================
