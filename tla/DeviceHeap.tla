----------------------------- MODULE DeviceHeap -----------------------------
(***************************************************************************)
(* What the GPU driver promises about device memory, whatever tables it    *)
(* keeps: a block is handed out zeroed, at addresses no block ever had; a  *)
(* transfer touches one block and only the cells it names; memory changes  *)
(* by nothing else, unless a copy is asked that no memory could hold.      *)
(***************************************************************************)
EXTENDS Integers, Functions

CONSTANTS Values,      \* what a cell can hold
          Zero,        \* one of them: what a fresh cell holds
          Width,       \* cells in an address space
          Lengths,     \* lengths of transfers from and to the host
          CopyLengths  \* lengths of copies within the device

VARIABLES blocks, \* blocks in use, each [addr, size]
          mem,    \* contents of their cells
          used,   \* addresses that were handed out, or passed over
          host    \* the host buffer transfers come from and go to

heapVars == <<blocks, mem, used, host>>

Cells(b)      == b.addr .. (b.addr + b.size - 1)
Inside(a, n)  == \E b \in blocks : a .. (a + n - 1) \subseteq Cells(b)
HostFits(n)   == 0 .. (n - 1) \subseteq DOMAIN host

Init == blocks = {} /\ mem = <<>> /\ used = {} /\ host = [i \in DOMAIN host |-> Zero]

Alloc(b) ==
  /\ Cells(b) \cap used = {}
  /\ blocks' = blocks \cup {b}
  /\ mem' = [a \in Cells(b) \cup DOMAIN mem |-> IF a \in Cells(b) THEN Zero ELSE mem[a]]
  /\ used \cup Cells(b) \subseteq used'
  /\ UNCHANGED host

Free(S) ==
  /\ blocks' = blocks \ S
  /\ mem' = Restrict(mem, DOMAIN mem \ UNION {Cells(b) : b \in S})
  /\ UNCHANGED <<used, host>>

PassOver == used \subseteq used' /\ UNCHANGED <<blocks, mem, host>>

\* The n cells from a on are given new contents, the others keep theirs.
MemBecomes(a, n, new) ==
  /\ \A c \in UNION {Cells(b) : b \in blocks} :
       mem'[c] = IF c \in a .. (a + n - 1) THEN new[c - a] ELSE mem[c]
  /\ DOMAIN mem' = DOMAIN mem

Write(a, n) ==
  /\ Inside(a, n) /\ HostFits(n)
  /\ MemBecomes(a, n, [i \in 0 .. (n - 1) |-> host[i]])
  /\ UNCHANGED <<blocks, used, host>>

Read(a, n) ==
  /\ Inside(a, n) /\ HostFits(n)
  /\ \A i \in DOMAIN host : host'[i] = IF i < n THEN mem[a + i] ELSE host[i]
  /\ UNCHANGED <<blocks, used, mem>>

Copy(to, from, n) ==
  /\ Inside(to, n) /\ Inside(from, n)
  /\ MemBecomes(to, n, [i \in 0 .. (n - 1) |-> mem[from + i]])
  /\ UNCHANGED <<blocks, used, host>>

\* A length so near that of an address space that it passes for one of a block
\* is outside the promise: the process does not survive it.
TooLong(n) == \E b \in blocks : n > Width - b.size

Die ==
  /\ \E n \in CopyLengths : TooLong(n)
  /\ blocks' = {} /\ mem' = <<>> /\ used' = {} /\ host' = [i \in DOMAIN host' |-> Zero]

Fill == host' \in [DOMAIN host -> Values] /\ UNCHANGED <<blocks, mem, used>>

Next ==
  \/ PassOver \/ Fill \/ Die
  \/ \E b \in blocks' \ blocks : Alloc(b)
  \/ \E b \in blocks \ blocks' : Free(blocks \ blocks')
  \/ /\ blocks' = blocks
     /\ \E b \in blocks : \E a \in Cells(b) :
          \/ \E n \in Lengths : Write(a, n) \/ Read(a, n)
          \/ \E c \in blocks : \E from \in Cells(c), n \in CopyLengths : Copy(a, from, n)

Spec == Init /\ [][Next]_heapVars
=============================================================================
