--------------------------- MODULE MemoryPoolProofs ---------------------------
(***************************************************************************)
(* Lemmas about one pool of MemoryManager: what traversals and searches of *)
(* its lists visit, and what pool_alloc and pool_free make of the lists    *)
(* and of the blocks on them.                                              *)
(***************************************************************************)
EXTENDS MemoryManager, SequenceTheorems, FiniteSetTheorems,
        WellFoundedInduction, TLAPS

Ptr == Cells \cup {Null}

CellRec ==
  [addr : Nat, size : Nat, host : Hosts \cup {Null}, flags : Pools \cup {"none"},
   allocated : BOOLEAN, managed : BOOLEAN, next : Ptr, prev : Ptr]
Heaps == [Cells -> CellRec]

\* What is at a place of a list, and around its ends.
At(s, i) == IF i \in 1 .. Len(s) THEN s[i] ELSE Null

Injective(s) == \A i, j \in 1 .. Len(s) : s[i] = s[j] => i = j

\* The cells of s are a list, in both directions, that starts at h.
Chain(hp, h, s) ==
  /\ s \in Seq(Cells) /\ Injective(s) /\ h = At(s, 1)
  /\ \A i \in 1 .. Len(s) : hp[s[i]].next = At(s, i + 1) /\ hp[s[i]].prev = At(s, i - 1)

-----------------------------------------------------------------------------
(***************************************************************************)
(* The traversal of a list visits the list.                                *)
(***************************************************************************)
\* A set of naturals that is not empty has a least element.
LEMMA LeastNatural ==
  ASSUME NEW T, T \subseteq Nat, T # {}
  PROVE  \E x \in T : \A y \in T : x <= y
<1> DEFINE R == {ss \in Nat \X Nat : ss[1] < ss[2]}
<1>1. IsWellFoundedOn(R, Nat)
  BY NatLessThanWellFounded DEF OpToRel
<1>2. PICK x \in T : \A y \in T : <<y, x>> \notin R
  <2> HIDE DEF R
  <2> QED
    BY <1>1, WFMin, Zenon
<1>3. ASSUME NEW y \in T PROVE x <= y
  <2>1. x \in Nat /\ y \in Nat
    OBVIOUS
  <2>2. y < x => <<y, x>> \in R
    BY <2>1
  <2> QED
    BY <1>2, <2>1, <2>2
<1> QED
  BY <1>3

\* The traversals of k steps, from those of k - 1; and those of up to n.
Row(before, hp, k) ==
  [d \in Cells \cup {Null} |->
     IF k = 0 \/ d = Null THEN <<>> ELSE <<d>> \o before[hp[d].next]]
Walks(w, hp, n) == w = [k \in 0 .. n |-> Row(w[k - 1], hp, k)]

LEMMA WalksValue ==
  ASSUME NEW w, NEW hp, NEW n \in Nat, Walks(w, hp, n), NEW k \in 0 .. n, NEW d \in Ptr
  PROVE  w[k][d] = IF k = 0 \/ d = Null THEN <<>> ELSE <<d>> \o w[k - 1][hp[d].next]
<1>1. w[k] = Row(w[k - 1], hp, k)
  <2> DEFINE W == [j \in 0 .. n |-> Row(w[j - 1], hp, j)]
  <2>1. W[k] = Row(w[k - 1], hp, k)
    OBVIOUS
  <2>2. w = W
    BY DEF Walks
  <2> HIDE DEF W
  <2> QED
    BY <2>1, <2>2
<1> QED
  BY <1>1 DEF Row, Ptr

LEMMA WalksExist ==
  ASSUME NEW hp, NEW n \in Nat
  PROVE  \E w : Walks(w, hp, n)
<1> DEFINE T == {m \in Nat : ~ \E w : Walks(w, hp, m)}
<1>0. \A x, y : Row(x, hp, 0) = Row(y, hp, 0)
  BY DEF Row
<1>1. SUFFICES ASSUME T # {} PROVE FALSE
  OBVIOUS
<1>2. PICK m \in T : \A k \in T : m <= k
  <2> HIDE DEF T
  <2>1. T \subseteq Nat
    BY DEF T
  <2> QED
    BY <1>1, <2>1, LeastNatural
<1>3. CASE m = 0
  <2> DEFINE w == [k \in 0 .. 0 |-> Row(0, hp, 0)]
  <2>1. w = [k \in 0 .. 0 |-> Row(w[k - 1], hp, k)]
    <3>1. \A k \in 0 .. 0 : k = 0 /\ Row(w[k - 1], hp, k) = Row(0, hp, 0)
      <4> HIDE DEF w
      <4>1. \A k \in 0 .. 0 : k = 0
        OBVIOUS
      <4> QED
        BY <1>0, <4>1
    <3> QED
      BY <3>1
  <2> QED
    BY <1>2, <1>3, <2>1 DEF Walks
<1>4. CASE m # 0
  <2>1. m \in Nat /\ m - 1 \in Nat /\ m - 1 \notin T
    BY <1>2, <1>4
  <2>2. PICK w : Walks(w, hp, m - 1)
    BY <2>1
  <2> DEFINE v == [k \in 0 .. m |-> Row(w[k - 1], hp, k)]
  <2>3. ASSUME NEW k \in 0 .. m PROVE Row(v[k - 1], hp, k) = Row(w[k - 1], hp, k)
    <3>1. CASE k = 0
      <4> HIDE DEF v
      <4> QED
        BY <1>0, <3>1
    <3>2. CASE k # 0
      <4>1. k - 1 \in 0 .. m /\ k - 1 \in 0 .. (m - 1)
        BY <2>1, <3>2
      <4>2. v[k - 1] = Row(w[k - 1 - 1], hp, k - 1)
        BY <4>1
      <4> DEFINE W == [j \in 0 .. (m - 1) |-> Row(w[j - 1], hp, j)]
      <4>3. W[k - 1] = Row(w[k - 1 - 1], hp, k - 1)
        BY <4>1
      <4>4. w = W
        BY <2>2 DEF Walks
      <4> HIDE DEF v, W
      <4> QED
        BY <4>2, <4>3, <4>4
    <3> QED
      BY <3>1, <3>2
  <2>4. v = [k \in 0 .. m |-> Row(v[k - 1], hp, k)]
    <3> DEFINE F(k) == Row(w[k - 1], hp, k)
               G(k) == Row(v[k - 1], hp, k)
    <3>1. \A k \in 0 .. m : F(k) = G(k)
      <4> HIDE DEF v
      <4> QED
        BY <2>3
    <3>2. v = [k \in 0 .. m |-> F(k)]
      OBVIOUS
    <3> HIDE DEF v, F, G
    <3>3. v = [k \in 0 .. m |-> G(k)]
      BY <3>1, <3>2
    <3> QED
      BY <3>3 DEF G
  <2>5. Walks(v, hp, m)
    BY <2>4 DEF Walks
  <2> QED
    BY <1>2, <2>5
<1> QED
  BY <1>3, <1>4

LEMMA WalkOfChain ==
  ASSUME NEW hp \in Heaps, NEW h, NEW s, Chain(hp, h, s),
         NEW n \in Nat, Len(s) <= n, NEW w, Walks(w, hp, n)
  PROVE  w[n][h] = s
<1> DEFINE len == Len(s)
           Good(k, m) == w[m][At(s, k)] = SubSeq(s, k, len)
           T == {j \in Nat : \E k \in 1 .. len + 1, m \in 0 .. n :
                    j = len + 1 - k /\ j <= m /\ ~ Good(k, m)}
<1>1. s \in Seq(Cells) /\ len \in Nat /\ \A i \in 1 .. len : s[i] \in Cells
  BY LenProperties, ElementOfSeq DEF Chain
<1>2. Null \notin Cells
  BY ManagerAssumption DEF ManagerAssumption
<1>3. T = {}
  <2>1. SUFFICES ASSUME T # {} PROVE FALSE
    OBVIOUS
  <2>2. PICK j \in T : \A i \in T : j <= i
    <3> HIDE DEF T
    <3>1. T \subseteq Nat
      BY DEF T
    <3> QED
      BY <2>1, <3>1, LeastNatural
  <2>3. PICK k \in 1 .. len + 1, m \in 0 .. n :
           j = len + 1 - k /\ j <= m /\ ~ Good(k, m)
    BY <2>2
  <2>4. /\ j \in Nat /\ k \in Nat /\ m \in Nat /\ At(s, k) \in Ptr
        /\ k <= len + 1 /\ 1 <= k /\ j = len + 1 - k
    BY <1>1, <2>2, <2>3 DEF At, Ptr
  <2>5. CASE k = len + 1
    <3>1. At(s, k) = Null
      BY <1>1, <2>4, <2>5 DEF At
    <3>2. w[m][At(s, k)] = <<>>
      BY <2>3, <2>4, <3>1, WalksValue
    <3>3. SubSeq(s, k, len) = <<>>
      BY <1>1, <2>4, <2>5, SubSeqEmpty
    <3> QED
      BY <2>3, <3>2, <3>3
  <2>6. CASE k \in 1 .. len
    <3>1. At(s, k) = s[k] /\ s[k] \in Cells /\ s[k] # Null /\ hp[s[k]].next = At(s, k + 1)
      BY <1>1, <1>2, <2>6 DEF At, Chain
    <3>2. m # 0 /\ m - 1 \in 0 .. n /\ j - 1 \in Nat /\ j - 1 <= m - 1
          /\ k + 1 \in 1 .. len + 1 /\ j - 1 = len + 1 - (k + 1)
      BY <1>1, <2>3, <2>4, <2>6
    <3>3. w[m][At(s, k)] = <<s[k]>> \o w[m - 1][At(s, k + 1)]
      <4> HIDE DEF Good
      <4>1. w[m][At(s, k)] = IF m = 0 \/ At(s, k) = Null THEN <<>>
                             ELSE <<At(s, k)>> \o w[m - 1][hp[At(s, k)].next]
        <5>1. m \in 0 .. n /\ At(s, k) \in Ptr
          BY <2>3, <2>4
        <5> HIDE DEF T, len
        <5> QED
          BY ONLY <5>1, n \in Nat, Walks(w, hp, n), WalksValue
      <4> QED
        BY <3>1, <3>2, <4>1
    <3>4. Good(k + 1, m - 1)
      <4>1. j - 1 \notin T
        <5> HIDE DEF T
        <5> QED
          BY <2>2, <2>4, <3>2
      <4> HIDE DEF Good
      <4> QED
        BY <3>2, <4>1
    <3>5. SubSeq(s, k, len) = <<s[k]>> \o SubSeq(s, k + 1, len)
      BY <1>1, <2>6, SubSeqRecursiveFirst
    <3> QED
      BY <2>3, <3>3, <3>4, <3>5
  <2> QED
    BY <1>1, <2>4, <2>5, <2>6
<1>4. Good(1, n)
  <2> HIDE DEF Good
  <2>1. 1 \in 1 .. len + 1 /\ n \in 0 .. n /\ len = len + 1 - 1 /\ len <= n /\ len \in Nat
    BY <1>1
  <2>2. len \notin T
    BY <1>3
  <2> HIDE DEF len
  <2> QED
    BY <2>1, <2>2
<1> QED
  BY <1>1, <1>4, SubSeqFull DEF Chain

\* A list is no longer than there are cells.
LEMMA ShortList ==
  ASSUME NEW s \in Seq(Cells), Injective(s)
  PROVE  Len(s) \in Nat /\ Cardinality(Cells) \in Nat /\ Len(s) <= Cardinality(Cells)
<1>1. Len(s) \in Nat /\ s \in [1 .. Len(s) -> Cells]
  BY LenProperties
<1>2. s \in Injection(1 .. Len(s), Cells)
  BY <1>1 DEF Injective, Injection, IsInjective
<1>3. IsFiniteSet(Cells)
  BY ManagerAssumption DEF ManagerAssumption
<1>4. Cardinality(1 .. Len(s)) = Len(s)
  BY <1>1, FS_Interval
<1> QED
  BY <1>1, <1>2, <1>3, <1>4, FS_Injection, FS_CardinalityType

LEMMA ListOfChain ==
  ASSUME NEW hp \in Heaps, NEW h, NEW s, Chain(hp, h, s)
  PROVE  List(hp, h) = s
<1> DEFINE n == Cardinality(Cells) + 1
           w == CHOOSE v : Walks(v, hp, n)
<1>1. n \in Nat /\ Len(s) <= n
  BY ShortList DEF Chain
<1>2. Walks(w, hp, n)
  BY <1>1, WalksExist
<1>3. List(hp, h) = w[n][h]
  BY DEF List, Walks, Row
<1> HIDE DEF w, n
<1> QED
  BY <1>1, <1>2, <1>3, WalkOfChain

-----------------------------------------------------------------------------
(***************************************************************************)
(* Surgery on a list: a cell is taken out, a cell is put in.               *)
(***************************************************************************)
Without(s, k)  == [i \in 1 .. (Len(s) - 1) |-> s[IF i < k THEN i ELSE i + 1]]
With(s, k, b)  == [i \in 1 .. (Len(s) + 1) |->
                     IF i < k THEN s[i] ELSE IF i = k THEN b ELSE s[i - 1]]

LEMMA SeqOfCells ==
  ASSUME NEW n \in Nat, NEW f \in [1 .. n -> Cells]
  PROVE  f \in Seq(Cells) /\ Len(f) = n /\ DOMAIN f = 1 .. n
OBVIOUS

LEMMA WithoutParts ==
  ASSUME NEW s \in Seq(Cells), Injective(s), NEW k \in 1 .. Len(s)
  PROVE  /\ Without(s, k) \in Seq(Cells) /\ Len(Without(s, k)) = Len(s) - 1
         /\ \A i \in 1 .. (Len(s) - 1) : Without(s, k)[i] = s[IF i < k THEN i ELSE i + 1]
         /\ Injective(Without(s, k))
         /\ Range(Without(s, k)) = Range(s) \ {s[k]}
<1> DEFINE n == Len(s)
           t == Without(s, k)
<1>1. n \in Nat /\ k \in Nat /\ k <= n /\ 1 <= k /\ DOMAIN s = 1 .. n
      /\ \A i \in 1 .. n : s[i] \in Cells
  BY LenProperties, ElementOfSeq
<1>2. t \in [1 .. (n - 1) -> Cells]
  BY <1>1 DEF Without
<1>3. t \in Seq(Cells) /\ Len(t) = n - 1 /\ DOMAIN t = 1 .. (n - 1)
  <2>1. n - 1 \in Nat
    BY <1>1
  <2> HIDE DEF t, n
  <2> QED
    BY <1>2, <2>1, SeqOfCells
<1>4. \A i \in 1 .. (n - 1) : t[i] = s[IF i < k THEN i ELSE i + 1]
  BY DEF Without
<1> HIDE DEF t, n
<1>5. Injective(t)
  BY <1>1, <1>3, <1>4 DEF Injective, n
<1>6. Range(t) \subseteq Range(s) \ {s[k]}
  <2>1. ASSUME NEW i \in 1 .. (n - 1) PROVE t[i] \in Range(s) /\ t[i] # s[k]
    <3> DEFINE j == IF i < k THEN i ELSE i + 1
    <3>1. j \in 1 .. n /\ j # k /\ t[i] = s[j]
      BY <1>1, <1>4
    <3> HIDE DEF j
    <3> QED
      BY <1>1, <3>1 DEF Range, Injective, n
  <2> QED
    BY <1>3, <2>1 DEF Range
<1>7. ASSUME NEW i \in 1 .. n, i # k PROVE s[i] \in Range(t)
  <2>1. CASE i < k
    <3>1. i \in 1 .. (n - 1) /\ t[i] = s[i]
      BY <1>1, <1>4, <2>1
    <3> QED
      BY <1>3, <3>1 DEF Range
  <2>2. CASE i > k
    <3>1. i - 1 \in 1 .. (n - 1) /\ t[i - 1] = s[i]
      BY <1>1, <1>4, <2>2
    <3> QED
      BY <1>3, <3>1 DEF Range
  <2> QED
    BY <1>1, <1>7, <2>1, <2>2
<1>8. Range(s) \ {s[k]} \subseteq Range(t)
  BY <1>1, <1>7 DEF Range
<1> QED
  BY <1>3, <1>4, <1>5, <1>6, <1>8 DEF t, n

LEMMA WithParts ==
  ASSUME NEW s \in Seq(Cells), Injective(s), NEW k \in 1 .. (Len(s) + 1),
         NEW b \in Cells, b \notin Range(s)
  PROVE  /\ With(s, k, b) \in Seq(Cells) /\ Len(With(s, k, b)) = Len(s) + 1
         /\ \A i \in 1 .. (Len(s) + 1) :
              With(s, k, b)[i] = IF i < k THEN s[i] ELSE IF i = k THEN b ELSE s[i - 1]
         /\ Injective(With(s, k, b))
         /\ Range(With(s, k, b)) = Range(s) \cup {b}
<1> DEFINE n == Len(s)
           t == With(s, k, b)
<1>1. n \in Nat /\ k \in Nat /\ k <= n + 1 /\ 1 <= k /\ DOMAIN s = 1 .. n
      /\ \A i \in 1 .. n : s[i] \in Cells /\ s[i] # b
  BY LenProperties, ElementOfSeq DEF Range
<1>2. t \in [1 .. (n + 1) -> Cells]
  BY <1>1 DEF With
<1>3. t \in Seq(Cells) /\ Len(t) = n + 1 /\ DOMAIN t = 1 .. (n + 1)
  BY <1>1, <1>2, SeqOfCells
<1>4. \A i \in 1 .. (n + 1) :
        t[i] = IF i < k THEN s[i] ELSE IF i = k THEN b ELSE s[i - 1]
  BY DEF With
<1> HIDE DEF t, n
<1>5. Injective(t)
  BY <1>1, <1>3, <1>4 DEF Injective, n
<1>6. Range(t) \subseteq Range(s) \cup {b}
  BY <1>1, <1>3, <1>4 DEF Range
<1>7. ASSUME NEW i \in 1 .. n PROVE s[i] \in Range(t)
  <2>1. CASE i < k
    <3>1. i \in 1 .. (n + 1) /\ t[i] = s[i]
      BY <1>1, <1>4, <2>1
    <3> QED
      BY <1>3, <3>1 DEF Range
  <2>2. CASE ~ (i < k)
    <3>1. i + 1 \in 1 .. (n + 1) /\ t[i + 1] = s[i]
      BY <1>1, <1>4, <2>2
    <3> QED
      BY <1>3, <3>1 DEF Range
  <2> QED
    BY <2>1, <2>2
<1>8. k \in 1 .. (n + 1) /\ t[k] = b
  BY <1>1, <1>4
<1>9. Range(s) \cup {b} \subseteq Range(t)
  BY <1>1, <1>3, <1>7, <1>8 DEF Range
<1> QED
  BY <1>3, <1>4, <1>5, <1>6, <1>9 DEF t, n

LEMMA ChainRemove ==
  ASSUME NEW hp, NEW h, NEW s, Chain(hp, h, s), NEW k \in 1 .. Len(s), NEW hq, NEW g,
         g = IF k = 1 THEN At(s, 2) ELSE h,
         \A i \in 1 .. Len(s) : i # k =>
           /\ hq[s[i]].next = IF i = k - 1 THEN At(s, k + 1) ELSE hp[s[i]].next
           /\ hq[s[i]].prev = IF i = k + 1 THEN At(s, k - 1) ELSE hp[s[i]].prev
  PROVE  Chain(hq, g, Without(s, k))
<1> DEFINE n == Len(s)
           t == Without(s, k)
<1>1. s \in Seq(Cells) /\ Injective(s) /\ h = At(s, 1)
  BY DEF Chain
<1>2. n \in Nat /\ k \in Nat /\ k <= n /\ 1 <= k
  BY <1>1, LenProperties
<1>3. /\ t \in Seq(Cells) /\ Len(t) = n - 1 /\ Injective(t)
      /\ \A i \in 1 .. (n - 1) : t[i] = s[IF i < k THEN i ELSE i + 1]
  BY <1>1, WithoutParts
<1> HIDE DEF t
<1>4. \A i \in Int : At(t, i) = IF i < k THEN At(s, i) ELSE At(s, i + 1)
  BY <1>2, <1>3 DEF At
<1>5. g = At(t, 1)
  BY <1>1, <1>2, <1>4
<1>6. \A i \in 1 .. n : hp[s[i]].next = At(s, i + 1) /\ hp[s[i]].prev = At(s, i - 1)
  BY DEF Chain
<1>7. ASSUME NEW i \in 1 .. (n - 1)
      PROVE  hq[t[i]].next = At(t, i + 1) /\ hq[t[i]].prev = At(t, i - 1)
  <2>1. i \in Int /\ i + 1 \in Int /\ i - 1 \in Int
    OBVIOUS
  <2>2. CASE i < k
    <3>1. t[i] = s[i] /\ i \in 1 .. n /\ i # k /\ i # k + 1
      BY <1>2, <1>3, <2>2
    <3>2. /\ hq[s[i]].next = IF i = k - 1 THEN At(s, k + 1) ELSE At(s, i + 1)
          /\ hq[s[i]].prev = At(s, i - 1)
      BY <1>6, <3>1
    <3>3. /\ At(t, i + 1) = IF i + 1 < k THEN At(s, i + 1) ELSE At(s, i + 2)
          /\ At(t, i - 1) = At(s, i - 1)
      <4>1. i - 1 < k /\ i + 1 + 1 = i + 2
        BY <1>2, <2>2
      <4> QED
        BY <1>4, <2>1, <4>1
    <3>4. CASE i = k - 1
      <4>1. i + 2 = k + 1 /\ ~ (i + 1 < k)
        BY <1>2, <3>4
      <4> QED
        BY <3>1, <3>2, <3>3, <3>4, <4>1
    <3>5. CASE i # k - 1
      <4>1. i + 1 < k
        BY <1>2, <2>2, <3>5
      <4> QED
        BY <3>1, <3>2, <3>3, <3>5, <4>1
    <3> QED
      BY <3>4, <3>5
  <2>3. CASE ~ (i < k)
    <3>1. t[i] = s[i + 1] /\ i + 1 \in 1 .. n /\ i + 1 # k /\ i + 1 # k - 1
      BY <1>2, <1>3, <2>3
    <3>2. /\ hq[s[i + 1]].next = At(s, i + 2)
          /\ hq[s[i + 1]].prev = IF i + 1 = k + 1 THEN At(s, k - 1) ELSE At(s, i)
      BY <1>6, <3>1
    <3>3. /\ At(t, i + 1) = At(s, i + 2)
          /\ At(t, i - 1) = IF i - 1 < k THEN At(s, i - 1) ELSE At(s, i)
      <4>1. ~ (i + 1 < k) /\ i + 1 + 1 = i + 2 /\ i - 1 + 1 = i
        BY <1>2, <2>3
      <4>2. At(t, i + 1) = At(s, i + 1 + 1)
        BY <1>4, <2>1, <4>1
      <4>3. At(t, i - 1) = IF i - 1 < k THEN At(s, i - 1) ELSE At(s, i - 1 + 1)
        BY <1>4, <2>1
      <4> QED
        BY <4>1, <4>2, <4>3
    <3>4. CASE i = k
      BY <1>2, <3>1, <3>2, <3>3, <3>4
    <3>5. CASE i # k
      <4>1. ~ (i - 1 < k) /\ i + 1 # k + 1
        BY <1>2, <2>3, <3>5
      <4> QED
        BY <3>1, <3>2, <3>3, <4>1
    <3> QED
      BY <3>4, <3>5
  <2> QED
    BY <2>2, <2>3
<1> QED
  BY <1>3, <1>5, <1>7 DEF Chain, t

LEMMA ChainInsert ==
  ASSUME NEW hp, NEW h, NEW s, Chain(hp, h, s), NEW k \in 1 .. (Len(s) + 1),
         NEW b \in Cells, b \notin Range(s), NEW hq, NEW g,
         g = IF k = 1 THEN b ELSE h,
         hq[b].next = At(s, k), hq[b].prev = At(s, k - 1),
         \A i \in 1 .. Len(s) :
           /\ hq[s[i]].next = IF i = k - 1 THEN b ELSE hp[s[i]].next
           /\ hq[s[i]].prev = IF i = k THEN b ELSE hp[s[i]].prev
  PROVE  Chain(hq, g, With(s, k, b))
<1> DEFINE n == Len(s)
           t == With(s, k, b)
<1>1. s \in Seq(Cells) /\ Injective(s) /\ h = At(s, 1)
  BY DEF Chain
<1>2. n \in Nat /\ k \in Nat /\ k <= n + 1 /\ 1 <= k
  BY <1>1, LenProperties
<1>3. /\ t \in Seq(Cells) /\ Len(t) = n + 1 /\ Injective(t)
      /\ \A i \in 1 .. (n + 1) : t[i] = IF i < k THEN s[i] ELSE IF i = k THEN b ELSE s[i - 1]
  BY <1>1, WithParts
<1> HIDE DEF t
<1>4. \A i \in Int : At(t, i) = IF i < k THEN At(s, i) ELSE IF i = k THEN b ELSE At(s, i - 1)
  BY <1>2, <1>3 DEF At
<1>5. g = At(t, 1)
  BY <1>1, <1>2, <1>4
<1>6. \A i \in 1 .. n : hp[s[i]].next = At(s, i + 1) /\ hp[s[i]].prev = At(s, i - 1)
  BY DEF Chain
<1>7. ASSUME NEW i \in 1 .. (n + 1)
      PROVE  hq[t[i]].next = At(t, i + 1) /\ hq[t[i]].prev = At(t, i - 1)
  <2>1. i \in Int /\ i + 1 \in Int /\ i - 1 \in Int
    OBVIOUS
  <2>2. CASE i < k
    <3>1. t[i] = s[i] /\ i \in 1 .. n /\ i # k
      BY <1>2, <1>3, <2>2
    <3>2. /\ hq[s[i]].next = IF i = k - 1 THEN b ELSE At(s, i + 1)
          /\ hq[s[i]].prev = At(s, i - 1)
      BY <1>6, <3>1
    <3>3. /\ At(t, i + 1) = IF i + 1 < k THEN At(s, i + 1) ELSE b
          /\ At(t, i - 1) = At(s, i - 1)
      BY <1>2, <1>4, <2>1, <2>2
    <3> QED
      BY <1>2, <2>2, <3>1, <3>2, <3>3
  <2>3. CASE i = k
    <3>1. t[i] = b
      BY <1>2, <1>3, <2>3
    <3>2. At(t, i + 1) = At(s, k) /\ At(t, i - 1) = At(s, k - 1)
      BY <1>2, <1>4, <2>1, <2>3
    <3> QED
      BY <3>1, <3>2
  <2>4. CASE i > k
    <3>1. t[i] = s[i - 1] /\ i - 1 \in 1 .. n /\ i - 1 # k - 1
      BY <1>2, <1>3, <2>4
    <3>2. /\ hq[s[i - 1]].next = At(s, i)
          /\ hq[s[i - 1]].prev = IF i - 1 = k THEN b ELSE At(s, i - 2)
      BY <1>6, <3>1
    <3>3. /\ At(t, i + 1) = At(s, i)
          /\ At(t, i - 1) = IF i - 1 = k THEN b ELSE At(s, i - 2)
      BY <1>2, <1>4, <2>1, <2>4
    <3> QED
      BY <3>1, <3>2, <3>3
  <2> QED
    BY <1>2, <2>2, <2>3, <2>4
<1> QED
  BY <1>3, <1>5, <1>7 DEF Chain, t

\* A list no cell of which changed its pointers.
LEMMA ChainKept ==
  ASSUME NEW hp, NEW h, NEW s, Chain(hp, h, s), NEW hq,
         \A c \in Range(s) : hq[c].next = hp[c].next /\ hq[c].prev = hp[c].prev
  PROVE  Chain(hq, h, s)
<1>1. s \in Seq(Cells) /\ DOMAIN s = 1 .. Len(s)
  BY LenProperties DEF Chain
<1>2. \A i \in 1 .. Len(s) : s[i] \in Range(s)
  BY <1>1 DEF Range
<1> QED
  BY <1>2 DEF Chain

-----------------------------------------------------------------------------
(***************************************************************************)
(* Searches of a list.                                                     *)
(***************************************************************************)
\* The index a search stops at: the least that passes, or 0.
IsFirst(k, I) == IF I = {} THEN k = 0 ELSE k \in I /\ \A j \in I : k <= j

LEMMA FirstIndex ==
  ASSUME NEW I, I \subseteq Nat
  PROVE  IsFirst(IF I # {} THEN Min(I) ELSE 0, I)
<1>1. CASE I # {}
  <2>1. \E x \in I : \A y \in I : x <= y
    BY <1>1, LeastNatural
  <2>2. Min(I) \in I /\ \A y \in I : Min(I) <= y
    BY <2>1 DEF Min
  <2> QED
    BY <1>1, <2>2 DEF IsFirst
<1>2. CASE I = {}
  BY <1>2 DEF IsFirst
<1> QED
  BY <1>1, <1>2

LEMMA Place ==
  ASSUME NEW s \in Seq(Cells), Injective(s)
  PROVE  /\ Len(s) \in Nat /\ DOMAIN s = 1 .. Len(s)
         /\ \A i \in 1 .. Len(s) : s[i] \in Cells /\ s[i] \in Range(s) /\ s[i] # Null
         /\ \A j \in Int : At(s, j) \in Range(s) \cup {Null} /\ At(s, j) \in Ptr
         /\ \A i \in 1 .. Len(s), j \in Int : s[i] = At(s, j) <=> i = j
         /\ Range(s) \subseteq Cells /\ Null \notin Range(s)
<1>1. Len(s) \in Nat /\ DOMAIN s = 1 .. Len(s)
  BY LenProperties
<1>2. \A i \in 1 .. Len(s) : s[i] \in Cells /\ s[i] \in Range(s)
  BY <1>1, ElementOfSeq DEF Range
<1>3. Null \notin Cells
  BY ManagerAssumption DEF ManagerAssumption
<1>4. \A j \in Int : At(s, j) \in Range(s) \cup {Null} /\ At(s, j) \in Ptr
  BY <1>2 DEF At, Ptr
<1>5. ASSUME NEW i \in 1 .. Len(s), NEW j \in Int PROVE s[i] = At(s, j) <=> i = j
  BY <1>1, <1>2, <1>3 DEF At, Injective
<1>6. Range(s) \subseteq Cells
  BY <1>1, <1>2 DEF Range
<1> QED
  BY <1>1, <1>2, <1>3, <1>4, <1>5, <1>6

\* The cell before a place of a list, or before its end.
LEMMA PreviousPlace ==
  ASSUME NEW s \in Seq(Cells), Injective(s), NEW k \in 1 .. (Len(s) + 1)
  PROVE  Previous(s, At(s, k)) = At(s, k - 1)
<1>1. /\ Len(s) \in Nat /\ DOMAIN s = 1 .. Len(s) /\ k \in Nat /\ k - 1 \in Int
      /\ \A i \in 1 .. Len(s) : s[i] \in Cells /\ s[i] # Null
      /\ \A i \in 1 .. Len(s), j \in Int : s[i] = At(s, j) <=> i = j
  BY Place
<1>2. CASE k = Len(s) + 1
  <2>1. At(s, k) = Null
    BY <1>1, <1>2 DEF At
  <2>2. CASE s = <<>>
    <3>1. Len(s) = 0
      BY <2>2, EmptySeq
    <3> QED
      BY <1>1, <1>2, <2>1, <2>2, <3>1 DEF Previous, At
  <2>3. CASE s # <<>>
    <3>1. Len(s) \in 1 .. Len(s) /\ k - 1 = Len(s)
      BY <1>1, <1>2, <2>3, EmptySeq
    <3> QED
      BY <2>1, <2>3, <3>1 DEF Previous, At, Last
  <2> QED
    BY <2>2, <2>3
<1>3. CASE k \in 1 .. Len(s)
  <2> DEFINE I == {i \in 1 .. Len(s) : s[i] = At(s, k)}
             j == IF I # {} THEN Min(I) ELSE 0
  <2>1. At(s, k) = s[k] /\ At(s, k) # Null
    BY <1>1, <1>3 DEF At
  <2>2. Previous(s, At(s, k)) = IF j = 1 THEN Null ELSE s[j - 1]
    BY <2>1 DEF Previous, SelectInSeq
  <2>3. I = {k}
    BY <1>1, <1>3
  <2>4. IsFirst(j, I)
    <3>1. I \subseteq Nat
      BY <1>1
    <3> HIDE DEF I
    <3> QED
      BY <3>1, FirstIndex
  <2>5. j = k
    <3> HIDE DEF j
    <3> QED
      BY <2>3, <2>4 DEF IsFirst
  <2> HIDE DEF j, I
  <2> QED
    BY <1>1, <1>3, <2>2, <2>5 DEF At
<1> QED
  BY <1>1, <1>2, <1>3

-----------------------------------------------------------------------------
(***************************************************************************)
(* The memory a call of one pool works on.                                 *)
(***************************************************************************)
PoolRec == [free_list : Ptr, used_list : Ptr, used_size : Nat]
MemRec  == [heap : Heaps, live : SUBSET Cells, pool : PoolRec]

\* f is its free list and u its used list.
Holds(m, f, u) ==
  /\ Chain(m.heap, m.pool.free_list, f) /\ Chain(m.heap, m.pool.used_list, u)
  /\ Range(f) \cap Range(u) = {} /\ Range(f) \cup Range(u) \subseteq m.live
  /\ \A c \in Range(f) : m.heap[c].allocated = FALSE
  /\ \A c \in Range(u) : m.heap[c].allocated = TRUE

\* What a block is, but for the list it is on.
Same(r, q) ==
  /\ r.addr = q.addr /\ r.size = q.size /\ r.host = q.host
  /\ r.flags = q.flags /\ r.managed = q.managed

LEMMA SetNextField ==
  ASSUME NEW hp \in Heaps, NEW c \in Ptr, NEW v \in Ptr
  PROVE  /\ SetNext(hp, c, v) \in Heaps
         /\ \A d \in Cells :
              /\ SetNext(hp, c, v)[d].next = IF d = c THEN v ELSE hp[d].next
              /\ SetNext(hp, c, v)[d].prev = hp[d].prev
              /\ SetNext(hp, c, v)[d].allocated = hp[d].allocated
              /\ Same(SetNext(hp, c, v)[d], hp[d])
              /\ d # c => SetNext(hp, c, v)[d] = hp[d]
<1>1. Null \notin Cells
  BY ManagerAssumption DEF ManagerAssumption
<1>2. CASE c = Null
  BY <1>1, <1>2 DEF SetNext, Same
<1>3. CASE c \in Cells
  BY <1>1, <1>3 DEF SetNext, Same, Heaps, CellRec
<1> QED
  BY <1>2, <1>3 DEF Ptr

LEMMA SetPrevField ==
  ASSUME NEW hp \in Heaps, NEW c \in Ptr, NEW v \in Ptr
  PROVE  /\ SetPrev(hp, c, v) \in Heaps
         /\ \A d \in Cells :
              /\ SetPrev(hp, c, v)[d].prev = IF d = c THEN v ELSE hp[d].prev
              /\ SetPrev(hp, c, v)[d].next = hp[d].next
              /\ SetPrev(hp, c, v)[d].allocated = hp[d].allocated
              /\ Same(SetPrev(hp, c, v)[d], hp[d])
              /\ d # c => SetPrev(hp, c, v)[d] = hp[d]
<1>1. Null \notin Cells
  BY ManagerAssumption DEF ManagerAssumption
<1>2. CASE c = Null
  BY <1>1, <1>2 DEF SetPrev, Same
<1>3. CASE c \in Cells
  BY <1>1, <1>3 DEF SetPrev, Same, Heaps, CellRec
<1> QED
  BY <1>2, <1>3 DEF Ptr

\* Nothing but the blocks of S, and of them only links and use, is changed.
Only(hq, hp, S) == \A c \in Cells \ S : hq[c] = hp[c]

\* What taking block f[k] makes of the memory m.
Taken(m, t, f, u, k, need) ==
  /\ t \in MemRec /\ t.live = m.live
  /\ t.pool.used_size = (m.pool.used_size + need) % Width
  /\ Holds(t, Without(f, k), With(u, 1, f[k]))
  /\ \A c \in Cells : Same(t.heap[c], m.heap[c])
  /\ Only(t.heap, m.heap, Range(f) \cup Range(u))

LEMMA TakeLists ==
  ASSUME NEW m \in MemRec, NEW f, NEW u, Holds(m, f, u), NEW k \in 1 .. Len(f),
         NEW need \in Nat, NEW t, t = Take(m, f[k], need)
  PROVE  Taken(m, t, f, u, k, need)
<1> DEFINE b    == f[k]
           prev == At(f, k - 1)
           next == At(f, k + 1)
           head == At(u, 1)
           h0   == SetNext(m.heap, prev, next)
           h1   == SetPrev(h0, next, prev)
           h2   == [h1 EXCEPT ![b].next = head, ![b].prev = Null, ![b].allocated = TRUE]
           h3   == SetPrev(h2, head, b)
<1>1. /\ m.heap \in Heaps /\ m.live \subseteq Cells /\ m.pool \in PoolRec
      /\ DOMAIN m = {"heap", "live", "pool"}
  BY DEF MemRec
<1>2. /\ f \in Seq(Cells) /\ Injective(f) /\ m.pool.free_list = At(f, 1)
      /\ u \in Seq(Cells) /\ Injective(u) /\ m.pool.used_list = head
      /\ Chain(m.heap, m.pool.free_list, f) /\ Chain(m.heap, m.pool.used_list, u)
      /\ Range(f) \cap Range(u) = {}
  BY DEF Holds, Chain
<1>3. /\ Len(f) \in Nat /\ k \in Nat /\ k - 1 \in Int /\ k + 1 \in Int /\ 1 \in Int
      /\ k \in 1 .. (Len(f) + 1) /\ 1 \in 1 .. (Len(u) + 1) /\ Len(u) \in Nat
  BY <1>2, LenProperties
<1>4. /\ b \in Cells /\ b \in Range(f) /\ b \notin Range(u) /\ b # head /\ b # Null
      /\ prev \in Ptr /\ next \in Ptr /\ head \in Ptr /\ b \in Ptr /\ Null \in Ptr
      /\ prev \in Range(f) \cup {Null} /\ next \in Range(f) \cup {Null}
      /\ head \in Range(u) \cup {Null} /\ b # prev /\ b # next
      /\ Range(f) \subseteq Cells /\ Range(u) \subseteq Cells
      /\ Null \notin Range(f) /\ Null \notin Range(u)
  <2>1. b = At(f, k) /\ b # prev /\ b # next
    BY <1>2, <1>3, Place DEF At
  <2> QED
    BY <1>2, <1>3, <2>1, Place DEF Ptr
<1>5. FreeList(m) = f
  BY <1>1, <1>2, ListOfChain DEF FreeList
<1>6. Previous(FreeList(m), b) = prev
  <2>1. b = At(f, k)
    BY DEF At
  <2> QED
    BY <1>2, <1>3, <1>5, <2>1, PreviousPlace
<1>7. m.heap[b].next = next
  BY <1>2 DEF Chain
<1>8. t = [m EXCEPT !.heap = h3,
             !.pool = [free_list |-> IF prev = Null THEN next ELSE m.pool.free_list,
                       used_list |-> b,
                       used_size |-> (m.pool.used_size + need) % Width]]
  BY <1>2, <1>6, <1>7 DEF Take
<1>9. (m.pool.used_size + need) % Width \in Nat
  BY <1>1, ManagerAssumption DEF PoolRec, ManagerAssumption
<1> HIDE DEF b, prev, next, head
<1>10. /\ h1 \in Heaps
       /\ \A d \in Cells :
            /\ h1[d].next = IF d = prev THEN next ELSE m.heap[d].next
            /\ h1[d].prev = IF d = next THEN prev ELSE m.heap[d].prev
            /\ h1[d].allocated = m.heap[d].allocated
            /\ Same(h1[d], m.heap[d])
            /\ d # prev /\ d # next => h1[d] = m.heap[d]
  <2>1. /\ h0 \in Heaps
        /\ \A d \in Cells :
             /\ h0[d].next = IF d = prev THEN next ELSE m.heap[d].next
             /\ h0[d].prev = m.heap[d].prev
             /\ h0[d].allocated = m.heap[d].allocated
             /\ Same(h0[d], m.heap[d])
             /\ d # prev => h0[d] = m.heap[d]
    BY <1>1, <1>4, SetNextField
  <2> HIDE DEF h0
  <2>2. /\ h1 \in Heaps
        /\ \A d \in Cells :
             /\ h1[d].prev = IF d = next THEN prev ELSE h0[d].prev
             /\ h1[d].next = h0[d].next
             /\ h1[d].allocated = h0[d].allocated
             /\ Same(h1[d], h0[d])
             /\ d # next => h1[d] = h0[d]
    BY <1>4, <2>1, SetPrevField
  <2> HIDE DEF h1
  <2> QED
    BY <2>1, <2>2 DEF Same
<1> HIDE DEF h1
<1>11. /\ h2 \in Heaps
       /\ h2[b].next = head /\ h2[b].prev = Null /\ h2[b].allocated = TRUE
       /\ Same(h2[b], h1[b])
       /\ \A d \in Cells : d # b => h2[d] = h1[d]
  <2> DEFINE r == [h1[b] EXCEPT !.next = head, !.prev = Null, !.allocated = TRUE]
  <2>1. h2 = [h1 EXCEPT ![b] = r]
    BY <1>4, <1>10 DEF Heaps, CellRec
  <2>2. h1[b] \in CellRec
    BY <1>4, <1>10 DEF Heaps
  <2>3. /\ r \in CellRec /\ r.next = head /\ r.prev = Null /\ r.allocated = TRUE
        /\ Same(r, h1[b])
    BY <1>4, <2>2 DEF CellRec, Same
  <2> HIDE DEF r, h2
  <2> QED
    BY <1>4, <1>10, <2>1, <2>3 DEF Heaps
<1> HIDE DEF h2
<1>12. /\ h3 \in Heaps
       /\ \A d \in Cells :
            /\ h3[d].prev = IF d = head THEN b ELSE h2[d].prev
            /\ h3[d].next = h2[d].next
            /\ h3[d].allocated = h2[d].allocated
            /\ Same(h3[d], h2[d])
            /\ d # head => h3[d] = h2[d]
  BY <1>4, <1>11, SetPrevField
<1> HIDE DEF h3
<1>13. /\ \A d \in Cells : Same(h3[d], m.heap[d])
       /\ Only(h3, m.heap, Range(f) \cup Range(u))
  <2>1. ASSUME NEW d \in Cells PROVE Same(h3[d], m.heap[d])
    BY <1>4, <1>10, <1>11, <1>12, <2>1 DEF Same
  <2>2. ASSUME NEW d \in Cells \ (Range(f) \cup Range(u)) PROVE h3[d] = m.heap[d]
    <3>1. d # b /\ d # prev /\ d # next /\ d # head
      BY <1>4, ManagerAssumption DEF ManagerAssumption
    <3> QED
      BY <1>10, <1>11, <1>12, <3>1
  <2> QED
    BY <2>1, <2>2 DEF Only
<1>14. /\ t.heap = h3 /\ t.live = m.live /\ t.pool.used_list = b
       /\ t.pool.free_list = IF prev = Null THEN next ELSE m.pool.free_list
       /\ t.pool.used_size = (m.pool.used_size + need) % Width
  BY <1>1, <1>8
<1>15. t \in MemRec
  <2>1. [free_list |-> IF prev = Null THEN next ELSE m.pool.free_list, used_list |-> b,
         used_size |-> (m.pool.used_size + need) % Width] \in PoolRec
    BY <1>1, <1>4, <1>9 DEF PoolRec
  <2> QED
    BY <1>1, <1>8, <1>12, <2>1 DEF MemRec
<1>16. t.pool.free_list = IF k = 1 THEN At(f, 2) ELSE m.pool.free_list
  <2>1. prev = Null <=> k = 1
    <3>1. CASE k = 1
      BY <1>3, <3>1 DEF prev, At
    <3>2. CASE k # 1
      <4>1. k - 1 \in 1 .. Len(f) /\ prev = f[k - 1]
        BY <1>3, <3>2 DEF prev, At
      <4> QED
        BY <1>2, <3>2, <4>1, Place
    <3> QED
      BY <3>1, <3>2
  <2>2. k = 1 => next = At(f, 2)
    BY DEF next
  <2> QED
    BY <1>14, <2>1, <2>2
<1>17. Chain(h3, t.pool.free_list, Without(f, k))
  <2>1. ASSUME NEW i \in 1 .. Len(f), i # k
        PROVE  /\ h3[f[i]].next = IF i = k - 1 THEN At(f, k + 1) ELSE m.heap[f[i]].next
               /\ h3[f[i]].prev = IF i = k + 1 THEN At(f, k - 1) ELSE m.heap[f[i]].prev
    <3>1. f[i] \in Cells /\ f[i] \in Range(f) /\ f[i] # b /\ f[i] # head
      BY <1>2, <1>4, <2>1, Place DEF b, Injective
    <3>2. (f[i] = prev <=> i = k - 1) /\ (f[i] = next <=> i = k + 1)
      BY <1>2, <1>3, Place DEF prev, next
    <3>3. /\ h3[f[i]].next = IF f[i] = prev THEN next ELSE m.heap[f[i]].next
          /\ h3[f[i]].prev = IF f[i] = next THEN prev ELSE m.heap[f[i]].prev
      BY <1>10, <1>11, <1>12, <3>1
    <3> QED
      BY <3>2, <3>3 DEF prev, next
  <2> QED
    BY <1>2, <1>16, <2>1, ChainRemove
<1>18. Chain(h3, b, With(u, 1, b))
  <2>1. ASSUME NEW i \in 1 .. Len(u)
        PROVE  /\ h3[u[i]].next = IF i = 1 - 1 THEN b ELSE m.heap[u[i]].next
               /\ h3[u[i]].prev = IF i = 1 THEN b ELSE m.heap[u[i]].prev
    <3>1. u[i] \in Cells /\ u[i] \in Range(u) /\ u[i] # b /\ u[i] # prev /\ u[i] # next
          /\ i # 1 - 1
      BY <1>2, <1>4, Place
    <3>2. u[i] = head <=> i = 1
      BY <1>2, <1>3, Place DEF head
    <3> QED
      BY <1>10, <1>11, <1>12, <3>1, <3>2
  <2>2. h3[b].next = At(u, 1) /\ h3[b].prev = At(u, 1 - 1)
    <3>1. At(u, 1 - 1) = Null
      BY <1>3 DEF At
    <3> QED
      BY <1>4, <1>11, <1>12, <3>1 DEF head
  <2> QED
    BY <1>2, <1>3, <1>4, <2>1, <2>2, ChainInsert
<1>19. /\ Range(Without(f, k)) = Range(f) \ {b}
       /\ Range(With(u, 1, b)) = Range(u) \cup {b}
  <2>1. Range(Without(f, k)) = Range(f) \ {b}
    BY <1>2, WithoutParts DEF b
  <2>2. Range(With(u, 1, b)) = Range(u) \cup {b}
    BY <1>2, <1>3, <1>4, WithParts
  <2> QED
    BY <2>1, <2>2
<1>20. /\ \A c \in Range(f) : m.heap[c].allocated = FALSE
       /\ \A c \in Range(u) : m.heap[c].allocated = TRUE
       /\ Range(f) \cup Range(u) \subseteq m.live
  BY DEF Holds
<1>21. /\ \A c \in Range(f) \ {b} : h3[c].allocated = FALSE
       /\ \A c \in Range(u) \cup {b} : h3[c].allocated = TRUE
  <2>1. /\ h3[b].allocated = TRUE
        /\ \A c \in Cells : c # b => h3[c].allocated = m.heap[c].allocated
    BY <1>4, <1>10, <1>11, <1>12
  <2> QED
    BY <1>4, <1>20, <2>1
<1>22. Holds(t, Without(f, k), With(u, 1, b))
  BY <1>2, <1>4, <1>14, <1>17, <1>18, <1>19, <1>20, <1>21 DEF Holds
<1> QED
  BY <1>13, <1>14, <1>15, <1>22 DEF b, Taken

\* What cutting block f[k] makes of it, the rest in cell r.
CutOff(m, t, f, u, k, need, r) ==
  /\ t \in MemRec /\ t.live = m.live \cup {r} /\ t.pool = m.pool
  /\ Holds(t, With(f, k + 1, r), u)
  /\ t.heap[f[k]].size = need /\ t.heap[f[k]].addr = m.heap[f[k]].addr
  /\ t.heap[f[k]].managed = m.heap[f[k]].managed
  /\ t.heap[r].addr = m.heap[f[k]].addr + need
  /\ t.heap[r].size = m.heap[f[k]].size - need
  /\ t.heap[r].managed = FALSE
  /\ \A c \in Cells \ {f[k], r} : Same(t.heap[c], m.heap[c])
  /\ Only(t.heap, m.heap, Range(f) \cup {r})

LEMMA CutLists ==
  ASSUME NEW m \in MemRec, NEW f, NEW u, Holds(m, f, u), NEW k \in 1 .. Len(f),
         NEW need \in Nat, need <= m.heap[f[k]].size,
         NEW r \in Cells \ m.live, NEW t, t = Cut(m, f[k], need, r)
  PROVE  CutOff(m, t, f, u, k, need, r)
<1> DEFINE b    == f[k]
           next == At(f, k + 1)
           rest == [NewBlock(m.heap[b].addr + need, m.heap[b].size - need)
                      EXCEPT !.next = m.heap[b].next, !.prev = b]
           h1   == [m.heap EXCEPT ![r] = rest, ![b].next = r, ![b].size = need]
           h2   == SetPrev(h1, m.heap[b].next, r)
<1>1. /\ m.heap \in Heaps /\ m.live \subseteq Cells /\ m.pool \in PoolRec
      /\ DOMAIN m = {"heap", "live", "pool"}
  BY DEF MemRec
<1>2. /\ f \in Seq(Cells) /\ Injective(f) /\ u \in Seq(Cells) /\ Injective(u)
      /\ Chain(m.heap, m.pool.free_list, f) /\ Chain(m.heap, m.pool.used_list, u)
      /\ Range(f) \cap Range(u) = {} /\ Range(f) \cup Range(u) \subseteq m.live
      /\ \A c \in Range(f) : m.heap[c].allocated = FALSE
      /\ \A c \in Range(u) : m.heap[c].allocated = TRUE
  BY DEF Holds, Chain
<1>3. /\ Len(f) \in Nat /\ k \in Nat /\ k + 1 \in Int /\ k + 1 \in 1 .. (Len(f) + 1)
      /\ k # 0
  BY <1>2, LenProperties
<1>4. /\ b \in Cells /\ b \in Range(f) /\ b # Null /\ b # r /\ b # next
      /\ next \in Ptr /\ r \in Ptr /\ b \in Ptr /\ r # next /\ r # Null
      /\ next \in Range(f) \cup {Null} /\ b \notin Range(u)
      /\ r \notin Range(f) /\ r \notin Range(u) /\ Null \notin Cells
      /\ Range(f) \subseteq Cells /\ Range(u) \subseteq Cells
  <2>1. b = At(f, k) /\ b # next /\ Null \notin Cells
    <3>1. b = At(f, k)
      BY <1>3 DEF At
    <3>2. k # k + 1
      BY <1>3
    <3>3. b # next
      BY <1>2, <1>3, <3>2, Place
    <3>4. Null \notin Cells
      BY ManagerAssumption DEF ManagerAssumption
    <3> QED
      BY <3>1, <3>3, <3>4
  <2> QED
    BY <1>2, <1>3, <2>1, Place DEF Ptr
<1>5. m.heap[b].next = next
  BY <1>2 DEF Chain
<1>6. m.heap[b] \in CellRec /\ m.heap[b].addr \in Nat /\ m.heap[b].size \in Nat
  BY <1>1, <1>4 DEF Heaps, CellRec
<1>7. t = [m EXCEPT !.heap = h2, !.live = m.live \cup {r}]
  BY <1>1 DEF Cut
<1> HIDE DEF b, next
<1>8. /\ rest \in CellRec /\ rest.next = next /\ rest.prev = b
      /\ rest.addr = m.heap[b].addr + need /\ rest.size = m.heap[b].size - need
      /\ rest.managed = FALSE /\ rest.allocated = FALSE
  <2>1. m.heap[b].addr + need \in Nat /\ m.heap[b].size - need \in Nat
    <3> DEFINE A == m.heap[b].addr
               Z == m.heap[b].size
    <3>1. need <= Z /\ need \in Nat
      BY DEF b
    <3>2. A \in Nat /\ Z \in Nat
      BY <1>6
    <3> HIDE DEF A, Z, rest, h1, h2
    <3>3. A + need \in Nat /\ Z - need \in Nat
      BY <3>1, <3>2
    <3> QED
      BY <3>3 DEF A, Z
  <2> QED
    BY <1>4, <1>5, <2>1 DEF NewBlock, CellRec, Ptr
<1> HIDE DEF rest
<1>9. /\ h1 \in Heaps /\ h1[r] = rest
      /\ h1[b].next = r /\ h1[b].size = need /\ h1[b].prev = m.heap[b].prev
      /\ h1[b].addr = m.heap[b].addr /\ h1[b].managed = m.heap[b].managed
      /\ h1[b].allocated = m.heap[b].allocated
      /\ \A d \in Cells \ {b, r} : h1[d] = m.heap[d]
  <2> DEFINE q == [m.heap[b] EXCEPT !.next = r, !.size = need]
  <2>1. /\ q \in CellRec /\ q.next = r /\ q.size = need /\ q.prev = m.heap[b].prev
        /\ q.addr = m.heap[b].addr /\ q.managed = m.heap[b].managed
        /\ q.allocated = m.heap[b].allocated
    BY <1>4, <1>6 DEF CellRec
  <2>2. h1 = [m.heap EXCEPT ![r] = rest, ![b] = q]
    BY <1>1, <1>4 DEF Heaps
  <2> HIDE DEF q, h1
  <2> QED
    BY <1>1, <1>4, <1>8, <2>1, <2>2 DEF Heaps
<1> HIDE DEF h1
<1>10. /\ h2 \in Heaps
       /\ \A d \in Cells :
            /\ h2[d].prev = IF d = next THEN r ELSE h1[d].prev
            /\ h2[d].next = h1[d].next
            /\ h2[d].allocated = h1[d].allocated
            /\ Same(h2[d], h1[d])
            /\ d # next => h2[d] = h1[d]
  BY <1>4, <1>5, <1>9, SetPrevField
<1> HIDE DEF h2
<1>11. t.heap = h2 /\ t.live = m.live \cup {r} /\ t.pool = m.pool
  BY <1>1, <1>7
<1>12. t \in MemRec
  <2>1. h2 \in Heaps /\ m.live \cup {r} \in SUBSET Cells
    BY <1>1, <1>10
  <2> QED
    BY <1>7, <2>1 DEF MemRec
<1>13. /\ h2[b].size = need /\ h2[b].addr = m.heap[b].addr
       /\ h2[b].managed = m.heap[b].managed
       /\ h2[r].addr = m.heap[b].addr + need
       /\ h2[r].size = m.heap[b].size - need
       /\ h2[r].managed = FALSE /\ h2[r].allocated = FALSE
       /\ h2[r].next = next /\ h2[r].prev = b
       /\ h2[b].allocated = m.heap[b].allocated
  BY <1>4, <1>8, <1>9, <1>10 DEF Same
<1>14. ASSUME NEW c \in Cells \ {b, r}
       PROVE  Same(h2[c], m.heap[c]) /\ h2[c].allocated = m.heap[c].allocated
  BY <1>9, <1>10 DEF Same
<1>15. Only(h2, m.heap, Range(f) \cup {r})
  <2>1. ASSUME NEW d \in Cells \ (Range(f) \cup {r}) PROVE h2[d] = m.heap[d]
    BY <1>4, <1>9, <1>10
  <2> QED
    BY <2>1 DEF Only
<1>16. Chain(h2, m.pool.free_list, With(f, k + 1, r))
  <2> PICK j \in 1 .. (Len(f) + 1) : j = k + 1
    BY <1>3
  <2>1. ASSUME NEW i \in 1 .. Len(f)
        PROVE  /\ h2[f[i]].next = IF i = j - 1 THEN r ELSE m.heap[f[i]].next
               /\ h2[f[i]].prev = IF i = j THEN r ELSE m.heap[f[i]].prev
    <3>1. f[i] \in Cells /\ f[i] \in Range(f) /\ f[i] # r
      BY <1>2, <1>4, Place
    <3>2. (f[i] = next <=> i = j) /\ (f[i] = b <=> i = k) /\ j - 1 = k
      BY <1>2, <1>3, Place DEF next, b, Injective
    <3>3. h2[f[i]].next = IF f[i] = b THEN r ELSE m.heap[f[i]].next
      BY <1>9, <1>10, <3>1
    <3>4. h2[f[i]].prev = IF f[i] = next THEN r ELSE m.heap[f[i]].prev
      BY <1>9, <1>10, <3>1
    <3> QED
      BY <3>2, <3>3, <3>4
  <2>2. h2[r].next = At(f, j) /\ h2[r].prev = At(f, j - 1)
    <3>1. At(f, j - 1) = b
      BY <1>3 DEF At, b
    <3> QED
      BY <1>13, <3>1 DEF next
  <2>3. m.pool.free_list = IF j = 1 THEN r ELSE m.pool.free_list
    BY <1>3
  <2>4. Chain(m.heap, m.pool.free_list, f) /\ r \in Cells /\ r \notin Range(f)
    BY <1>2, <1>4
  <2>5. Chain(h2, m.pool.free_list, With(f, j, r))
    BY <2>1, <2>2, <2>3, <2>4, ChainInsert
  <2> QED
    BY <2>5
<1>17. Chain(h2, m.pool.used_list, u)
  <2>1. \A c \in Range(u) : h2[c] = m.heap[c]
    BY <1>2, <1>4, <1>15 DEF Only
  <2> QED
    BY <1>2, <2>1, ChainKept
<1>18. Range(With(f, k + 1, r)) = Range(f) \cup {r}
  BY <1>2, <1>3, <1>4, WithParts
<1>19. Holds(t, With(f, k + 1, r), u)
  <2>1. \A c \in Range(f) \cup {r} : h2[c].allocated = FALSE
    BY <1>2, <1>4, <1>13, <1>14
  <2>2. \A c \in Range(u) : h2[c].allocated = TRUE
    BY <1>2, <1>4, <1>14
  <2> QED
    BY <1>2, <1>4, <1>11, <1>16, <1>17, <1>18, <2>1, <2>2 DEF Holds
<1> QED
  BY <1>11, <1>12, <1>13, <1>14, <1>15, <1>19 DEF b, CutOff

\* The place in the free list that a freed block goes to.
LEMMA FollowingPlace ==
  ASSUME NEW m \in MemRec, NEW f, NEW u, Holds(m, f, u), NEW b \in Cells
  PROVE  \E j \in 1 .. (Len(f) + 1) :
           /\ Following(m, b) = At(f, j)
           /\ \A i \in 1 .. Len(f) : i < j => m.heap[f[i]].addr < m.heap[b].addr
           /\ j \in 1 .. Len(f) => m.heap[f[j]].addr >= m.heap[b].addr
<1> DEFINE I == {i \in 1 .. Len(f) : m.heap[f[i]].addr >= m.heap[b].addr}
           k == IF I # {} THEN Min(I) ELSE 0
<1>1. f \in Seq(Cells) /\ Injective(f) /\ Chain(m.heap, m.pool.free_list, f)
      /\ m.heap \in Heaps
  BY DEF Holds, Chain, MemRec
<1>2. Len(f) \in Nat /\ \A i \in 1 .. Len(f) : f[i] \in Cells
  BY <1>1, Place
<1>3. \A c \in Cells : m.heap[c].addr \in Nat
  BY <1>1 DEF Heaps, CellRec
<1>4. FreeList(m) = f
  BY <1>1, ListOfChain DEF FreeList
<1>5. Following(m, b) = IF k = 0 THEN Null ELSE f[k]
  BY <1>4 DEF Following, First, SelectInSeq
<1>6. IsFirst(k, I)
  <2>1. I \subseteq Nat
    OBVIOUS
  <2> HIDE DEF I
  <2> QED
    BY <2>1, FirstIndex
<1> HIDE DEF k
<1>7. CASE I = {}
  <2>1. Following(m, b) = At(f, Len(f) + 1)
    BY <1>2, <1>5, <1>6, <1>7 DEF IsFirst, At
  <2>2. \A i \in 1 .. Len(f) : m.heap[f[i]].addr < m.heap[b].addr
    BY <1>2, <1>3, <1>7
  <2>3. Len(f) + 1 \in 1 .. (Len(f) + 1) /\ Len(f) + 1 \notin 1 .. Len(f)
    BY <1>2
  <2> QED
    BY <2>1, <2>2, <2>3
<1>8. CASE I # {}
  <2>1. k \in I /\ \A i \in I : k <= i
    BY <1>6, <1>8 DEF IsFirst
  <2>2. k \in 1 .. Len(f) /\ k \in 1 .. (Len(f) + 1) /\ k # 0
        /\ m.heap[f[k]].addr >= m.heap[b].addr
    BY <1>2, <2>1
  <2>3. Following(m, b) = At(f, k)
    BY <1>5, <2>2 DEF At
  <2>4. ASSUME NEW i \in 1 .. Len(f), i < k PROVE m.heap[f[i]].addr < m.heap[b].addr
    <3>1. i \notin I
      BY <1>2, <2>1, <2>2, <2>4
    <3> QED
      BY <1>2, <1>3, <3>1
  <2> HIDE DEF I
  <2> QED
    BY <2>2, <2>3, <2>4
<1> QED
  BY <1>7, <1>8

\* pool_free until its two merges.
Returned(m, b) ==
  LET me   == m.heap[b]
      h1   == SetPrev(SetNext(m.heap, me.prev, me.next), me.next, me.prev)
      curr == Following(m, b)
      prev == Previous(FreeList(m), curr)
      h2   == [h1 EXCEPT ![b].allocated = FALSE, ![b].next = curr, ![b].prev = prev]
      h3   == SetPrev(SetNext(h2, prev, b), curr, b)
  IN  [m EXCEPT
        !.heap = h3,
        !.pool = [free_list |-> IF prev = Null THEN b ELSE m.pool.free_list,
                  used_list |-> IF me.prev = Null THEN me.next
                                                  ELSE m.pool.used_list,
                  used_size |-> (m.pool.used_size - me.size) % Width]]

LEMMA PoolFreeParts ==
  ASSUME NEW m, NEW b, m.heap[b].allocated = TRUE
  PROVE  PoolFree(m, b) =
           MergeNext(MergeNext(Returned(m, b), b), Previous(FreeList(m), Following(m, b)))
BY DEF PoolFree, Returned

\* What giving block u[k] back to place j makes of it.
GivenBack(m, t, f, u, k, j) ==
  /\ t \in MemRec /\ t.live = m.live
  /\ t.pool.used_size = (m.pool.used_size - m.heap[u[k]].size) % Width
  /\ Holds(t, With(f, j, u[k]), Without(u, k))
  /\ \A c \in Cells : Same(t.heap[c], m.heap[c])
  /\ Only(t.heap, m.heap, Range(f) \cup Range(u))

LEMMA ReturnLists ==
  ASSUME NEW m \in MemRec, NEW f, NEW u, Holds(m, f, u), NEW k \in 1 .. Len(u),
         NEW j \in 1 .. (Len(f) + 1), Following(m, u[k]) = At(f, j),
         NEW t, t = Returned(m, u[k])
  PROVE  GivenBack(m, t, f, u, k, j)
<1> DEFINE b    == u[k]
           prev == At(f, j - 1)
           curr == At(f, j)
           left == At(u, k - 1)
           rght == At(u, k + 1)
           h0   == SetNext(m.heap, left, rght)
           h1   == SetPrev(h0, rght, left)
           h2   == [h1 EXCEPT ![b].allocated = FALSE, ![b].next = curr, ![b].prev = prev]
           h3   == SetNext(h2, prev, b)
           h4   == SetPrev(h3, curr, b)
           fl   == IF prev = Null THEN b ELSE m.pool.free_list
           ul   == IF left = Null THEN rght ELSE m.pool.used_list
           us   == (m.pool.used_size - m.heap[b].size) % Width
<1>1. /\ m.heap \in Heaps /\ m.live \subseteq Cells /\ m.pool \in PoolRec
      /\ DOMAIN m = {"heap", "live", "pool"}
  BY DEF MemRec
<1>2. /\ f \in Seq(Cells) /\ Injective(f) /\ m.pool.free_list = At(f, 1)
      /\ u \in Seq(Cells) /\ Injective(u) /\ m.pool.used_list = At(u, 1)
      /\ Chain(m.heap, m.pool.free_list, f) /\ Chain(m.heap, m.pool.used_list, u)
      /\ Range(f) \cap Range(u) = {} /\ Range(f) \cup Range(u) \subseteq m.live
      /\ \A c \in Range(f) : m.heap[c].allocated = FALSE
      /\ \A c \in Range(u) : m.heap[c].allocated = TRUE
  BY DEF Holds, Chain
<1>3. /\ Len(f) \in Nat /\ Len(u) \in Nat /\ k \in Nat /\ j \in Nat
      /\ k - 1 \in Int /\ k + 1 \in Int /\ j - 1 \in Int /\ j \in Int
  BY <1>2, LenProperties
<1>4. /\ b \in Cells /\ b \in Range(u) /\ b \notin Range(f) /\ b # left /\ b # rght
      /\ b # prev /\ b # curr /\ b # Null
      /\ prev \in Ptr /\ curr \in Ptr /\ left \in Ptr /\ rght \in Ptr /\ b \in Ptr
      /\ prev \in Range(f) \cup {Null} /\ curr \in Range(f) \cup {Null}
      /\ left \in Range(u) \cup {Null} /\ rght \in Range(u) \cup {Null}
      /\ Range(f) \subseteq Cells /\ Range(u) \subseteq Cells
      /\ Null \notin Range(f) /\ Null \notin Range(u)
  <2>1. b \in Cells /\ b \in Range(u) /\ b # left /\ b # rght /\ b # Null
    BY <1>2, <1>3, Place
  <2> QED
    BY <1>2, <1>3, <2>1, Place DEF Ptr
<1>5. FreeList(m) = f
  BY <1>1, <1>2, ListOfChain DEF FreeList
<1>6. Following(m, b) = curr /\ Previous(FreeList(m), curr) = prev
  BY <1>2, <1>5, PreviousPlace
<1>7. m.heap[b].next = rght /\ m.heap[b].prev = left
  BY <1>2 DEF Chain
<1>8. t = [m EXCEPT !.heap = h4,
             !.pool = [free_list |-> fl, used_list |-> ul, used_size |-> us]]
  BY <1>6, <1>7 DEF Returned
<1>9. us \in Nat
  <2> HIDE DEF b
  <2>1. m.heap[b] \in CellRec
    BY <1>1, <1>4 DEF Heaps
  <2>2. m.pool.used_size \in Int
    BY <1>1 DEF PoolRec
  <2>3. m.heap[b].size \in Int
    BY <2>1 DEF CellRec
  <2>4. Width \in Nat \ {0}
    BY ManagerAssumption DEF ManagerAssumption
  <2>5. \A x \in Int : x % Width \in Nat
    BY <2>4
  <2>6. m.pool.used_size - m.heap[b].size \in Int
    BY <2>2, <2>3
  <2> QED
    BY <2>5, <2>6
<1> HIDE DEF b, prev, curr, left, rght
<1>10. /\ h1 \in Heaps
       /\ \A d \in Cells :
            /\ h1[d].next = IF d = left THEN rght ELSE m.heap[d].next
            /\ h1[d].prev = IF d = rght THEN left ELSE m.heap[d].prev
            /\ h1[d].allocated = m.heap[d].allocated
            /\ Same(h1[d], m.heap[d])
            /\ d # left /\ d # rght => h1[d] = m.heap[d]
  <2>1. /\ h0 \in Heaps
        /\ \A d \in Cells :
             /\ h0[d].next = IF d = left THEN rght ELSE m.heap[d].next
             /\ h0[d].prev = m.heap[d].prev
             /\ h0[d].allocated = m.heap[d].allocated
             /\ Same(h0[d], m.heap[d])
             /\ d # left => h0[d] = m.heap[d]
    BY <1>1, <1>4, SetNextField
  <2> HIDE DEF h0
  <2>2. /\ h1 \in Heaps
        /\ \A d \in Cells :
             /\ h1[d].prev = IF d = rght THEN left ELSE h0[d].prev
             /\ h1[d].next = h0[d].next
             /\ h1[d].allocated = h0[d].allocated
             /\ Same(h1[d], h0[d])
             /\ d # rght => h1[d] = h0[d]
    BY <1>4, <2>1, SetPrevField
  <2> HIDE DEF h1
  <2> QED
    BY <2>1, <2>2 DEF Same
<1> HIDE DEF h1
<1>11. /\ h2 \in Heaps
       /\ h2[b].next = curr /\ h2[b].prev = prev /\ h2[b].allocated = FALSE
       /\ Same(h2[b], h1[b])
       /\ \A d \in Cells : d # b => h2[d] = h1[d]
  <2> DEFINE r == [h1[b] EXCEPT !.allocated = FALSE, !.next = curr, !.prev = prev]
  <2>1. h2 = [h1 EXCEPT ![b] = r]
    BY <1>4, <1>10 DEF Heaps, CellRec
  <2>2. h1[b] \in CellRec
    BY <1>4, <1>10 DEF Heaps
  <2>3. /\ r \in CellRec /\ r.next = curr /\ r.prev = prev /\ r.allocated = FALSE
        /\ Same(r, h1[b])
    BY <1>4, <2>2 DEF CellRec, Same
  <2> HIDE DEF r, h2
  <2> QED
    BY <1>4, <1>10, <2>1, <2>3 DEF Heaps
<1> HIDE DEF h2
<1>12. /\ h4 \in Heaps
       /\ \A d \in Cells :
            /\ h4[d].next = IF d = prev THEN b ELSE h2[d].next
            /\ h4[d].prev = IF d = curr THEN b ELSE h2[d].prev
            /\ h4[d].allocated = h2[d].allocated
            /\ Same(h4[d], h2[d])
            /\ d # prev /\ d # curr => h4[d] = h2[d]
  <2>1. /\ h3 \in Heaps
        /\ \A d \in Cells :
             /\ h3[d].next = IF d = prev THEN b ELSE h2[d].next
             /\ h3[d].prev = h2[d].prev
             /\ h3[d].allocated = h2[d].allocated
             /\ Same(h3[d], h2[d])
             /\ d # prev => h3[d] = h2[d]
    BY <1>4, <1>11, SetNextField
  <2> HIDE DEF h3
  <2>2. /\ h4 \in Heaps
        /\ \A d \in Cells :
             /\ h4[d].prev = IF d = curr THEN b ELSE h3[d].prev
             /\ h4[d].next = h3[d].next
             /\ h4[d].allocated = h3[d].allocated
             /\ Same(h4[d], h3[d])
             /\ d # curr => h4[d] = h3[d]
    BY <1>4, <2>1, SetPrevField
  <2> HIDE DEF h4
  <2> QED
    BY <2>1, <2>2 DEF Same
<1> HIDE DEF h4
<1>13. /\ \A d \in Cells : Same(h4[d], m.heap[d])
       /\ Only(h4, m.heap, Range(f) \cup Range(u))
  <2>1. ASSUME NEW d \in Cells PROVE Same(h4[d], m.heap[d])
    BY <1>4, <1>10, <1>11, <1>12, <2>1 DEF Same
  <2>2. ASSUME NEW d \in Cells \ (Range(f) \cup Range(u)) PROVE h4[d] = m.heap[d]
    <3>1. d # b /\ d # prev /\ d # curr /\ d # left /\ d # rght
      BY <1>4, ManagerAssumption DEF ManagerAssumption
    <3> QED
      BY <1>10, <1>11, <1>12, <3>1
  <2> QED
    BY <2>1, <2>2 DEF Only
<1>14. /\ h4[b].allocated = FALSE
       /\ \A c \in Cells : c # b => h4[c].allocated = m.heap[c].allocated
  BY <1>4, <1>10, <1>11, <1>12
<1>15. prev = Null <=> j = 1
  <2>1. CASE j = 1
    BY <1>3, <2>1 DEF prev, At
  <2>2. CASE j # 1
    <3>1. j - 1 \in 1 .. Len(f) /\ prev = f[j - 1]
      BY <1>3, <2>2 DEF prev, At
    <3> QED
      BY <1>2, <2>2, <3>1, Place
  <2> QED
    BY <2>1, <2>2
<1>16. left = Null <=> k = 1
  <2>1. CASE k = 1
    BY <1>3, <2>1 DEF left, At
  <2>2. CASE k # 1
    <3>1. k - 1 \in 1 .. Len(u) /\ left = u[k - 1]
      BY <1>3, <2>2 DEF left, At
    <3> QED
      BY <1>2, <2>2, <3>1, Place
  <2> QED
    BY <2>1, <2>2
<1>17. fl = (IF j = 1 THEN b ELSE m.pool.free_list)
       /\ ul = (IF k = 1 THEN At(u, 2) ELSE m.pool.used_list)
  <2>1. k = 1 => rght = At(u, 2)
    BY DEF rght
  <2> QED
    BY <1>15, <1>16, <2>1
<1> HIDE DEF fl, ul, us
<1>18. t.heap = h4 /\ t.live = m.live /\ t.pool.free_list = fl
       /\ t.pool.used_list = ul /\ t.pool.used_size = us
  BY <1>1, <1>8
<1>19. t \in MemRec
  <2>1. fl \in Ptr /\ ul \in Ptr
    BY <1>1, <1>4 DEF fl, ul, PoolRec
  <2>2. [free_list |-> fl, used_list |-> ul, used_size |-> us] \in PoolRec
    BY <1>9, <2>1 DEF PoolRec
  <2> QED
    BY <1>1, <1>8, <1>12, <2>2 DEF MemRec
<1>20. Chain(h4, ul, Without(u, k))
  <2>1. ASSUME NEW i \in 1 .. Len(u), i # k
        PROVE  /\ h4[u[i]].next = IF i = k - 1 THEN At(u, k + 1) ELSE m.heap[u[i]].next
               /\ h4[u[i]].prev = IF i = k + 1 THEN At(u, k - 1) ELSE m.heap[u[i]].prev
    <3>1. u[i] \in Cells /\ u[i] \in Range(u) /\ u[i] # b /\ u[i] # prev /\ u[i] # curr
      BY <1>2, <1>4, <2>1, Place DEF b, Injective
    <3>2. (u[i] = left <=> i = k - 1) /\ (u[i] = rght <=> i = k + 1)
      BY <1>2, <1>3, Place DEF left, rght
    <3>3. /\ h4[u[i]].next = IF u[i] = left THEN rght ELSE m.heap[u[i]].next
          /\ h4[u[i]].prev = IF u[i] = rght THEN left ELSE m.heap[u[i]].prev
      BY <1>10, <1>11, <1>12, <3>1
    <3> QED
      BY <3>2, <3>3 DEF left, rght
  <2>2. Chain(m.heap, m.pool.used_list, u) /\ ul = IF k = 1 THEN At(u, 2) ELSE m.pool.used_list
    BY <1>2, <1>17
  <2> QED
    BY <2>1, <2>2, ChainRemove
<1>21. Chain(h4, fl, With(f, j, b))
  <2>1. ASSUME NEW i \in 1 .. Len(f)
        PROVE  /\ h4[f[i]].next = IF i = j - 1 THEN b ELSE m.heap[f[i]].next
               /\ h4[f[i]].prev = IF i = j THEN b ELSE m.heap[f[i]].prev
    <3>1. f[i] \in Cells /\ f[i] \in Range(f) /\ f[i] # b /\ f[i] # left /\ f[i] # rght
      BY <1>2, <1>4, Place
    <3>2. (f[i] = prev <=> i = j - 1) /\ (f[i] = curr <=> i = j)
      BY <1>2, <1>3, Place DEF prev, curr
    <3> QED
      BY <1>10, <1>11, <1>12, <3>1, <3>2
  <2>2. h4[b].next = At(f, j) /\ h4[b].prev = At(f, j - 1)
    BY <1>4, <1>11, <1>12 DEF prev, curr
  <2> QED
    BY <1>2, <1>4, <1>17, <2>1, <2>2, ChainInsert
<1>22. Range(Without(u, k)) = Range(u) \ {b}
  BY <1>2, WithoutParts DEF b
<1>23. Range(With(f, j, b)) = Range(f) \cup {b}
  BY <1>2, <1>4, WithParts
<1>24. Holds(t, With(f, j, b), Without(u, k))
  <2>1. \A c \in Range(f) \cup {b} : h4[c].allocated = FALSE
    BY <1>2, <1>4, <1>14
  <2>2. \A c \in Range(u) \ {b} : h4[c].allocated = TRUE
    BY <1>2, <1>4, <1>14
  <2> QED
    BY <1>2, <1>4, <1>18, <1>20, <1>21, <1>22, <1>23, <2>1, <2>2 DEF Holds
<1> QED
  BY <1>13, <1>18, <1>19, <1>24 DEF b, us, GivenBack

\* What the merge of block f[k] with the next makes of it.
Absorbed(m, t, f, u, k) ==
  /\ t \in MemRec /\ t.live = m.live \ {f[k + 1]} /\ t.pool = m.pool
  /\ Holds(t, Without(f, k + 1), u)
  /\ t.heap[f[k]].size = m.heap[f[k]].size + m.heap[f[k + 1]].size
  /\ t.heap[f[k]].addr = m.heap[f[k]].addr
  /\ t.heap[f[k]].managed = m.heap[f[k]].managed
  /\ \A c \in Cells \ {f[k], f[k + 1]} : Same(t.heap[c], m.heap[c])
  /\ Only(t.heap, m.heap, Range(f))

\* Block f[k] absorbs the block after it on the free list.
LEMMA AbsorbLists ==
  ASSUME NEW m \in MemRec, NEW f, NEW u, Holds(m, f, u), NEW k \in 1 .. Len(f),
         k + 1 \in 1 .. Len(f), NEW t, t = Absorb(m, f[k])
  PROVE  Absorbed(m, t, f, u, k)
<1> DEFINE b    == f[k]
           c    == f[k + 1]
           next == At(f, k + 2)
           h1   == [m.heap EXCEPT ![b].size = @ + m.heap[c].size, ![b].next = next]
           h2   == SetPrev(h1, next, b)
           h3   == [h2 EXCEPT ![c] = Garbage]
<1>1. /\ m.heap \in Heaps /\ m.live \subseteq Cells /\ m.pool \in PoolRec
      /\ DOMAIN m = {"heap", "live", "pool"}
  BY DEF MemRec
<1>2. /\ f \in Seq(Cells) /\ Injective(f) /\ u \in Seq(Cells) /\ Injective(u)
      /\ Chain(m.heap, m.pool.free_list, f) /\ Chain(m.heap, m.pool.used_list, u)
      /\ Range(f) \cap Range(u) = {} /\ Range(f) \cup Range(u) \subseteq m.live
      /\ \A x \in Range(f) : m.heap[x].allocated = FALSE
      /\ \A x \in Range(u) : m.heap[x].allocated = TRUE
      /\ m.pool.free_list = At(f, 1)
  BY DEF Holds, Chain
<1>3. /\ Len(f) \in Nat /\ k \in Nat /\ k + 1 \in Int /\ k + 2 \in Int
      /\ k \in Int /\ 1 \in Int /\ k + 1 # k /\ k + 1 # k + 2 /\ k # k + 2
      /\ k + 1 - 1 = k /\ k + 1 + 1 = k + 2 /\ k + 1 # 1
  BY <1>2, LenProperties
<1>4. /\ b \in Cells /\ b \in Range(f) /\ b # Null /\ b # c /\ b # next
      /\ c \in Cells /\ c \in Range(f) /\ c # Null /\ c # next
      /\ next \in Ptr /\ b \in Ptr /\ c \in Ptr
      /\ next \in Range(f) \cup {Null} /\ b \notin Range(u) /\ c \notin Range(u)
      /\ Null \notin Cells /\ Range(f) \subseteq Cells /\ Range(u) \subseteq Cells
  <2>1. b = At(f, k) /\ c = At(f, k + 1)
    BY <1>3 DEF At
  <2>2. b # c /\ b # next /\ c # next
    BY <1>2, <1>3, <2>1, Place
  <2> QED
    BY <1>2, <1>3, <2>2, Place, ManagerAssumption DEF Ptr, ManagerAssumption
<1>5. m.heap[b].next = c /\ m.heap[c].next = next
  <2>1. At(f, k + 1) = c /\ At(f, k + 1 + 1) = next
    BY <1>3 DEF At
  <2> QED
    BY <1>2, <2>1 DEF Chain
<1> HIDE DEF b, c, next
<1>6. m.heap[b] \in CellRec /\ m.heap[c] \in CellRec
  BY <1>1, <1>4 DEF Heaps
<1>7. t = [m EXCEPT !.heap = h3, !.live = m.live \ {c}]
  BY <1>1, <1>5 DEF Absorb, b
<1>8. /\ h1 \in Heaps /\ h1[b].next = next
      /\ h1[b].size = m.heap[b].size + m.heap[c].size
      /\ h1[b].prev = m.heap[b].prev /\ h1[b].addr = m.heap[b].addr
      /\ h1[b].managed = m.heap[b].managed /\ h1[b].allocated = m.heap[b].allocated
      /\ \A d \in Cells \ {b} : h1[d] = m.heap[d]
  <2> DEFINE q == [m.heap[b] EXCEPT !.size = m.heap[b].size + m.heap[c].size, !.next = next]
  <2>1. m.heap[b].size + m.heap[c].size \in Nat
    <3>1. m.heap[b].size \in Nat /\ m.heap[c].size \in Nat
      BY <1>6 DEF CellRec
    <3> QED
      BY <3>1
  <2>2. /\ q \in CellRec /\ q.next = next /\ q.prev = m.heap[b].prev
        /\ q.size = m.heap[b].size + m.heap[c].size
        /\ q.addr = m.heap[b].addr /\ q.managed = m.heap[b].managed
        /\ q.allocated = m.heap[b].allocated
    <3> HIDE DEF q
    <3> QED
      BY <1>4, <1>6, <2>1 DEF CellRec, q
  <2>3. h1 = [m.heap EXCEPT ![b] = q]
    BY <1>1, <1>4 DEF Heaps
  <2> HIDE DEF q, h1
  <2> QED
    BY <1>1, <1>4, <2>2, <2>3 DEF Heaps
<1> HIDE DEF h1
<1>9. /\ h2 \in Heaps
      /\ \A d \in Cells :
           /\ h2[d].prev = IF d = next THEN b ELSE h1[d].prev
           /\ h2[d].next = h1[d].next
           /\ h2[d].allocated = h1[d].allocated
           /\ Same(h2[d], h1[d])
           /\ d # next => h2[d] = h1[d]
  BY <1>4, <1>8, SetPrevField
<1> HIDE DEF h2
<1>10. h3 \in Heaps /\ h3[c] = Garbage /\ \A d \in Cells \ {c} : h3[d] = h2[d]
  <2>1. Garbage \in CellRec
    BY DEF Garbage, NewBlock, CellRec, Ptr
  <2> QED
    BY <1>4, <1>9, <2>1 DEF Heaps
<1> HIDE DEF h3
<1>11. t.heap = h3 /\ t.live = m.live \ {c} /\ t.pool = m.pool
  BY <1>1, <1>7
<1>12. t \in MemRec
  BY <1>1, <1>7, <1>10 DEF MemRec
<1>13. /\ h3[b].size = m.heap[b].size + m.heap[c].size
       /\ h3[b].addr = m.heap[b].addr /\ h3[b].managed = m.heap[b].managed
       /\ h3[b].next = next /\ h3[b].allocated = m.heap[b].allocated
  BY <1>4, <1>8, <1>9, <1>10
<1>14. ASSUME NEW d \in Cells \ {b, c}
       PROVE  Same(h3[d], m.heap[d]) /\ h3[d].allocated = m.heap[d].allocated
  BY <1>8, <1>9, <1>10 DEF Same
<1>15. Only(h3, m.heap, Range(f))
  <2>1. ASSUME NEW d \in Cells \ Range(f) PROVE h3[d] = m.heap[d]
    BY <1>4, <1>8, <1>9, <1>10
  <2> QED
    BY <2>1 DEF Only
<1>16. Chain(h3, m.pool.free_list, Without(f, k + 1))
  <2>1. ASSUME NEW i \in 1 .. Len(f), i # k + 1
        PROVE  /\ h3[f[i]].next = IF i = (k + 1) - 1 THEN At(f, (k + 1) + 1)
                                  ELSE m.heap[f[i]].next
               /\ h3[f[i]].prev = IF i = (k + 1) + 1 THEN At(f, (k + 1) - 1)
                                  ELSE m.heap[f[i]].prev
    <3>1. f[i] \in Cells /\ f[i] # c
      BY <1>2, <1>3, <2>1, Place DEF c, Injective
    <3>2. (f[i] = next <=> i = k + 2) /\ (f[i] = b <=> i = k)
      BY <1>2, <1>3, Place DEF next, b, Injective
    <3>3. h3[f[i]].next = IF f[i] = b THEN next ELSE m.heap[f[i]].next
      BY <1>8, <1>9, <1>10, <3>1
    <3>4. h3[f[i]].prev = IF f[i] = next THEN b ELSE m.heap[f[i]].prev
      BY <1>8, <1>9, <1>10, <3>1
    <3>5. At(f, (k + 1) + 1) = next /\ At(f, (k + 1) - 1) = b
      BY <1>3 DEF At, b, next
    <3> QED
      BY <1>3, <3>2, <3>3, <3>4, <3>5
  <2>2. m.pool.free_list = IF k + 1 = 1 THEN At(f, 2) ELSE m.pool.free_list
    BY <1>3
  <2> QED
    BY <1>2, <1>3, <2>1, <2>2, ChainRemove
<1>17. Chain(h3, m.pool.used_list, u)
  <2>1. \A d \in Range(u) : h3[d] = m.heap[d]
    BY <1>2, <1>4, <1>15 DEF Only
  <2> QED
    BY <1>2, <2>1, ChainKept
<1>18. Range(Without(f, k + 1)) = Range(f) \ {c}
  BY <1>2, <1>3, <1>4, WithoutParts DEF c
<1>19. Holds(t, Without(f, k + 1), u)
  <2>1. \A d \in Range(f) \ {c} : h3[d].allocated = FALSE
    BY <1>2, <1>4, <1>13, <1>14
  <2>2. \A d \in Range(u) : h3[d].allocated = TRUE
    BY <1>2, <1>4, <1>14
  <2> QED
    BY <1>2, <1>4, <1>11, <1>16, <1>17, <1>18, <2>1, <2>2 DEF Holds
<1> QED
  BY <1>11, <1>12, <1>13, <1>14, <1>15, <1>19 DEF b, c, Absorbed

-----------------------------------------------------------------------------
(***************************************************************************)
(* What a pool is between two calls: two lists whose blocks lie apart in   *)
(* the pool's addresses, the free ones in address order.                   *)
(***************************************************************************)
Apart(hp, c, d) ==
  \/ hp[c].addr + hp[c].size <= hp[d].addr
  \/ hp[d].addr + hp[d].size <= hp[c].addr
Laid(p, hp, S) ==
  /\ \A c \in S : /\ hp[c].size > 0 /\ PoolBase[p] <= hp[c].addr
                  /\ hp[c].addr + hp[c].size <= PoolBase[p] + PoolTotal[p]
  /\ \A c, d \in S : c # d => Apart(hp, c, d)
Sorted(hp, f) == \A i, j \in 1 .. Len(f) : i < j => hp[f[i]].addr < hp[f[j]].addr
\* is_managed is never set on a block of another pool.
Tame(p, hp, S) == p # "managed" => \A c \in S : hp[c].managed = FALSE

Sound(p, m, f, u) ==
  /\ m \in MemRec /\ Holds(m, f, u) /\ m.pool.used_size \in 0 .. (Width - 1)
  /\ Laid(p, m.heap, Range(f) \cup Range(u)) /\ Sorted(m.heap, f)
  /\ Tame(p, m.heap, Range(f) \cup Range(u))

LEMMA CellTypes ==
  ASSUME NEW hp \in Heaps, NEW c \in Cells
  PROVE  /\ hp[c].addr \in Nat /\ hp[c].size \in Nat /\ hp[c].managed \in BOOLEAN
         /\ hp[c].next \in Ptr /\ hp[c].prev \in Ptr
         /\ hp[c].host \in Hosts \cup {Null}
<1>1. hp[c] \in CellRec
  BY DEF Heaps
<1> QED
  BY <1>1 DEF CellRec

LEMMA PoolNumbers ==
  ASSUME NEW p \in Pools
  PROVE  /\ PoolBase[p] \in Nat /\ PoolTotal[p] \in Nat \ {0} /\ PoolPage[p] \in Nat \ {0}
         /\ PoolBase[p] + PoolTotal[p] <= Width /\ Width \in Nat \ {0}
BY ManagerAssumption DEF ManagerAssumption

LEMMA LaidSame ==
  ASSUME NEW p, NEW hp, NEW hq, NEW S, Laid(p, hp, S), NEW T, T \subseteq S,
         \A c \in T : Same(hq[c], hp[c])
  PROVE  Laid(p, hq, T)
BY DEF Laid, Same, Apart

LEMMA TameSame ==
  ASSUME NEW p, NEW hp, NEW hq, NEW S, Tame(p, hp, S), NEW T, T \subseteq S,
         \A c \in T : hq[c].managed = hp[c].managed
  PROVE  Tame(p, hq, T)
BY DEF Tame

LEMMA SortedWithout ==
  ASSUME NEW f \in Seq(Cells), Injective(f), NEW k \in 1 .. Len(f), NEW hp, NEW hq,
         Sorted(hp, f),
         \A i \in 1 .. Len(f) : i # k => hq[f[i]].addr = hp[f[i]].addr
  PROVE  Sorted(hq, Without(f, k))
<1> DEFINE n == Len(f)
           t == Without(f, k)
<1>1. n \in Nat /\ k \in Nat
  BY LenProperties
<1>2. Len(t) = n - 1 /\ \A i \in 1 .. (n - 1) : t[i] = f[IF i < k THEN i ELSE i + 1]
  BY WithoutParts
<1> HIDE DEF t, n
<1>3. ASSUME NEW i \in 1 .. Len(t), NEW j \in 1 .. Len(t), i < j
      PROVE  hq[t[i]].addr < hq[t[j]].addr
  <2> DEFINE x == IF i < k THEN i ELSE i + 1
             y == IF j < k THEN j ELSE j + 1
  <2>1. /\ x \in 1 .. n /\ y \in 1 .. n /\ x < y /\ x # k /\ y # k
    BY <1>1, <1>2, <1>3 DEF n
  <2>2. t[i] = f[x] /\ t[j] = f[y]
    BY <1>2
  <2> HIDE DEF x, y
  <2>3. hp[f[x]].addr < hp[f[y]].addr
    BY <2>1 DEF Sorted, n
  <2>4. hq[f[x]].addr = hp[f[x]].addr /\ hq[f[y]].addr = hp[f[y]].addr
    BY <2>1 DEF n
  <2> QED
    BY <2>2, <2>3, <2>4
<1> QED
  BY <1>3 DEF Sorted, t

LEMMA SortedWith ==
  ASSUME NEW f \in Seq(Cells), Injective(f), NEW k \in 1 .. (Len(f) + 1),
         NEW b \in Cells, b \notin Range(f), NEW hp, NEW hq, Sorted(hp, f),
         \A i \in 1 .. Len(f) :
           /\ hq[f[i]].addr = hp[f[i]].addr
           /\ IF i < k THEN hp[f[i]].addr < hq[b].addr ELSE hq[b].addr < hp[f[i]].addr
  PROVE  Sorted(hq, With(f, k, b))
<1> DEFINE n == Len(f)
           t == With(f, k, b)
<1>1. n \in Nat /\ k \in Nat
  BY LenProperties
<1>2. /\ Len(t) = n + 1
      /\ \A i \in 1 .. (n + 1) :
           t[i] = IF i < k THEN f[i] ELSE IF i = k THEN b ELSE f[i - 1]
  BY WithParts
<1> HIDE DEF t
<1>3. ASSUME NEW i \in 1 .. Len(t), NEW j \in 1 .. Len(t), i < j
      PROVE  hq[t[i]].addr < hq[t[j]].addr
  <2>1. CASE j < k
    <3>1. t[i] = f[i] /\ t[j] = f[j] /\ i \in 1 .. n /\ j \in 1 .. n
      BY <1>1, <1>2, <1>3, <2>1
    <3> QED
      BY <1>3, <3>1 DEF Sorted
  <2>2. CASE j = k
    <3>1. t[i] = f[i] /\ t[j] = b /\ i \in 1 .. n /\ i < k
      BY <1>1, <1>2, <1>3, <2>2
    <3> QED
      BY <3>1
  <2>3. CASE j > k
    <3>0. t[j] = f[j - 1] /\ j - 1 \in 1 .. n /\ ~ (j - 1 < k)
      BY <1>1, <1>2, <2>3
    <3>1. CASE i < k
      <4>1. t[i] = f[i] /\ i \in 1 .. n
        BY <1>1, <1>2, <3>1
      <4>2. i \in Int /\ j \in Int
        BY <1>1, <1>2
      <4>3. i < j - 1
        BY <1>1, <2>3, <3>1, <4>2
      <4> QED
        BY <3>0, <4>1, <4>3 DEF Sorted
    <3>2. CASE i = k
      <4>1. t[i] = b
        BY <1>1, <1>2, <3>2
      <4> QED
        BY <3>0, <4>1
    <3>3. CASE i > k
      <4>1. t[i] = f[i - 1] /\ i - 1 \in 1 .. n /\ i - 1 < j - 1
        BY <1>1, <1>2, <1>3, <3>3
      <4> QED
        BY <3>0, <4>1 DEF Sorted
    <3> QED
      BY <1>1, <3>1, <3>2, <3>3
  <2> QED
    BY <1>1, <2>1, <2>2, <2>3
<1> QED
  BY <1>3 DEF Sorted, t

-----------------------------------------------------------------------------
(***************************************************************************)
(* pool_alloc.                                                             *)
(***************************************************************************)
\* Block f[k] is cut: two blocks where there was one.
LEMMA CutSound ==
  ASSUME NEW p \in Pools, NEW m, NEW f, NEW u, Sound(p, m, f, u), NEW k \in 1 .. Len(f),
         NEW need \in Nat, 0 < need, need < m.heap[f[k]].size,
         NEW r \in Cells \ m.live, NEW t, t = Cut(m, f[k], need, r)
  PROVE  /\ Sound(p, t, With(f, k + 1, r), u)
         /\ Range(With(f, k + 1, r)) = Range(f) \cup {r}
         /\ With(f, k + 1, r)[k] = f[k] /\ k \in 1 .. Len(With(f, k + 1, r))
<1> DEFINE b == f[k]
           g == With(f, k + 1, r)
           S == Range(f) \cup Range(u)
<1>1. m \in MemRec /\ Holds(m, f, u)
  BY DEF Sound
<1>2. /\ f \in Seq(Cells) /\ Injective(f) /\ Range(f) \subseteq m.live
      /\ Range(u) \subseteq m.live /\ Range(f) \cap Range(u) = {}
  BY <1>1 DEF Holds, Chain
<1>3. m.heap \in Heaps /\ m.live \subseteq Cells
  BY <1>1 DEF MemRec
<1>4. Len(f) \in Nat /\ k \in Nat /\ k + 1 \in 1 .. (Len(f) + 1)
  BY <1>2, LenProperties
<1>5. /\ b \in Cells /\ b \in Range(f) /\ r \in Cells /\ r \notin Range(f)
      /\ r \notin Range(u) /\ b # r
  BY <1>2, <1>4, Place
<1>6. /\ Range(g) = Range(f) \cup {r} /\ Len(g) = Len(f) + 1
      /\ g[k] = f[k]
  BY <1>2, <1>4, <1>5, WithParts
<1> HIDE DEF b, g
<1>7. /\ t \in MemRec /\ t.live = m.live \cup {r} /\ t.pool = m.pool
      /\ Holds(t, g, u)
      /\ t.heap[b].size = need /\ t.heap[b].addr = m.heap[b].addr
      /\ t.heap[b].managed = m.heap[b].managed
      /\ t.heap[r].addr = m.heap[b].addr + need
      /\ t.heap[r].size = m.heap[b].size - need
      /\ t.heap[r].managed = FALSE
      /\ \A c \in Cells \ {b, r} : Same(t.heap[c], m.heap[c])
  <2>1. need <= m.heap[f[k]].size
    BY <1>3, <1>5, CellTypes DEF b
  <2>2. CutOff(m, t, f, u, k, need, r)
    BY <1>1, <2>1, CutLists, Zenon
  <2> QED
    BY <2>2 DEF b, g, CutOff
<1>8. m.heap[b].addr \in Nat /\ m.heap[b].size \in Nat
  BY <1>3, <1>5, CellTypes
<1>9. S \subseteq Cells
  BY <1>2, <1>3
<1>10. Laid(p, m.heap, S)
  BY DEF Sound
<1> HIDE DEF S
<1>11. Laid(p, t.heap, S \cup {r})
  <2>1. ASSUME NEW c \in S \cup {r}
        PROVE  /\ t.heap[c].size > 0 /\ PoolBase[p] <= t.heap[c].addr
               /\ t.heap[c].addr + t.heap[c].size <= PoolBase[p] + PoolTotal[p]
    <3>1. CASE c = b \/ c = r
      <4> DEFINE A == m.heap[b].addr
                 Z == m.heap[b].size
                 lo == PoolBase[p]
                 hi == PoolBase[p] + PoolTotal[p]
      <4>1. b \in S
        BY <1>5 DEF S
      <4>2. /\ lo <= A /\ lo \in Nat /\ hi \in Nat /\ A + Z <= hi
        BY <1>10, <4>1, PoolNumbers DEF Laid
      <4>3. need < Z /\ A \in Nat /\ Z \in Nat
        BY <1>8 DEF b
      <4>4. t.heap[c].addr = IF c = b THEN A ELSE A + need
        BY <1>5, <1>7, <3>1
      <4>5. t.heap[c].size = IF c = b THEN need ELSE Z - need
        BY <1>5, <1>7, <3>1
      <4> HIDE DEF A, Z, lo, hi
      <4>6. t.heap[c].size > 0 /\ lo <= t.heap[c].addr /\ t.heap[c].addr + t.heap[c].size <= hi
        BY <4>2, <4>3, <4>4, <4>5
      <4> QED
        BY <4>6 DEF lo, hi
    <3>2. CASE c # b /\ c # r
      <4>1. Same(t.heap[c], m.heap[c]) /\ c \in S
        BY <1>7, <1>9, <3>2
      <4> QED
        BY <1>10, <4>1 DEF Laid, Same
    <3> QED
      BY <3>1, <3>2
  <2>2. ASSUME NEW c \in S \ {b}
        PROVE  Apart(t.heap, b, c) /\ Apart(t.heap, c, b)
               /\ Apart(t.heap, r, c) /\ Apart(t.heap, c, r)
    <3>1. c \in Cells /\ c # r /\ b \in S
      BY <1>2, <1>3, <1>5, <1>9 DEF S
    <3>2. Same(t.heap[c], m.heap[c]) /\ m.heap[c].addr \in Nat /\ m.heap[c].size \in Nat
      BY <1>3, <1>7, <2>2, <3>1, CellTypes
    <3>3. \/ m.heap[b].addr + m.heap[b].size <= m.heap[c].addr
          \/ m.heap[c].addr + m.heap[c].size <= m.heap[b].addr
      BY <1>10, <2>2, <3>1 DEF Laid, Apart
    <3>4. need < m.heap[b].size
      BY DEF b
    <3>5. t.heap[c].addr = m.heap[c].addr /\ t.heap[c].size = m.heap[c].size
      BY <3>2 DEF Same
    <3> DEFINE A == m.heap[b].addr
               Z == m.heap[b].size
               X == m.heap[c].addr
               Y == m.heap[c].size
    <3>6. /\ t.heap[c].addr = X /\ t.heap[c].size = Y /\ t.heap[b].addr = A
          /\ t.heap[b].size = need /\ t.heap[r].addr = A + need
          /\ t.heap[r].size = Z - need /\ A \in Nat /\ Z \in Nat /\ X \in Nat /\ Y \in Nat
          /\ need < Z /\ (A + Z <= X \/ X + Y <= A)
      BY <1>7, <1>8, <3>2, <3>3, <3>4, <3>5
    <3> HIDE DEF A, Z, X, Y
    <3>7. /\ A + need <= X \/ X + Y <= A
          /\ (A + need) + (Z - need) <= X \/ X + Y <= A + need
      BY <3>6
    <3> QED
      BY <3>6, <3>7 DEF Apart
  <2>3. Apart(t.heap, b, r) /\ Apart(t.heap, r, b)
    BY <1>7, <1>8 DEF Apart
  <2>4. ASSUME NEW c \in S \ {b}, NEW d \in S \ {b}, c # d PROVE Apart(t.heap, c, d)
    <3>1. c \in Cells \ {b, r} /\ d \in Cells \ {b, r}
      BY <1>2, <1>3, <1>5, <1>9 DEF S
    <3>2. Same(t.heap[c], m.heap[c]) /\ Same(t.heap[d], m.heap[d])
      BY <1>7, <3>1
    <3> QED
      BY <1>10, <2>4, <3>2 DEF Laid, Apart, Same
  <2>5. ASSUME NEW c \in S \cup {r}, NEW d \in S \cup {r}, c # d PROVE Apart(t.heap, c, d)
    BY <2>2, <2>3, <2>4, <2>5
  <2> QED
    BY <2>1, <2>5 DEF Laid
<1>12. Sorted(t.heap, g)
  <2>1. ASSUME NEW i \in 1 .. Len(f)
        PROVE  /\ t.heap[f[i]].addr = m.heap[f[i]].addr
               /\ IF i < k + 1 THEN m.heap[f[i]].addr < t.heap[r].addr
                               ELSE t.heap[r].addr < m.heap[f[i]].addr
    <3>1. f[i] \in Cells /\ f[i] \in Range(f) /\ f[i] # r /\ i \in Nat
          /\ (f[i] = b <=> i = k)
      BY <1>2, <1>4, <1>5, Place DEF b, Injective
    <3>2. t.heap[f[i]].addr = m.heap[f[i]].addr
      BY <1>7, <3>1 DEF Same
    <3>3. m.heap[f[i]].addr \in Nat /\ m.heap[f[i]].size \in Nat
      BY <1>3, <3>1, CellTypes
    <3>4. CASE i = k
      BY <1>4, <1>7, <1>8, <3>1, <3>2, <3>4 DEF b
    <3>5. CASE i < k
      <4>1. m.heap[f[i]].addr < m.heap[b].addr
        BY <3>5 DEF Sound, Sorted, b
      <4>2. i < k + 1
        BY <1>4, <3>1, <3>5
      <4>3. t.heap[r].addr = m.heap[b].addr + need
        BY <1>7
      <4>4. m.heap[f[i]].addr < m.heap[b].addr + need
        BY <1>8, <3>3, <4>1
      <4> QED
        BY <3>2, <4>2, <4>3, <4>4
    <3>6. CASE i > k
      <4>1. m.heap[b].addr < m.heap[f[i]].addr
        BY <3>6 DEF Sound, Sorted, b
      <4>2. ~ (i < k + 1) /\ f[i] # b
        BY <1>4, <3>1, <3>6
      <4>3. /\ Apart(m.heap, b, f[i]) /\ m.heap[f[i]].size > 0
        BY <1>5, <1>10, <3>1, <4>2 DEF Laid, S
      <4>4. m.heap[b].addr + m.heap[b].size <= m.heap[f[i]].addr
        BY <1>8, <3>3, <4>1, <4>3 DEF Apart
      <4>5. need < m.heap[b].size
        BY DEF b
      <4>6. t.heap[r].addr < m.heap[f[i]].addr
        <5> DEFINE A == m.heap[b].addr
                   Z == m.heap[b].size
                   X == m.heap[f[i]].addr
        <5>1. /\ t.heap[r].addr = A + need /\ A + Z <= X /\ need < Z
              /\ A \in Nat /\ Z \in Nat /\ X \in Nat
          BY <1>7, <1>8, <3>3, <4>4, <4>5
        <5> HIDE DEF A, Z, X
        <5>2. A + need < X
          BY <5>1
        <5> QED
          BY <5>1, <5>2 DEF X
      <4> QED
        BY <3>2, <4>2, <4>6
    <3> QED
      BY <1>4, <3>1, <3>4, <3>5, <3>6
  <2>2. Sorted(m.heap, f)
    BY DEF Sound
  <2> QED
    BY <1>2, <1>4, <1>5, <2>1, <2>2, SortedWith DEF g
<1>13. Tame(p, t.heap, S \cup {r})
  <2>1. ASSUME p # "managed", NEW c \in S \cup {r} PROVE t.heap[c].managed = FALSE
    <3>1. CASE c = r
      BY <1>7, <3>1
    <3>2. CASE c # r
      <4>1. m.heap[c].managed = FALSE /\ c \in Cells
        BY <1>9, <2>1, <3>2 DEF Sound, Tame, S
      <4> QED
        BY <1>7, <3>2, <4>1 DEF Same
    <3> QED
      BY <3>1, <3>2
  <2> QED
    BY <2>1 DEF Tame
<1>14. Range(g) \cup Range(u) = S \cup {r}
  BY <1>6 DEF S
<1>15. Sound(p, t, g, u)
  BY <1>7, <1>11, <1>12, <1>13, <1>14 DEF Sound
<1>16. k \in 1 .. Len(g)
  BY <1>4, <1>6
<1> QED
  BY <1>6, <1>15, <1>16 DEF g

\* Block f[k] is taken.
LEMMA TakeSound ==
  ASSUME NEW p \in Pools, NEW m, NEW f, NEW u, Sound(p, m, f, u), NEW k \in 1 .. Len(f),
         NEW need \in Nat, NEW t, t = Take(m, f[k], need)
  PROVE  /\ Sound(p, t, Without(f, k), With(u, 1, f[k]))
         /\ Range(Without(f, k)) = Range(f) \ {f[k]}
         /\ Range(With(u, 1, f[k])) = Range(u) \cup {f[k]}
         /\ f[k] \in Range(f) /\ f[k] \notin Range(u)
<1> DEFINE b == f[k]
           S == Range(f) \cup Range(u)
<1>1. m \in MemRec /\ Holds(m, f, u)
  BY DEF Sound
<1>2. /\ f \in Seq(Cells) /\ Injective(f) /\ Range(f) \subseteq m.live
      /\ u \in Seq(Cells) /\ Injective(u)
      /\ Range(u) \subseteq m.live /\ Range(f) \cap Range(u) = {}
  BY <1>1 DEF Holds, Chain
<1>3. m.heap \in Heaps /\ m.live \subseteq Cells /\ m.pool.used_size \in Nat
  BY <1>1 DEF MemRec, PoolRec
<1>4. /\ t \in MemRec /\ t.live = m.live
      /\ t.pool.used_size = (m.pool.used_size + need) % Width
      /\ Holds(t, Without(f, k), With(u, 1, f[k]))
      /\ \A c \in Cells : Same(t.heap[c], m.heap[c])
  <2>1. Taken(m, t, f, u, k, need)
    BY <1>1, TakeLists, Zenon
  <2> QED
    BY <2>1 DEF Taken
<1>5. b \in Cells /\ b \in Range(f) /\ b \notin Range(u) /\ Len(u) \in Nat
      /\ 1 \in 1 .. (Len(u) + 1)
  BY <1>2, Place
<1>6. Range(Without(f, k)) = Range(f) \ {b}
  BY <1>2, WithoutParts
<1>7. Range(With(u, 1, b)) = Range(u) \cup {b}
  BY <1>2, <1>5, WithParts
<1>8. Range(Without(f, k)) \cup Range(With(u, 1, b)) = S
  BY <1>5, <1>6, <1>7
<1>9. S \subseteq Cells
  BY <1>2, <1>3
<1> HIDE DEF b
<1>10. Laid(p, t.heap, S)
  <2>1. Laid(p, m.heap, S)
    BY DEF Sound
  <2> HIDE DEF S
  <2> QED
    BY <1>4, <1>9, <2>1, LaidSame
<1>11. Tame(p, t.heap, S)
  <2>1. Tame(p, m.heap, S)
    BY DEF Sound
  <2>2. \A c \in S : t.heap[c].managed = m.heap[c].managed
    BY <1>4, <1>9 DEF Same
  <2> HIDE DEF S
  <2> QED
    BY <2>1, <2>2, TameSame
<1>12. Sorted(t.heap, Without(f, k))
  <2>1. Sorted(m.heap, f)
    BY DEF Sound
  <2>2. \A i \in 1 .. Len(f) : t.heap[f[i]].addr = m.heap[f[i]].addr
    BY <1>2, <1>4, Place DEF Same
  <2> QED
    BY <1>2, <2>1, <2>2, SortedWithout
<1>13. t.pool.used_size \in 0 .. (Width - 1)
  <2>1. m.pool.used_size + need \in Int /\ Width \in Nat \ {0}
    BY <1>3, PoolNumbers
  <2> QED
    BY <1>4, <2>1
<1> HIDE DEF S
<1> QED
  BY <1>4, <1>5, <1>6, <1>7, <1>8, <1>10, <1>11, <1>12, <1>13 DEF Sound, b

LEMMA LowestIn ==
  ASSUME NEW T, T \subseteq Nat, T # {}
  PROVE  Lowest(T) \in T
<1>1. \E x \in T : \A y \in T : x <= y
  BY LeastNatural
<1> QED
  BY <1>1 DEF Lowest

LEMMA AlignNumber ==
  ASSUME NEW p \in Pools, NEW n \in Nat
  PROVE  AlignUp(p, n) \in Nat
<1>1. PoolPage[p] \in Nat \ {0} /\ Width \in Nat \ {0}
  BY PoolNumbers
<1> DEFINE x == (n + PoolPage[p] - 1) % Width
<1>2. x \in Nat
  BY <1>1
<1> HIDE DEF x
<1>3. x % PoolPage[p] \in Nat /\ x % PoolPage[p] <= x
  BY <1>1, <1>2
<1>4. x - (x % PoolPage[p]) \in Nat
  BY <1>2, <1>3
<1> QED
  BY <1>4 DEF AlignUp, x

\* The search of pool_alloc stops at the first free block that is big enough.
LEMMA FitPlace ==
  ASSUME NEW p \in Pools, NEW f, NEW u, Sound(p, Memory(p), f, u), NEW n \in Sizes,
         NEW b, b = Fit(p, n), b # Null
  PROVE  \E k \in 1 .. Len(f) :
           /\ b = f[k] /\ AlignUp(p, n) >= n /\ heap[b].size >= AlignUp(p, n)
           /\ \A i \in 1 .. Len(f) : i < k => heap[f[i]].size < AlignUp(p, n)
<1> DEFINE m    == Memory(p)
           need == AlignUp(p, n)
           I    == {i \in 1 .. Len(f) : heap[f[i]].size >= need}
           k    == IF I # {} THEN Min(I) ELSE 0
<1>1. m.heap = heap /\ m.pool = pool[p]
  BY DEF Memory
<1>2. Holds(m, f, u) /\ m.heap \in Heaps
  BY DEF Sound, MemRec
<1>3. /\ f \in Seq(Cells) /\ Injective(f) /\ Chain(m.heap, m.pool.free_list, f)
  BY <1>2 DEF Holds, Chain
<1>4. FreeList(m) = f
  BY <1>2, <1>3, ListOfChain DEF FreeList
<1>5. n \in Nat /\ need \in Nat /\ Len(f) \in Nat
      /\ \A i \in 1 .. Len(f) : f[i] \in Cells /\ heap[f[i]].size \in Nat
  <2>1. n \in Nat
    BY ManagerAssumption DEF ManagerAssumption
  <2>2. need \in Nat
    BY <2>1, AlignNumber
  <2> HIDE DEF need
  <2>3. Len(f) \in Nat /\ \A i \in 1 .. Len(f) : f[i] \in Cells
    BY <1>3, Place
  <2> QED
    BY <1>1, <1>2, <2>1, <2>2, <2>3, CellTypes
<1>6. ~ (need < n)
  BY DEF Fit
<1>7. b = IF k = 0 THEN Null ELSE f[k]
  BY <1>4, <1>6 DEF Fit, First, SelectInSeq
<1>8. IsFirst(k, I)
  <2>1. I \subseteq Nat
    OBVIOUS
  <2> HIDE DEF I
  <2> QED
    BY <2>1, FirstIndex
<1> HIDE DEF k, need, m
<1>9. k \in I /\ \A i \in I : k <= i
  BY <1>7, <1>8 DEF IsFirst
<1>10. k \in 1 .. Len(f) /\ b = f[k] /\ heap[b].size >= need
  BY <1>5, <1>7, <1>9
<1>11. ASSUME NEW i \in 1 .. Len(f), i < k PROVE heap[f[i]].size < need
  <2>1. i \notin I
    BY <1>5, <1>9, <1>10, <1>11
  <2> QED
    BY <1>5, <2>1
<1>12. need >= n
  BY <1>5, <1>6
<1> HIDE DEF I
<1> QED
  BY <1>10, <1>11, <1>12 DEF need

\* What pool_alloc makes of the memory m when it grants block b: the whole
\* block, or need bytes of it and the rest in cell r; g is the free list then.
Whole(m, t, f, b, g) ==
  /\ Range(g) = Range(f) \ {b} /\ t.live = m.live
  /\ \A c \in Cells : Same(t.heap[c], m.heap[c])
Split(m, t, f, b, g, r, need) ==
  /\ Range(g) = (Range(f) \ {b}) \cup {r} /\ t.live = m.live \cup {r}
  /\ t.heap[b].size = need /\ t.heap[b].addr = m.heap[b].addr
  /\ t.heap[r].addr = m.heap[b].addr + need
  /\ t.heap[r].size = m.heap[b].size - need
  /\ \A c \in Cells \ {b, r} : Same(t.heap[c], m.heap[c])

\* v is the used list then.
Allocated(p, m, t, f, u, b, g, v, n) ==
  /\ Sound(p, t, g, v) /\ Range(v) = Range(u) \cup {b}
  /\ t.pool.used_size = (m.pool.used_size + AlignUp(p, n)) % Width
  /\ Only(t.heap, m.heap, Range(f) \cup Range(u) \cup (Cells \ m.live))
  /\ \/ /\ m.heap[b].size > AlignUp(p, n) + PoolPage[p]
        /\ \E r \in Cells \ m.live : Split(m, t, f, b, g, r, AlignUp(p, n))
     \/ /\ m.heap[b].size > AlignUp(p, n) + PoolPage[p] /\ Cells \ m.live # {} => CallocFails
        /\ Whole(m, t, f, b, g)

LEMMA PoolAllocSound ==
  ASSUME NEW p \in Pools, NEW f, NEW u, Sound(p, Memory(p), f, u), NEW n \in Sizes,
         NEW b, b = Fit(p, n), b # Null, NEW t \in PoolAlloc(p, b, n)
  PROVE  /\ b \in Range(f) /\ b \notin Range(u) /\ b \in Cells
         /\ \E g, v : v = With(u, 1, b) /\ Allocated(p, Memory(p), t, f, u, b, g, v, n)
<1> DEFINE m     == Memory(p)
           need  == AlignUp(p, n)
           spare == Cells \ live
           v     == With(u, 1, b)
<1>1. m.heap = heap /\ m.pool = pool[p] /\ m.live = live
  BY DEF Memory
<1>2. PICK k \in 1 .. Len(f) : b = f[k] /\ need >= n /\ heap[b].size >= need
  BY FitPlace
<1>3. Sound(p, m, f, u)
  OBVIOUS
<1>4. /\ m.heap \in Heaps /\ m.live \subseteq Cells /\ f \in Seq(Cells) /\ Injective(f)
      /\ Range(f) \cap Range(u) = {} /\ Range(f) \subseteq m.live
      /\ Range(u) \subseteq m.live
  BY DEF Sound, MemRec, Holds, Chain
<1>5. b \in Range(f) /\ b \notin Range(u) /\ b \in Cells
  BY <1>2, <1>4, Place
<1>6. n \in Nat /\ n > 0 /\ need \in Nat /\ need > 0 /\ PoolPage[p] \in Nat \ {0}
      /\ heap[b].size \in Nat
  <2>1. n \in Nat /\ n > 0
    BY ManagerAssumption DEF ManagerAssumption
  <2>2. need \in Nat /\ PoolPage[p] \in Nat \ {0}
    BY <2>1, AlignNumber, PoolNumbers
  <2>3. heap[b].size \in Nat
    BY <1>1, <1>4, <1>5, CellTypes
  <2> HIDE DEF need
  <2> QED
    BY <1>2, <2>1, <2>2, <2>3
<1> HIDE DEF m, need
<1>7. CASE t = Take(m, b, need)
           /\ (heap[b].size > need + PoolPage[p] /\ spare # {} => CallocFails)
  <2> DEFINE g == Without(f, k)
  <2>1. /\ Sound(p, t, g, v) /\ Range(g) = Range(f) \ {b} /\ Range(v) = Range(u) \cup {b}
    BY <1>2, <1>3, <1>6, <1>7, TakeSound
  <2>2. Taken(m, t, f, u, k, need)
    BY <1>2, <1>3, <1>6, <1>7, TakeLists DEF Sound
  <2> HIDE DEF v, g
  <2>3. /\ t.live = m.live /\ t.pool.used_size = (m.pool.used_size + need) % Width
        /\ \A c \in Cells : Same(t.heap[c], m.heap[c])
        /\ Only(t.heap, m.heap, Range(f) \cup Range(u))
    BY <2>2 DEF Taken
  <2>4. Only(t.heap, m.heap, Range(f) \cup Range(u) \cup (Cells \ m.live))
    BY <2>3 DEF Only
  <2>5. Whole(m, t, f, b, g)
    BY <2>1, <2>3 DEF Whole
  <2>6. Allocated(p, m, t, f, u, b, g, v, n)
    BY <1>1, <1>7, <2>1, <2>3, <2>4, <2>5 DEF Allocated, need
  <2> QED
    BY <1>5, <2>6 DEF m, v
<1>8. CASE /\ heap[b].size > need + PoolPage[p] /\ spare # {}
           /\ t = Take(Cut(m, b, need, Lowest(spare)), b, need)
  <2> DEFINE r == Lowest(spare)
             s == Cut(m, b, need, r)
             h == With(f, k + 1, r)
             g == Without(h, k)
  <2>1. r \in Cells \ m.live /\ r # b /\ r \notin Range(f) /\ r \notin Range(u)
    <3>1. spare \subseteq Nat
      BY ManagerAssumption DEF ManagerAssumption
    <3>2. r \in spare
      BY <1>8, <3>1, LowestIn
    <3> HIDE DEF r
    <3> QED
      BY <1>1, <1>4, <1>5, <3>2
  <2>2. need < m.heap[f[k]].size /\ need <= m.heap[f[k]].size
    BY <1>1, <1>2, <1>6, <1>8
  <2> HIDE DEF r
  <2>3. /\ Sound(p, s, h, u) /\ Range(h) = Range(f) \cup {r} /\ h[k] = b
        /\ k \in 1 .. Len(h)
    BY <1>2, <1>3, <1>6, <2>1, <2>2, CutSound
  <2>4. CutOff(m, s, f, u, k, need, r)
    <3>1. m \in MemRec /\ Holds(m, f, u)
      BY <1>3 DEF Sound
    <3>2. s = Cut(m, f[k], need, r)
      BY <1>2
    <3> HIDE DEF s
    <3> QED
      BY <1>6, <2>1, <2>2, <3>1, <3>2, CutLists, Zenon
  <2> HIDE DEF s, h
  <2>5. t = Take(s, h[k], need)
    BY <1>8, <2>3 DEF s, r
  <2>6. /\ Sound(p, t, g, v) /\ Range(g) = Range(h) \ {b} /\ Range(v) = Range(u) \cup {b}
    BY <1>6, <2>3, <2>5, TakeSound
  <2>7. Taken(s, t, h, u, k, need)
    <3>1. s \in MemRec /\ Holds(s, h, u)
      BY <2>3 DEF Sound
    <3> QED
      BY <1>6, <2>3, <2>5, <3>1, TakeLists, Zenon
  <2> HIDE DEF g, v
  <2>8. /\ t.live = m.live \cup {r}
        /\ t.pool.used_size = (m.pool.used_size + need) % Width
        /\ \A c \in Cells : Same(t.heap[c], s.heap[c])
        /\ Only(t.heap, s.heap, Range(h) \cup Range(u))
        /\ s.heap[b].size = need /\ s.heap[b].addr = m.heap[b].addr
        /\ s.heap[r].addr = m.heap[b].addr + need
        /\ s.heap[r].size = m.heap[b].size - need
        /\ \A c \in Cells \ {b, r} : Same(s.heap[c], m.heap[c])
        /\ Only(s.heap, m.heap, Range(f) \cup {r})
    BY <1>2, <2>4, <2>7 DEF Taken, CutOff
  <2>9. Only(t.heap, m.heap, Range(f) \cup Range(u) \cup (Cells \ m.live))
    BY <2>1, <2>3, <2>8 DEF Only
  <2>10. Range(g) = (Range(f) \ {b}) \cup {r}
    BY <2>1, <2>3, <2>6
  <2>11. \A c \in Cells \ {b, r} : Same(t.heap[c], m.heap[c])
    BY <2>8 DEF Same
  <2>12. /\ t.heap[b].size = need /\ t.heap[b].addr = m.heap[b].addr
         /\ t.heap[r].addr = m.heap[b].addr + need
         /\ t.heap[r].size = m.heap[b].size - need
    BY <1>5, <2>1, <2>8 DEF Same
  <2>13. Split(m, t, f, b, g, r, need)
    BY <2>8, <2>10, <2>11, <2>12 DEF Split
  <2>14. Allocated(p, m, t, f, u, b, g, v, n)
    BY <1>1, <1>8, <2>1, <2>6, <2>8, <2>9, <2>13 DEF Allocated, need
  <2> QED
    BY <1>5, <2>14 DEF m, v
<1>9. \/ /\ heap[b].size > need + PoolPage[p] /\ spare # {}
         /\ t = Take(Cut(m, b, need, Lowest(spare)), b, need)
      \/ t = Take(m, b, need)
         /\ (heap[b].size > need + PoolPage[p] /\ spare # {} => CallocFails)
  BY DEF PoolAlloc, m, need
<1> QED
  BY <1>7, <1>8, <1>9

-----------------------------------------------------------------------------
(***************************************************************************)
(* pool_free.                                                              *)
(***************************************************************************)
LEMMA PlaceInOrder ==
  ASSUME NEW p \in Pools, NEW m, NEW f, NEW u, Sound(p, m, f, u), NEW b \in Range(u),
         NEW j \in 1 .. (Len(f) + 1),
         \A i \in 1 .. Len(f) : i < j => m.heap[f[i]].addr < m.heap[b].addr,
         j \in 1 .. Len(f) => m.heap[f[j]].addr >= m.heap[b].addr,
         NEW i \in 1 .. Len(f)
  PROVE  /\ i < j => m.heap[f[i]].addr + m.heap[f[i]].size <= m.heap[b].addr
         /\ ~ (i < j) => m.heap[b].addr + m.heap[b].size <= m.heap[f[i]].addr
         /\ m.heap[f[i]].size > 0 /\ m.heap[b].size > 0
         /\ m.heap[f[i]].size \in Nat /\ m.heap[b].size \in Nat
         /\ m.heap[f[i]].addr \in Nat /\ m.heap[b].addr \in Nat
<1>1. /\ m.heap \in Heaps /\ m.live \subseteq Cells /\ f \in Seq(Cells) /\ Injective(f)
      /\ Range(f) \cap Range(u) = {} /\ Range(u) \subseteq m.live
      /\ Laid(p, m.heap, Range(f) \cup Range(u)) /\ Sorted(m.heap, f)
  BY DEF Sound, MemRec, Holds, Chain
<1>2. /\ f[i] \in Cells /\ f[i] \in Range(f) /\ b \in Cells /\ f[i] # b
      /\ Len(f) \in Nat /\ j \in Nat
  BY <1>1, Place
<1>3. Apart(m.heap, f[i], b) /\ m.heap[f[i]].size > 0 /\ m.heap[b].size > 0
  BY <1>1, <1>2 DEF Laid
<1>4. /\ m.heap[f[i]].addr \in Nat /\ m.heap[f[i]].size \in Nat
      /\ m.heap[b].addr \in Nat /\ m.heap[b].size \in Nat
  BY <1>1, <1>2, CellTypes
<1>5. CASE i < j
  <2>1. m.heap[f[i]].addr < m.heap[b].addr
    BY <1>5
  <2> QED
    BY <1>3, <1>4, <1>5, <2>1 DEF Apart
<1>6. CASE ~ (i < j)
  <2>1. j \in 1 .. Len(f) /\ (j = i \/ j < i)
    BY <1>2, <1>6
  <2>2. m.heap[f[j]].addr >= m.heap[b].addr
    BY <2>1
  <2>3. j < i => m.heap[f[j]].addr < m.heap[f[i]].addr
    BY <1>1, <2>1 DEF Sorted
  <2>4. f[j] \in Cells
    BY <1>1, <2>1, Place
  <2>5. m.heap[f[j]].addr \in Nat
    BY <1>1, <2>4, CellTypes
  <2>6. m.heap[f[i]].addr >= m.heap[b].addr
    BY <1>4, <2>1, <2>2, <2>3, <2>5
  <2> QED
    BY <1>3, <1>4, <1>6, <2>6 DEF Apart
<1> QED
  BY <1>3, <1>4, <1>5, <1>6

\* Block b is put back: until its merges, the pool is sound.
LEMMA ReturnSound ==
  ASSUME NEW p \in Pools, NEW m, NEW f, NEW u, Sound(p, m, f, u), NEW k \in 1 .. Len(u),
         NEW t, t = Returned(m, u[k]), NEW j \in 1 .. (Len(f) + 1),
         Following(m, u[k]) = At(f, j),
         \A i \in 1 .. Len(f) : i < j => m.heap[f[i]].addr < m.heap[u[k]].addr,
         j \in 1 .. Len(f) => m.heap[f[j]].addr >= m.heap[u[k]].addr
  PROVE  /\ Sound(p, t, With(f, j, u[k]), Without(u, k))
         /\ Range(With(f, j, u[k])) = Range(f) \cup {u[k]}
         /\ Range(Without(u, k)) = Range(u) \ {u[k]}
<1> DEFINE b == u[k]
           S == Range(f) \cup Range(u)
           g == With(f, j, b)
           v == Without(u, k)
<1>1. m \in MemRec /\ Holds(m, f, u)
  BY DEF Sound
<1>2. /\ f \in Seq(Cells) /\ Injective(f) /\ Range(f) \subseteq m.live
      /\ u \in Seq(Cells) /\ Injective(u)
      /\ Range(u) \subseteq m.live /\ Range(f) \cap Range(u) = {}
      /\ m.heap \in Heaps /\ m.live \subseteq Cells /\ m.pool.used_size \in Nat
  BY <1>1 DEF Holds, Chain, MemRec, PoolRec
<1>3. b \in Cells /\ b \in Range(u) /\ b \notin Range(f)
  BY <1>2, Place
<1>4. GivenBack(m, t, f, u, k, j)
  BY <1>1, ReturnLists, Zenon
<1>5. /\ t \in MemRec /\ t.live = m.live /\ Holds(t, g, v)
      /\ t.pool.used_size = (m.pool.used_size - m.heap[b].size) % Width
      /\ \A c \in Cells : Same(t.heap[c], m.heap[c])
  BY <1>4 DEF GivenBack
<1>6. Range(g) = Range(f) \cup {b}
  BY <1>2, <1>3, WithParts
<1>7. Range(v) = Range(u) \ {b}
  BY <1>2, WithoutParts
<1>8. Range(g) \cup Range(v) = S /\ S \subseteq Cells
  BY <1>2, <1>3, <1>6, <1>7
<1> HIDE DEF b, v
<1>9. Laid(p, t.heap, S)
  <2>1. Laid(p, m.heap, S)
    BY DEF Sound
  <2> HIDE DEF S
  <2> QED
    BY <1>5, <1>8, <2>1, LaidSame
<1>10. Tame(p, t.heap, S)
  <2>1. Tame(p, m.heap, S)
    BY DEF Sound
  <2>2. \A c \in S : t.heap[c].managed = m.heap[c].managed
    BY <1>5, <1>8 DEF Same
  <2> HIDE DEF S
  <2> QED
    BY <2>1, <2>2, TameSame
<1>11. Sorted(t.heap, g)
  <2>1. Sorted(m.heap, f)
    BY DEF Sound
  <2>2. ASSUME NEW i \in 1 .. Len(f)
        PROVE  /\ t.heap[f[i]].addr = m.heap[f[i]].addr
               /\ IF i < j THEN m.heap[f[i]].addr < t.heap[b].addr
                           ELSE t.heap[b].addr < m.heap[f[i]].addr
    <3>1. f[i] \in Cells
      BY <1>2, Place
    <3>2. t.heap[f[i]].addr = m.heap[f[i]].addr /\ t.heap[b].addr = m.heap[b].addr
      BY <1>3, <1>5, <3>1 DEF Same
    <3>3. /\ i < j => m.heap[f[i]].addr + m.heap[f[i]].size <= m.heap[b].addr
          /\ ~ (i < j) => m.heap[b].addr + m.heap[b].size <= m.heap[f[i]].addr
          /\ m.heap[f[i]].size > 0 /\ m.heap[b].size > 0
          /\ m.heap[f[i]].size \in Nat /\ m.heap[b].size \in Nat
          /\ m.heap[f[i]].addr \in Nat /\ m.heap[b].addr \in Nat
      BY <1>3, PlaceInOrder DEF b
    <3> DEFINE A == m.heap[b].addr
               Z == m.heap[b].size
               X == m.heap[f[i]].addr
               Y == m.heap[f[i]].size
    <3>4. i < j => X + Y <= A
      BY <3>3
    <3>5. ~ (i < j) => A + Z <= X
      BY <3>3
    <3>6. A \in Nat /\ Z \in Nat /\ X \in Nat /\ Y \in Nat /\ Y > 0 /\ Z > 0
      BY <3>3
    <3> HIDE DEF A, Z, X, Y
    <3>7. IF i < j THEN X < A ELSE A < X
      BY <3>4, <3>5, <3>6
    <3> QED
      BY <3>2, <3>7 DEF A, X
  <2> QED
    BY <1>2, <1>3, <2>1, <2>2, SortedWith
<1>12. t.pool.used_size \in 0 .. (Width - 1)
  <2>1. m.pool.used_size - m.heap[b].size \in Int /\ Width \in Nat \ {0}
    BY <1>2, <1>3, PoolNumbers, CellTypes
  <2> QED
    BY <1>5, <2>1
<1> HIDE DEF S, g
<1> QED
  BY <1>5, <1>6, <1>7, <1>8, <1>9, <1>10, <1>11, <1>12 DEF Sound, b, g, v

\* Place k of the free list and the next hold blocks that touch.
Meets(hp, f, k) ==
  /\ k \in 1 .. Len(f) /\ k + 1 \in 1 .. Len(f)
  /\ hp[f[k]].addr + hp[f[k]].size = hp[f[k + 1]].addr

LEMMA AbsorbSound ==
  ASSUME NEW p \in Pools, NEW m, NEW f, NEW u, Sound(p, m, f, u), NEW k,
         Meets(m.heap, f, k), NEW t, t = Absorb(m, f[k])
  PROVE  /\ Sound(p, t, Without(f, k + 1), u)
         /\ Range(Without(f, k + 1)) = Range(f) \ {f[k + 1]}
         /\ Absorbed(m, t, f, u, k)
<1> DEFINE b == f[k]
           c == f[k + 1]
           S == Range(f) \cup Range(u)
           g == Without(f, k + 1)
<1>1. m \in MemRec /\ Holds(m, f, u) /\ k \in 1 .. Len(f) /\ k + 1 \in 1 .. Len(f)
  BY DEF Sound, Meets
<1>2. /\ f \in Seq(Cells) /\ Injective(f) /\ Range(f) \subseteq m.live
      /\ Range(u) \subseteq m.live /\ Range(f) \cap Range(u) = {}
      /\ m.heap \in Heaps /\ m.live \subseteq Cells
  BY <1>1 DEF Holds, Chain, MemRec
<1>3. /\ b \in Cells /\ b \in Range(f) /\ c \in Cells /\ c \in Range(f)
      /\ b \notin Range(u) /\ c \notin Range(u) /\ k \in Nat /\ Len(f) \in Nat
  BY <1>1, <1>2, Place
<1>4. b # c
  BY <1>1, <1>2, <1>3 DEF Injective
<1>5. Absorbed(m, t, f, u, k)
  BY <1>1, AbsorbLists, Zenon
<1>6. /\ t \in MemRec /\ t.live = m.live \ {c} /\ t.pool = m.pool /\ Holds(t, g, u)
      /\ t.heap[b].size = m.heap[b].size + m.heap[c].size
      /\ t.heap[b].addr = m.heap[b].addr
      /\ t.heap[b].managed = m.heap[b].managed
      /\ \A d \in Cells \ {b, c} : Same(t.heap[d], m.heap[d])
  BY <1>5 DEF Absorbed
<1>7. Range(g) = Range(f) \ {c}
  BY <1>1, <1>2, WithoutParts
<1>8. Range(g) \cup Range(u) = S \ {c} /\ S \subseteq Cells
  BY <1>2, <1>3, <1>7
<1>9. m.heap[b].addr + m.heap[b].size = m.heap[c].addr
  BY DEF Meets
<1> HIDE DEF b, c, g
<1>10. Laid(p, m.heap, S) /\ b \in S /\ c \in S
  BY <1>3 DEF Sound
<1> HIDE DEF S
<1>11. /\ m.heap[b].addr \in Nat /\ m.heap[b].size \in Nat
       /\ m.heap[c].addr \in Nat /\ m.heap[c].size \in Nat
       /\ m.heap[b].size > 0 /\ m.heap[c].size > 0
  BY <1>2, <1>3, <1>10, CellTypes DEF Laid
<1>12. Laid(p, t.heap, S \ {c})
  <2>1. ASSUME NEW d \in S \ {c}
        PROVE  /\ t.heap[d].size > 0 /\ PoolBase[p] <= t.heap[d].addr
               /\ t.heap[d].addr + t.heap[d].size <= PoolBase[p] + PoolTotal[p]
    <3>1. CASE d = b
      <4> DEFINE hi == PoolBase[p] + PoolTotal[p]
      <4>1. PoolBase[p] <= m.heap[b].addr /\ m.heap[c].addr + m.heap[c].size <= hi
        BY <1>10 DEF Laid
      <4>2. hi \in Nat
        BY PoolNumbers
      <4> HIDE DEF hi
      <4>3. t.heap[b].addr + t.heap[b].size <= hi /\ t.heap[b].size > 0
        BY <1>6, <1>9, <1>11, <4>1, <4>2
      <4> QED
        BY <1>6, <3>1, <4>1, <4>3 DEF hi
    <3>2. CASE d # b
      <4>1. Same(t.heap[d], m.heap[d])
        BY <1>6, <1>8, <3>2
      <4> QED
        BY <1>10, <4>1 DEF Laid, Same
    <3> QED
      BY <3>1, <3>2
  <2>2. ASSUME NEW d \in S \ {b, c} PROVE Apart(t.heap, b, d) /\ Apart(t.heap, d, b)
    <3>1. /\ t.heap[d].addr = m.heap[d].addr /\ t.heap[d].size = m.heap[d].size
          /\ m.heap[d].addr \in Nat /\ m.heap[d].size \in Nat /\ m.heap[d].size > 0
      BY <1>2, <1>6, <1>8, <1>10, CellTypes DEF Same, Laid
    <3>2. Apart(m.heap, b, d) /\ Apart(m.heap, c, d)
      BY <1>10 DEF Laid
    <3> QED
      BY <1>6, <1>9, <1>11, <3>1, <3>2 DEF Apart
  <2>3. ASSUME NEW d \in S \ {b, c}, NEW e \in S \ {b, c}, d # e PROVE Apart(t.heap, d, e)
    <3>1. Same(t.heap[d], m.heap[d]) /\ Same(t.heap[e], m.heap[e])
      BY <1>6, <1>8
    <3> QED
      BY <1>10, <2>3, <3>1 DEF Laid, Apart, Same
  <2>4. ASSUME NEW d \in S \ {c}, NEW e \in S \ {c}, d # e PROVE Apart(t.heap, d, e)
    BY <2>2, <2>3, <2>4
  <2> QED
    BY <2>1, <2>4 DEF Laid
<1>13. Sorted(t.heap, g)
  <2>1. Sorted(m.heap, f)
    BY DEF Sound
  <2>2. ASSUME NEW i \in 1 .. Len(f), i # k + 1
        PROVE  t.heap[f[i]].addr = m.heap[f[i]].addr
    <3>1. f[i] \in Cells /\ f[i] # c
      BY <1>1, <1>2, <2>2, Place DEF Injective, c
    <3> QED
      BY <1>6, <3>1 DEF Same
  <2> QED
    BY <1>1, <1>2, <2>1, <2>2, SortedWithout DEF g
<1>14. Tame(p, t.heap, S \ {c})
  <2>1. ASSUME p # "managed", NEW d \in S \ {c} PROVE t.heap[d].managed = FALSE
    <3>1. m.heap[d].managed = FALSE
      BY <2>1 DEF Sound, Tame, S
    <3>2. t.heap[d].managed = m.heap[d].managed
      BY <1>6, <1>8 DEF Same
    <3> QED
      BY <3>1, <3>2
  <2> QED
    BY <2>1 DEF Tame
<1>15. m.pool.used_size \in 0 .. (Width - 1)
  BY DEF Sound
<1>16. Sound(p, t, g, u)
  BY <1>6, <1>8, <1>12, <1>13, <1>14, <1>15 DEF Sound
<1> QED
  BY <1>5, <1>7, <1>16 DEF b, c, g

LEMMA MergePlace ==
  ASSUME NEW p \in Pools, NEW m, NEW f, NEW u, Sound(p, m, f, u), NEW k \in 0 .. Len(f),
         NEW t, t = MergeNext(m, At(f, k))
  PROVE  t = IF Meets(m.heap, f, k) THEN Absorb(m, f[k]) ELSE m
<1>1. /\ f \in Seq(Cells) /\ Injective(f) /\ Len(f) \in Nat
      /\ \A c \in Range(f) : m.heap[c].allocated = FALSE
      /\ \A i \in 1 .. Len(f) : m.heap[f[i]].next = At(f, i + 1)
  BY LenProperties DEF Sound, Holds, Chain
<1>2. CASE k = 0
  BY <1>1, <1>2 DEF At, MergeNext, Meets
<1>3. CASE k \in 1 .. Len(f)
  <2>1. At(f, k) = f[k] /\ f[k] # Null /\ m.heap[f[k]].next = At(f, k + 1)
    BY <1>1, <1>3, Place DEF At
  <2>2. CASE k + 1 \in 1 .. Len(f)
    <3>1. At(f, k + 1) = f[k + 1] /\ f[k + 1] # Null /\ f[k + 1] \in Range(f)
      BY <1>1, <2>2, Place DEF At
    <3>2. m.heap[f[k + 1]].allocated = FALSE
      BY <1>1, <3>1
    <3> QED
      BY <1>3, <2>1, <2>2, <3>1, <3>2 DEF MergeNext, Touch, Meets
  <2>3. CASE k + 1 \notin 1 .. Len(f)
    BY <2>1, <2>3 DEF MergeNext, Touch, Meets, At
  <2> QED
    BY <2>2, <2>3
<1> QED
  BY <1>1, <1>2, <1>3

\* The free neighbours of block b.
Ending(m, f, b)    == {c \in Range(f) : m.heap[c].addr + m.heap[c].size = m.heap[b].addr}
Beginning(m, f, b) == {c \in Range(f) : m.heap[c].addr = m.heap[b].addr + m.heap[b].size}

\* They are at the places beside b's.
LEMMA NeighbourPlaces ==
  ASSUME NEW p \in Pools, NEW m, NEW f, NEW u, Sound(p, m, f, u), NEW b \in Range(u),
         NEW j \in 1 .. (Len(f) + 1),
         \A i \in 1 .. Len(f) : i < j => m.heap[f[i]].addr < m.heap[b].addr,
         j \in 1 .. Len(f) => m.heap[f[j]].addr >= m.heap[b].addr
  PROVE  /\ Beginning(m, f, b) =
              IF j \in 1 .. Len(f) /\ m.heap[f[j]].addr = m.heap[b].addr + m.heap[b].size
              THEN {f[j]} ELSE {}
         /\ Ending(m, f, b) =
              IF /\ j - 1 \in 1 .. Len(f)
                 /\ m.heap[f[j - 1]].addr + m.heap[f[j - 1]].size = m.heap[b].addr
              THEN {f[j - 1]} ELSE {}
<1>1. f \in Seq(Cells) /\ Injective(f) /\ Sorted(m.heap, f)
      /\ Laid(p, m.heap, Range(f) \cup Range(u))
  BY DEF Sound, Holds, Chain
<1>2. /\ Len(f) \in Nat /\ j \in Nat /\ DOMAIN f = 1 .. Len(f)
      /\ \A i \in 1 .. Len(f) : f[i] \in Range(f) /\ f[i] \in Cells
  BY <1>1, Place
<1>3. ASSUME NEW i \in 1 .. Len(f)
      PROVE  /\ i < j => m.heap[f[i]].addr + m.heap[f[i]].size <= m.heap[b].addr
             /\ ~ (i < j) => m.heap[b].addr + m.heap[b].size <= m.heap[f[i]].addr
             /\ m.heap[f[i]].size > 0 /\ m.heap[b].size > 0
             /\ m.heap[f[i]].size \in Nat /\ m.heap[b].size \in Nat
             /\ m.heap[f[i]].addr \in Nat /\ m.heap[b].addr \in Nat
  BY PlaceInOrder
<1>4. ASSUME NEW i \in 1 .. Len(f), m.heap[f[i]].addr = m.heap[b].addr + m.heap[b].size
      PROVE  i = j
  <2>1. ~ (i < j)
    BY <1>3, <1>4
  <2>2. ASSUME j < i PROVE FALSE
    <3>1. j \in 1 .. Len(f) /\ ~ (j < j)
      BY <1>2, <2>2
    <3>2. m.heap[f[j]].addr < m.heap[f[i]].addr
      BY <1>1, <2>2, <3>1 DEF Sorted
    <3>3. m.heap[b].addr + m.heap[b].size <= m.heap[f[j]].addr /\ m.heap[f[j]].addr \in Nat
      BY <1>3, <3>1
    <3> QED
      BY <1>3, <1>4, <3>2, <3>3
  <2> QED
    BY <1>2, <2>1, <2>2
<1>5. ASSUME NEW i \in 1 .. Len(f), m.heap[f[i]].addr + m.heap[f[i]].size = m.heap[b].addr
      PROVE  i = j - 1
  <2> DEFINE A == m.heap[b].addr
             Z == m.heap[b].size
             X == m.heap[f[i]].addr
             Y == m.heap[f[i]].size
  <2>0. /\ X + Y = A /\ (~ (i < j) => A + Z <= X)
        /\ A \in Nat /\ Z \in Nat /\ X \in Nat /\ Y \in Nat /\ Y > 0 /\ Z > 0
    BY <1>3, <1>5
  <2>1. i < j
    <3> HIDE DEF A, Z, X, Y
    <3> QED
      BY <2>0
  <2>2. ASSUME i < j - 1 PROVE FALSE
    <3>1. j - 1 \in 1 .. Len(f) /\ j - 1 < j
      BY <1>2, <2>2
    <3>2. m.heap[f[i]].addr < m.heap[f[j - 1]].addr
      BY <1>1, <2>2, <3>1 DEF Sorted
    <3>3. /\ m.heap[f[j - 1]].addr + m.heap[f[j - 1]].size <= m.heap[b].addr
          /\ m.heap[f[j - 1]].addr \in Nat /\ m.heap[f[j - 1]].size \in Nat
          /\ m.heap[f[j - 1]].size > 0
      BY <1>3, <3>1
    <3>4. Apart(m.heap, f[i], f[j - 1])
      <4>1. f[i] # f[j - 1]
        BY <1>1, <2>2, <3>1 DEF Injective
      <4> QED
        BY <1>1, <1>2, <3>1, <4>1 DEF Laid
    <3> DEFINE V == m.heap[f[j - 1]].addr
               W == m.heap[f[j - 1]].size
    <3>5. /\ X < V /\ V + W <= A /\ V \in Nat /\ W \in Nat /\ W > 0
          /\ X + Y <= V \/ V + W <= X
      BY <3>2, <3>3, <3>4 DEF Apart
    <3> HIDE DEF A, Z, X, Y, V, W
    <3> QED
      BY <2>0, <3>5
  <2> QED
    BY <1>2, <2>1, <2>2
<1>6. \A c \in Range(f) : \E i \in 1 .. Len(f) : c = f[i]
  BY <1>2 DEF Range
<1>7. ASSUME NEW c \in Beginning(m, f, b)
      PROVE  j \in 1 .. Len(f) /\ m.heap[f[j]].addr = m.heap[b].addr + m.heap[b].size
             /\ c = f[j]
  <2>1. PICK i \in 1 .. Len(f) : c = f[i]
    BY <1>6 DEF Beginning
  <2> QED
    BY <1>4, <2>1 DEF Beginning
<1>8. ASSUME NEW c \in Ending(m, f, b)
      PROVE  /\ j - 1 \in 1 .. Len(f) /\ c = f[j - 1]
             /\ m.heap[f[j - 1]].addr + m.heap[f[j - 1]].size = m.heap[b].addr
  <2>1. PICK i \in 1 .. Len(f) : c = f[i]
    BY <1>6 DEF Ending
  <2> QED
    BY <1>5, <2>1 DEF Ending
<1>9. j \in 1 .. Len(f) /\ m.heap[f[j]].addr = m.heap[b].addr + m.heap[b].size
        => f[j] \in Beginning(m, f, b)
  BY <1>2 DEF Beginning
<1>10. /\ j - 1 \in 1 .. Len(f)
       /\ m.heap[f[j - 1]].addr + m.heap[f[j - 1]].size = m.heap[b].addr
       => f[j - 1] \in Ending(m, f, b)
  BY <1>2 DEF Ending
<1> QED
  BY <1>7, <1>8, <1>9, <1>10

\* What pool_free makes of the memory m when it frees block b: cell a holds b
\* and the free neighbours it touches, and the other cells of these are freed.
Joined(m, t, f, b, g, a, D) ==
  /\ Range(g) = (Range(f) \cup {b}) \ D /\ a \in Range(g) /\ t.live = m.live \ D
  /\ D \cup {a} = {b} \cup Ending(m, f, b) \cup Beginning(m, f, b) /\ a \notin D
  /\ \A c \in Cells \ (D \cup {a}) : Same(t.heap[c], m.heap[c])
  /\ \/ Ending(m, f, b) = {} /\ t.heap[a].addr = m.heap[b].addr
     \/ \E x : Ending(m, f, b) = {x} /\ t.heap[a].addr = m.heap[x].addr
  /\ \/ /\ Beginning(m, f, b) = {}
        /\ t.heap[a].addr + t.heap[a].size = m.heap[b].addr + m.heap[b].size
     \/ \E x : /\ Beginning(m, f, b) = {x}
               /\ t.heap[a].addr + t.heap[a].size = m.heap[x].addr + m.heap[x].size
Freed(p, m, t, f, u, b, g, v) ==
  /\ Sound(p, t, g, v) /\ Range(v) = Range(u) \ {b}
  /\ t.pool.used_size = (m.pool.used_size - m.heap[b].size) % Width
  /\ Only(t.heap, m.heap, Range(f) \cup Range(u))
  /\ \E a \in Cells, D \in SUBSET Cells : Joined(m, t, f, b, g, a, D)

\* After the first merge.
HalfFreed(p, m, s, f, u, b, h, v, D, j) ==
  /\ Sound(p, s, h, v) /\ Range(v) = Range(u) \ {b}
  /\ s.pool.used_size = (m.pool.used_size - m.heap[b].size) % Width
  /\ Only(s.heap, m.heap, Range(f) \cup Range(u))
  /\ Range(h) = (Range(f) \cup {b}) \ D /\ s.live = m.live \ D
  /\ D = Beginning(m, f, b) /\ D \subseteq Range(f)
  /\ \A c \in Cells \ (D \cup {b}) : Same(s.heap[c], m.heap[c])
  /\ s.heap[b].addr = m.heap[b].addr
  /\ \/ D = {} /\ s.heap[b].size = m.heap[b].size
     \/ \E x : D = {x} /\ s.heap[b].size = m.heap[b].size + m.heap[x].size
  /\ j \in 1 .. Len(h) /\ h[j] = b
  /\ j - 1 \in 1 .. Len(f) => h[j - 1] = f[j - 1]

LEMMA FirstMerge ==
  ASSUME NEW p \in Pools, NEW m, NEW f, NEW u, Sound(p, m, f, u), NEW k \in 1 .. Len(u),
         NEW b, b = u[k], NEW s, s = MergeNext(Returned(m, b), b),
         NEW j \in 1 .. (Len(f) + 1), Following(m, b) = At(f, j),
         \A i \in 1 .. Len(f) : i < j => m.heap[f[i]].addr < m.heap[b].addr,
         j \in 1 .. Len(f) => m.heap[f[j]].addr >= m.heap[b].addr
  PROVE  \E h, D : HalfFreed(p, m, s, f, u, b, h, Without(u, k), D, j)
<1> DEFINE t == Returned(m, b)
           e == With(f, j, b)
           v == Without(u, k)
<1>1. m \in MemRec /\ Holds(m, f, u)
  BY DEF Sound
<1>2. /\ f \in Seq(Cells) /\ Injective(f) /\ Range(f) \subseteq m.live
      /\ u \in Seq(Cells) /\ Injective(u)
      /\ Range(u) \subseteq m.live /\ Range(f) \cap Range(u) = {}
      /\ m.heap \in Heaps /\ m.live \subseteq Cells
  BY <1>1 DEF Holds, Chain, MemRec
<1>3. /\ b \in Cells /\ b \in Range(u) /\ b \notin Range(f) /\ Len(f) \in Nat /\ j \in Nat
      /\ Range(f) \subseteq Cells
  BY <1>2, Place
<1>4. /\ Sound(p, t, e, v) /\ Range(e) = Range(f) \cup {b} /\ Range(v) = Range(u) \ {b}
  BY ReturnSound
<1>5. GivenBack(m, t, f, u, k, j)
  BY <1>1, ReturnLists, Zenon
<1>6. /\ t.live = m.live
      /\ t.pool.used_size = (m.pool.used_size - m.heap[b].size) % Width
      /\ \A c \in Cells : Same(t.heap[c], m.heap[c])
      /\ Only(t.heap, m.heap, Range(f) \cup Range(u))
  BY <1>5 DEF GivenBack
<1>7. /\ Len(e) = Len(f) + 1
      /\ \A i \in 1 .. (Len(f) + 1) :
           e[i] = IF i < j THEN f[i] ELSE IF i = j THEN b ELSE f[i - 1]
  BY <1>2, <1>3, WithParts
<1>8. /\ j \in 0 .. Len(e) /\ j \in 1 .. Len(e) /\ e[j] = b /\ At(e, j) = b
      /\ j - 1 \in 1 .. Len(f) => e[j - 1] = f[j - 1]
      /\ j + 1 \in 1 .. Len(e) <=> j \in 1 .. Len(f)
      /\ j \in 1 .. Len(f) => e[j + 1] = f[j]
  BY <1>3, <1>7 DEF At
<1> HIDE DEF t, e, v
<1>9. s = IF Meets(t.heap, e, j) THEN Absorb(t, e[j]) ELSE t
  <2>1. s = MergeNext(t, At(e, j))
    BY <1>8 DEF t
  <2> QED
    BY <1>4, <1>8, <2>1, MergePlace
<1>10. Beginning(m, f, b) = IF Meets(t.heap, e, j) THEN {f[j]} ELSE {}
  <2>1. Meets(t.heap, e, j) <=>
          /\ j \in 1 .. Len(f)
          /\ t.heap[b].addr + t.heap[b].size = t.heap[f[j]].addr
    BY <1>8 DEF Meets
  <2>2. j \in 1 .. Len(f) => t.heap[f[j]].addr = m.heap[f[j]].addr
    BY <1>2, <1>6, Place DEF Same
  <2>3. t.heap[b].addr = m.heap[b].addr /\ t.heap[b].size = m.heap[b].size
    BY <1>3, <1>6 DEF Same
  <2>4. Beginning(m, f, b) =
              IF j \in 1 .. Len(f) /\ m.heap[f[j]].addr = m.heap[b].addr + m.heap[b].size
              THEN {f[j]} ELSE {}
    <3>1. b \in Range(u)
      BY <1>3
    <3> QED
      BY <3>1, NeighbourPlaces
  <2> QED
    BY <2>1, <2>2, <2>3, <2>4
<1>11. CASE ~ Meets(t.heap, e, j)
  <2>1. s = t /\ Beginning(m, f, b) = {}
    BY <1>9, <1>10, <1>11
  <2>2. s.heap[b].addr = m.heap[b].addr /\ s.heap[b].size = m.heap[b].size
    BY <1>3, <1>6, <2>1 DEF Same
  <2>3. HalfFreed(p, m, s, f, u, b, e, v, {}, j)
    BY <1>4, <1>6, <1>8, <2>1, <2>2 DEF HalfFreed
  <2> QED
    BY <2>3 DEF v
<1>12. CASE Meets(t.heap, e, j)
  <2> DEFINE c == f[j]
             h == Without(e, j + 1)
  <2>1. /\ s = Absorb(t, e[j]) /\ Beginning(m, f, b) = {c} /\ e[j + 1] = c
        /\ j \in 1 .. Len(f) /\ j + 1 \in 1 .. Len(e)
    BY <1>8, <1>9, <1>10, <1>12 DEF Meets
  <2>2. c \in Cells /\ c \in Range(f) /\ c # b
    BY <1>2, <1>3, <2>1, Place
  <2>3. /\ Sound(p, s, h, v) /\ Range(h) = Range(e) \ {c} /\ Absorbed(t, s, e, v, j)
    <3> DEFINE i == j
    <3>1. Sound(p, t, e, v) /\ Meets(t.heap, e, i) /\ s = Absorb(t, e[i])
      BY <1>4, <1>12, <2>1
    <3> HIDE DEF i
    <3>2. Range(Without(e, i + 1)) = Range(e) \ {e[i + 1]} /\ Sound(p, s, Without(e, i + 1), v)
          /\ Absorbed(t, s, e, v, i)
      BY <3>1, AbsorbSound
    <3> QED
      BY <2>1, <3>2 DEF i
  <2>4. /\ s.live = t.live \ {c} /\ s.pool = t.pool
        /\ s.heap[b].size = t.heap[b].size + t.heap[c].size
        /\ s.heap[b].addr = t.heap[b].addr
        /\ \A d \in Cells \ {b, c} : Same(s.heap[d], t.heap[d])
        /\ Only(s.heap, t.heap, Range(e))
    BY <1>8, <2>1, <2>3 DEF Absorbed
  <2>5. /\ j \in 1 .. Len(h) /\ h[j] = b
        /\ j - 1 \in 1 .. Len(f) => h[j - 1] = f[j - 1]
    <3>1. e \in Seq(Cells) /\ Injective(e)
      BY <1>4 DEF Sound, Holds, Chain
    <3>2. /\ Len(h) = Len(e) - 1
          /\ \A i \in 1 .. (Len(e) - 1) : h[i] = e[IF i < j + 1 THEN i ELSE i + 1]
      BY <2>1, <3>1, WithoutParts
    <3> HIDE DEF h, c
    <3>3. /\ j \in 1 .. Len(h) /\ j \in 1 .. (Len(e) - 1)
          /\ j - 1 \in 1 .. Len(f) => j - 1 \in 1 .. (Len(e) - 1)
      BY <1>3, <1>7, <2>1, <3>2
    <3>4. j < j + 1 /\ j - 1 < j + 1
      BY <1>3
    <3>5. h[j] = b
      <4>1. h[j] = e[j]
        BY <3>2, <3>3, <3>4
      <4> QED
        BY <1>8, <4>1
    <3>6. ASSUME j - 1 \in 1 .. Len(f) PROVE h[j - 1] = f[j - 1]
      <4>1. j - 1 \in 1 .. (Len(e) - 1)
        BY <3>3, <3>6
      <4>2. h[j - 1] = e[j - 1]
        BY <3>2, <3>4, <4>1
      <4> QED
        BY <1>8, <3>6, <4>2
    <3> QED
      BY <3>3, <3>5, <3>6
  <2> HIDE DEF h, c
  <2>6. ASSUME NEW d \in Cells \ ({c} \cup {b}) PROVE Same(s.heap[d], m.heap[d])
    <3>1. Same(s.heap[d], t.heap[d])
      BY <2>4
    <3>2. Same(t.heap[d], m.heap[d])
      BY <1>6
    <3> QED
      BY <3>1, <3>2 DEF Same
  <2>7. s.heap[b].addr = m.heap[b].addr
        /\ s.heap[b].size = m.heap[b].size + m.heap[c].size
    BY <1>3, <1>6, <2>2, <2>4 DEF Same
  <2>8. Only(s.heap, m.heap, Range(f) \cup Range(u))
    BY <1>3, <1>4, <1>6, <2>4 DEF Only
  <2>9. HalfFreed(p, m, s, f, u, b, h, v, {c}, j)
    BY <1>4, <1>6, <2>1, <2>2, <2>3, <2>4, <2>5, <2>6, <2>7, <2>8 DEF HalfFreed
  <2> QED
    BY <2>9 DEF v
<1> QED
  BY <1>11, <1>12

LEMMA PoolFreeSound ==
  ASSUME NEW p \in Pools, NEW m, NEW f, NEW u, Sound(p, m, f, u), NEW b \in Range(u),
         NEW t, t = PoolFree(m, b)
  PROVE  \E g, v : Freed(p, m, t, f, u, b, g, v)
<1>1. m \in MemRec /\ Holds(m, f, u)
  BY DEF Sound
<1>2. /\ f \in Seq(Cells) /\ Injective(f) /\ Range(f) \subseteq m.live
      /\ u \in Seq(Cells) /\ Injective(u)
      /\ Range(u) \subseteq m.live /\ Range(f) \cap Range(u) = {}
      /\ m.heap \in Heaps /\ m.live \subseteq Cells
      /\ Chain(m.heap, m.pool.free_list, f) /\ m.heap[b].allocated = TRUE
  BY <1>1 DEF Holds, Chain, MemRec
<1>3. PICK k \in 1 .. Len(u) : b = u[k]
  BY <1>2, LenProperties DEF Range
<1>4. b \in Cells /\ b \notin Range(f) /\ Len(f) \in Nat
  BY <1>2, Place
<1>5. PICK j \in 1 .. (Len(f) + 1) :
        /\ Following(m, b) = At(f, j)
        /\ \A i \in 1 .. Len(f) : i < j => m.heap[f[i]].addr < m.heap[b].addr
        /\ j \in 1 .. Len(f) => m.heap[f[j]].addr >= m.heap[b].addr
  BY <1>1, <1>4, FollowingPlace
<1> DEFINE s    == MergeNext(Returned(m, b), b)
           prev == At(f, j - 1)
           v    == Without(u, k)
<1>6. t = MergeNext(s, prev)
  <2>1. FreeList(m) = f
    BY <1>2, ListOfChain DEF FreeList
  <2>2. Previous(FreeList(m), Following(m, b)) = prev
    BY <1>2, <1>5, <2>1, PreviousPlace
  <2> QED
    BY <1>2, <2>2, PoolFreeParts
<1>7. PICK h, D : HalfFreed(p, m, s, f, u, b, h, v, D, j)
  BY <1>3, <1>5, FirstMerge
<1> HIDE DEF s, v
<1>8. /\ Sound(p, s, h, v) /\ Range(v) = Range(u) \ {b}
      /\ s.pool.used_size = (m.pool.used_size - m.heap[b].size) % Width
      /\ Only(s.heap, m.heap, Range(f) \cup Range(u))
      /\ Range(h) = (Range(f) \cup {b}) \ D /\ s.live = m.live \ D
      /\ D = Beginning(m, f, b) /\ D \subseteq Range(f) /\ D \subseteq Cells
      /\ \A c \in Cells \ (D \cup {b}) : Same(s.heap[c], m.heap[c])
      /\ s.heap[b].addr = m.heap[b].addr
      /\ j \in 1 .. Len(h) /\ h[j] = b
      /\ j - 1 \in 1 .. Len(f) => h[j - 1] = f[j - 1]
  BY <1>2, <1>7 DEF HalfFreed
<1>9. \/ D = {} /\ s.heap[b].size = m.heap[b].size
      \/ \E x : D = {x} /\ s.heap[b].size = m.heap[b].size + m.heap[x].size
  BY <1>7 DEF HalfFreed
<1>10. h \in Seq(Cells) /\ Injective(h) /\ Len(h) \in Nat /\ j \in Nat
  <2>1. Sound(p, s, h, v)
    BY <1>8
  <2>2. h \in Seq(Cells) /\ Injective(h)
    BY <2>1 DEF Sound, Holds, Chain
  <2> QED
    BY <1>8, <2>2, LenProperties
<1>11. j - 1 \in 0 .. Len(h) /\ At(h, j - 1) = prev
       /\ (j - 1 \in 1 .. Len(h) <=> j - 1 \in 1 .. Len(f))
  <2>1. j - 1 \in 0 .. Len(h) /\ (j - 1 \in 1 .. Len(h) <=> j - 1 \in 1 .. Len(f))
    BY <1>4, <1>8, <1>10
  <2> QED
    BY <1>8, <2>1 DEF At
<1>12. t = IF Meets(s.heap, h, j - 1) THEN Absorb(s, h[j - 1]) ELSE s
  BY <1>6, <1>8, <1>11, MergePlace
\* The end of b and what it absorbed.
<1>13. \/ D = {} /\ s.heap[b].addr + s.heap[b].size = m.heap[b].addr + m.heap[b].size
       \/ \E x : /\ D = {x}
                 /\ s.heap[b].addr + s.heap[b].size = m.heap[x].addr + m.heap[x].size
  <2>1. CASE D = {}
    BY <1>8, <1>9, <2>1
  <2>2. ASSUME NEW x, D = {x}, s.heap[b].size = m.heap[b].size + m.heap[x].size
        PROVE  s.heap[b].addr + s.heap[b].size = m.heap[x].addr + m.heap[x].size
    <3>1. x \in Cells /\ m.heap[x].addr = m.heap[b].addr + m.heap[b].size
      BY <1>8, <2>2 DEF Beginning
    <3>2. m.heap[b].addr \in Nat /\ m.heap[b].size \in Nat /\ m.heap[x].size \in Nat
      BY <1>2, <1>4, <3>1, CellTypes
    <3>3. s.heap[b].addr = m.heap[b].addr /\ s.heap[b].size = m.heap[b].size + m.heap[x].size
      BY <1>8, <2>2
    <3> QED
      BY <3>1, <3>2, <3>3
  <2> QED
    BY <1>9, <2>1, <2>2
<1>14. Ending(m, f, b) = IF Meets(s.heap, h, j - 1) THEN {f[j - 1]} ELSE {}
  <2>1. Ending(m, f, b) =
              IF /\ j - 1 \in 1 .. Len(f)
                 /\ m.heap[f[j - 1]].addr + m.heap[f[j - 1]].size = m.heap[b].addr
              THEN {f[j - 1]} ELSE {}
    BY <1>5, NeighbourPlaces
  <2>2. Meets(s.heap, h, j - 1) <=>
          /\ j - 1 \in 1 .. Len(f)
          /\ s.heap[f[j - 1]].addr + s.heap[f[j - 1]].size = m.heap[b].addr
    <3>1. j - 1 + 1 = j
      BY <1>10
    <3> QED
      BY <1>8, <1>11, <3>1 DEF Meets
  <2>3. ASSUME j - 1 \in 1 .. Len(f)
        PROVE  /\ s.heap[f[j - 1]].addr = m.heap[f[j - 1]].addr
               /\ s.heap[f[j - 1]].size = m.heap[f[j - 1]].size
    <3>1. f[j - 1] = h[j - 1] /\ h[j - 1] \in Range(h)
      BY <1>8, <1>10, <1>11, <2>3, Place
    <3>2. f[j - 1] \in Range(f) /\ f[j - 1] \in Cells
      BY <1>2, <2>3, Place
    <3>3. f[j - 1] \notin D \cup {b}
      BY <1>4, <1>8, <3>1, <3>2
    <3> QED
      BY <1>8, <3>2, <3>3 DEF Same
  <2> QED
    BY <2>1, <2>2, <2>3
<1>15. CASE ~ Meets(s.heap, h, j - 1)
  <2>1. t = s /\ Ending(m, f, b) = {}
    BY <1>12, <1>14, <1>15
  <2>2. b \notin D /\ b \in Range(h) /\ D \cup {b} = {b} \cup {} \cup D
    BY <1>4, <1>8
  <2>3. Joined(m, t, f, b, h, b, D)
    BY <1>8, <1>13, <2>1, <2>2 DEF Joined
  <2>4. Freed(p, m, t, f, u, b, h, v)
    BY <1>4, <1>8, <2>1, <2>3 DEF Freed
  <2> QED
    BY <2>4
<1>16. CASE Meets(s.heap, h, j - 1)
  <2> DEFINE a == f[j - 1]
             g == Without(h, j)
  <2>1. /\ t = Absorb(s, h[j - 1]) /\ Ending(m, f, b) = {a} /\ h[j - 1] = a
        /\ j - 1 \in 1 .. Len(f) /\ j - 1 + 1 = j
    BY <1>8, <1>10, <1>11, <1>12, <1>14, <1>16 DEF Meets
  <2>2. a \in Cells /\ a \in Range(f) /\ a # b /\ a \in Range(h)
    BY <1>2, <1>4, <1>10, <1>11, <2>1, Place
  <2>3. a \notin D
    BY <1>8, <2>2
  <2>4. /\ Sound(p, t, g, v) /\ Range(g) = Range(h) \ {b}
        /\ Absorbed(s, t, h, v, j - 1)
    <3> DEFINE i == j - 1
    <3>1. Sound(p, s, h, v) /\ Meets(s.heap, h, i) /\ t = Absorb(s, h[i])
      BY <1>8, <1>16, <2>1
    <3> HIDE DEF i
    <3>2. Range(Without(h, i + 1)) = Range(h) \ {h[i + 1]} /\ Sound(p, t, Without(h, i + 1), v)
          /\ Absorbed(s, t, h, v, i)
      BY <3>1, AbsorbSound
    <3>3. i + 1 = j
      BY <2>1 DEF i
    <3> QED
      BY <1>8, <3>2, <3>3 DEF i
  <2>5. /\ t.live = s.live \ {b} /\ t.pool = s.pool
        /\ t.heap[a].size = s.heap[a].size + s.heap[b].size
        /\ t.heap[a].addr = s.heap[a].addr
        /\ \A d \in Cells \ {a, b} : Same(t.heap[d], s.heap[d])
        /\ Only(t.heap, s.heap, Range(h))
    BY <1>8, <2>1, <2>4 DEF Absorbed
  <2> HIDE DEF a, g
  <2>6. /\ s.heap[a].addr = m.heap[a].addr /\ s.heap[a].size = m.heap[a].size
        /\ m.heap[a].addr + m.heap[a].size = m.heap[b].addr
        /\ m.heap[a].addr \in Nat /\ m.heap[a].size \in Nat /\ m.heap[b].addr \in Nat
        /\ s.heap[b].size \in Nat
    <3>1. a \in Ending(m, f, b)
      BY <2>1
    <3>2. s.heap \in Heaps
      BY <1>8 DEF Sound, MemRec
    <3> QED
      BY <1>2, <1>4, <1>8, <2>2, <2>3, <3>1, <3>2, CellTypes DEF Ending, Same
  <2>7. t.heap[a].addr = m.heap[a].addr
        /\ t.heap[a].addr + t.heap[a].size = s.heap[b].addr + s.heap[b].size
    BY <1>8, <2>5, <2>6
  <2>8. Range(g) = (Range(f) \cup {b}) \ (D \cup {b}) /\ t.live = m.live \ (D \cup {b})
    BY <1>8, <2>4, <2>5
  <2>9. \A c \in Cells \ (D \cup {b} \cup {a}) : Same(t.heap[c], m.heap[c])
    BY <1>8, <2>5 DEF Same
  <2>10. Only(t.heap, m.heap, Range(f) \cup Range(u))
    BY <1>8, <2>5 DEF Only
  <2>11. D \cup {b} \in SUBSET Cells /\ a \in Range(g) /\ a \notin D \cup {b}
         /\ D \cup {b} \cup {a} = {b} \cup {a} \cup D
    BY <1>4, <1>8, <2>2, <2>3, <2>8
  <2>12. Joined(m, t, f, b, g, a, D \cup {b})
    BY <1>8, <1>13, <2>1, <2>7, <2>8, <2>9, <2>11 DEF Joined
  <2>13. Freed(p, m, t, f, u, b, g, v)
    BY <1>8, <2>2, <2>4, <2>5, <2>10, <2>11, <2>12 DEF Freed
  <2> QED
    BY <2>13
<1> QED
  BY <1>15, <1>16
=============================================================================
