------------------------ MODULE SimpleAllocatorHeap ------------------------
(***************************************************************************)
(* What is true of the heap of SimpleAllocator between two operations, in  *)
(* named parts, and for each operation the lemma that says which parts it  *)
(* keeps.  SimpleAllocatorProofs builds the inductive invariant from these *)
(* parts.                                                                  *)
(*                                                                         *)
(* In the middle of a call the parts hold with exceptions, which are their *)
(* arguments: pending, the unused blocks that are in no free list yet;     *)
(* open, the block whose size or neighbours are being changed; loose, the  *)
(* unused blocks that may have an unused right neighbour.                  *)
(***************************************************************************)
EXTENDS SimpleAllocator, FiniteSetTheorems, SequenceTheorems, WellFoundedInduction, TLAPS

Headers == [size : Nat \ {0}, used : BOOLEAN]
Heaps == [block : UNION {[D -> Headers] : D \in SUBSET Addresses},
          list : Seq(Addresses), free : Seq(Addresses), region_count : Int]

End(h, b) == Offset(b) + HeaderSize + h.block[b].size
Indices(s) == 1 .. Len(s)
Once(s) == \A i, j \in Indices(s) : s[i] = s[j] => i = j
Listed(s, b) == \E i \in Indices(s) : s[i] = b
Heads(h) == {b \in DOMAIN h.block : Offset(b) = 0}

\* The block list holds every block once, and nothing else.
ListExact(h) == /\ Once(h.list)
                /\ \A b \in Addresses : Listed(h.list, b) <=> b \in DOMAIN h.block

\* A block is the first of its region or begins where the block before it ends.
EndToEnd(h) ==
    \A i \in Indices(h.list) :
       \/ Offset(h.list[i]) = 0
       \/ /\ i > 1 /\ Region(h.list[i - 1]) = Region(h.list[i])
          /\ End(h, h.list[i - 1]) = Offset(h.list[i])

\* The blocks of a region are in the order of their addresses and do not overlap.
InOrder(h) ==
    \A i, j \in Indices(h.list) :
       i < j /\ Region(h.list[i]) = Region(h.list[j]) => End(h, h.list[i]) <= Offset(h.list[j])

\* No block of another region is between two blocks of a region.
Together(h) ==
    \A i, j, k \in Indices(h.list) :
       i < j /\ j < k /\ Region(h.list[i]) = Region(h.list[k])
       => Region(h.list[j]) = Region(h.list[i])

\* A region has a block at its start, and region_count counts the regions.
Headed(h) ==
    /\ \A b \in DOMAIN h.block : <<Region(b), 0>> \in DOMAIN h.block
    /\ h.region_count = Cardinality(Heads(h))

Tiled(h) == ListExact(h) /\ EndToEnd(h) /\ InOrder(h) /\ Together(h) /\ Headed(h)

\* The free list holds every unused block that is not pending once, by size.
FreeExact(h, pending, open) ==
    /\ Once(h.free)
    /\ \A b \in Addresses :
          Listed(h.free, b) <=> b \in DOMAIN h.block \ pending /\ ~h.block[b].used
    /\ \A i, j \in Indices(h.free) :
          i < j /\ h.free[i] \notin open /\ h.free[j] \notin open
          => h.block[h.free[i]].size <= h.block[h.free[j]].size

\* Neighbours of one region that are both unused begin with a loose block.
CoalescedBut(h, loose) ==
    \A i \in Indices(h.list) :
       /\ i < Len(h.list) /\ Region(h.list[i]) = Region(h.list[i + 1])
       /\ ~h.block[h.list[i]].used /\ ~h.block[h.list[i + 1]].used
       => h.list[i] \in loose

\* A free-list node fits into a block, or the block after it is of the same region.
NodesFit(h) ==
    \A i \in Indices(h.list) :
       \/ h.block[h.list[i]].size >= NodeSize
       \/ i < Len(h.list) /\ Region(h.list[i + 1]) = Region(h.list[i])

FreeRegions(h) == {b \in DOMAIN h.block : IsBlockFree(h, b)}
FewFreeRegions(h, open) == Cardinality(FreeRegions(h) \ open) <= KeepRegions

Sound(h, pending, open) ==
    /\ h \in Heaps
    /\ Tiled(h) /\ FreeExact(h, pending, open) /\ NodesFit(h) /\ FewFreeRegions(h, open)

\* The unused blocks from b to the right, which MergeRightBlock merges into b.
Run(h, b) ==
    {h.list[i] : i \in {j \in Indices(h.list) :
                           /\ Position(h, b) <= j
                           /\ \A k \in Position(h, b) .. j : Mergeable(h, b, k)}}

-----------------------------------------------------------------------------
(* Numbers and sequences.                                                  *)

\* A non-empty set of naturals has a least element: the intervals 0 .. n below its
\* elements are finite sets, which strict inclusion orders well.
LEMMA LeastNat ==
    ASSUME NEW S \in SUBSET Nat, S # {}
    PROVE  \E n \in S : \A m \in S : n <= m
<1>. DEFINE T == {0 .. m : m \in S}
<1>1. IsWellFoundedOn(StrictSubsetOrdering(Nat), FiniteSubsetsOf(Nat))
  BY FS_StrictSubsetOrderingWellFounded
<1>2. T \subseteq FiniteSubsetsOf(Nat)
  <2>1. \A m \in Nat : IsFiniteSet(0 .. m)
    BY FS_Interval
  <2>2. \A m \in Nat : 0 .. m \in SUBSET Nat
    OBVIOUS
  <2>3. \A m \in Nat : 0 .. m \in FiniteSubsetsOf(Nat)
    BY <2>1, <2>2 DEF FiniteSubsetsOf
  <2>. QED
    BY <2>3
<1>3. T # {}
  OBVIOUS
<1>4. PICK x \in T : \A y \in T : ~(<<y, x>> \in StrictSubsetOrdering(Nat))
  BY <1>1, <1>2, <1>3, WFMin
<1>5. PICK n \in S : x = 0 .. n
  OBVIOUS
<1>6. \A m \in S : n <= m
  <2>. SUFFICES ASSUME NEW m \in S, m < n PROVE FALSE
    OBVIOUS
  <2>1. 0 .. m \subseteq 0 .. n /\ n \in 0 .. n /\ n \notin 0 .. m
    OBVIOUS
  <2>2. <<0 .. m, 0 .. n>> \in StrictSubsetOrdering(Nat)
    BY <2>1 DEF StrictSubsetOrdering
  <2>. QED
    BY <2>2, <1>4, <1>5
<1>. QED
  BY <1>6

\* Min of the community modules is that element.
LEMMA MinIsLeast ==
    ASSUME NEW S \in SUBSET Nat, S # {}
    PROVE  Min(S) \in S /\ \A m \in S : Min(S) <= m
BY LeastNat DEF Min

\* An element put in before index i: those from i on move up by one.
LEMMA InsertAtIs ==
    ASSUME NEW S, NEW s \in Seq(S), NEW i \in 1 .. Len(s) + 1, NEW e \in S
    PROVE  /\ InsertAt(s, i, e) \in Seq(S)
           /\ Len(InsertAt(s, i, e)) = Len(s) + 1
           /\ \A j \in 1 .. Len(s) + 1 :
                 InsertAt(s, i, e)[j] = IF j < i THEN s[j] ELSE IF j = i THEN e ELSE s[j - 1]
<1>. DEFINE a == SubSeq(s, 1, i - 1)
            c == SubSeq(s, i, Len(s))
            f == <<e>>
            d == a \o f
<1>1. a \in Seq(S) /\ Len(a) = i - 1 /\ \A j \in 1 .. i - 1 : a[j] = s[j]
  OBVIOUS
<1>2. c \in Seq(S) /\ Len(c) = Len(s) - i + 1 /\ \A j \in 1 .. Len(c) : c[j] = s[i + j - 1]
  OBVIOUS
<1>3. f \in Seq(S) /\ Len(f) = 1 /\ f[1] = e
  <2>1. e \in S
    OBVIOUS
  <2>. QED
    BY <2>1
<1>4. InsertAt(s, i, e) = d \o c
  BY DEF InsertAt
<1>. HIDE DEF a, c, f, d
<1>5. d \in Seq(S) /\ Len(d) = i /\ \A j \in 1 .. i : d[j] = IF j < i THEN s[j] ELSE e
  <2>1. Len(a) + Len(f) = i
    BY <1>1, <1>3
  <2>2. /\ d \in Seq(S) /\ Len(d) = i
        /\ \A j \in 1 .. i : d[j] = IF j <= Len(a) THEN a[j] ELSE f[j - Len(a)]
    BY <1>1, <1>3, <2>1, ConcatProperties DEF d
  <2>. QED
    BY <1>1, <1>3, <2>2
<1>6. /\ d \o c \in Seq(S) /\ Len(d \o c) = Len(s) + 1
      /\ \A j \in 1 .. Len(s) + 1 : (d \o c)[j] = IF j <= Len(d) THEN d[j] ELSE c[j - Len(d)]
  <2>1. Len(d) + Len(c) = Len(s) + 1
    BY <1>2, <1>5
  <2>2. /\ d \o c \in Seq(S) /\ Len(d \o c) = Len(d) + Len(c)
        /\ \A j \in 1 .. Len(d) + Len(c) :
              (d \o c)[j] = IF j <= Len(d) THEN d[j] ELSE c[j - Len(d)]
    BY <1>2, <1>5, ConcatProperties
  <2>. QED
    BY <2>1, <2>2
<1>7. \A j \in 1 .. Len(s) + 1 : j > i => c[j - i] = s[j - 1]
  BY <1>2
<1>. QED
  BY <1>4, <1>5, <1>6, <1>7

\* The element at index i taken out: those after it move down by one.
LEMMA RemoveAtIs ==
    ASSUME NEW S, NEW s \in Seq(S), NEW i \in Indices(s)
    PROVE  /\ RemoveAt(s, i) \in Seq(S)
           /\ Len(RemoveAt(s, i)) = Len(s) - 1
           /\ \A j \in 1 .. Len(s) - 1 :
                 RemoveAt(s, i)[j] = IF j < i THEN s[j] ELSE s[j + 1]
<1>. DEFINE a == SubSeq(s, 1, i - 1)
            c == SubSeq(s, i + 1, Len(s))
<1>. i \in 1 .. Len(s) /\ Len(s) \in Nat
  BY DEF Indices
<1>1. a \in Seq(S) /\ Len(a) = i - 1 /\ \A j \in 1 .. i - 1 : a[j] = s[j]
  <2>1. \A j \in 1 .. i - 1 : s[j] \in S
    OBVIOUS
  <2>. QED
    BY <2>1, SubSeqProperties
<1>2. c \in Seq(S) /\ Len(c) = Len(s) - i /\ \A j \in 1 .. Len(c) : c[j] = s[i + j]
  <2>1. \A j \in i + 1 .. Len(s) : s[j] \in S
    OBVIOUS
  <2>. QED
    BY SMTT(30), <2>1, SubSeqProperties
<1>3. RemoveAt(s, i) = a \o c
  BY DEF RemoveAt
<1>. HIDE DEF a, c
<1>4. /\ a \o c \in Seq(S) /\ Len(a \o c) = Len(s) - 1
      /\ \A j \in 1 .. Len(s) - 1 : (a \o c)[j] = IF j < i THEN a[j] ELSE c[j - i + 1]
  <2>1. Len(a) + Len(c) = Len(s) - 1 /\ Len(a) = i - 1
    BY <1>1, <1>2
  <2>2. /\ a \o c \in Seq(S) /\ Len(a \o c) = Len(a) + Len(c)
        /\ \A j \in 1 .. Len(a) + Len(c) :
              (a \o c)[j] = IF j <= Len(a) THEN a[j] ELSE c[j - Len(a)]
    BY <1>1, <1>2, ConcatProperties
  <2>3. /\ a \o c \in Seq(S) /\ Len(a \o c) = Len(s) - 1
        /\ \A j \in 1 .. Len(s) - 1 :
              (a \o c)[j] = IF j <= i - 1 THEN a[j] ELSE c[j - (i - 1)]
    BY <2>1, <2>2
  <2>. QED
    BY <2>3
<1>5. \A j \in 1 .. Len(s) - 1 : (a \o c)[j] = IF j < i THEN s[j] ELSE s[j + 1]
  <2>. SUFFICES ASSUME NEW j \in 1 .. Len(s) - 1
                PROVE  (a \o c)[j] = IF j < i THEN s[j] ELSE s[j + 1]
    OBVIOUS
  <2>1. CASE j < i
    <3>1. j \in 1 .. i - 1
      BY <2>1
    <3>. QED
      BY <1>1, <1>4, <2>1, <3>1
  <2>2. CASE ~(j < i)
    <3>1. j - i + 1 \in 1 .. Len(c) /\ i + (j - i + 1) = j + 1
      BY <1>2, <2>2
    <3>2. c[j - i + 1] = s[j + 1]
      BY <1>2, <3>1
    <3>. QED
      BY <1>4, <2>2, <3>2
  <2>. QED
    BY <2>1, <2>2
<1>. QED
  BY <1>3, <1>4, <1>5

\* The index SelectInSeq finds for an element that is there once.
LEMMA OnlyIndex ==
    ASSUME NEW S, NEW s \in Seq(S), Once(s), NEW i \in Indices(s), NEW e, s[i] = e
    PROVE  /\ {j \in 1 .. Len(s) : s[j] = e} # {}
           /\ Min({j \in 1 .. Len(s) : s[j] = e}) = i
<1>. DEFINE I == {j \in 1 .. Len(s) : s[j] = e}
<1>1. I = {i} /\ i \in Nat
  BY DEF Once, Indices
<1>2. Min({i}) = i
  BY <1>1, MinIsLeast
<1>. QED
  BY <1>1, <1>2

\* RemoveFirst takes out the one occurrence of an element.
LEMMA RemoveFirstIs ==
    ASSUME NEW S, NEW s \in Seq(S), Once(s), NEW i \in Indices(s), NEW e, s[i] = e
    PROVE  RemoveFirst(s, e) = RemoveAt(s, i)
BY OnlyIndex DEF RemoveFirst, SelectInSeq, Indices

\* Position is the index of a block in the block list.
LEMMA PositionIs ==
    ASSUME NEW h, h.list \in Seq(Addresses), Once(h.list),
           NEW i \in Indices(h.list), NEW b, h.list[i] = b
    PROVE  Position(h, b) = i
BY OnlyIndex DEF Position, SelectInSeq

-----------------------------------------------------------------------------
(* The fields of a heap before and after an operation.                     *)

\* What is known of the fields of a heap.
LEMMA HeapFields ==
    ASSUME NEW h \in Heaps
    PROVE  /\ h.block \in [DOMAIN h.block -> Headers]
           /\ DOMAIN h.block \subseteq Addresses
           /\ h.list \in Seq(Addresses) /\ h.free \in Seq(Addresses) /\ h.region_count \in Int
           /\ \A b \in DOMAIN h.block : /\ h.block[b].size \in Nat \ {0}
                                        /\ h.block[b].used \in BOOLEAN
<1>1. PICK D \in SUBSET Addresses : h.block \in [D -> Headers]
  BY DEF Heaps
<1>2. DOMAIN h.block = D
  BY <1>1
<1>3. h.list \in Seq(Addresses) /\ h.free \in Seq(Addresses) /\ h.region_count \in Int
  BY DEF Heaps
<1>4. \A b \in D : h.block[b] \in Headers
  BY <1>1
<1>. QED
  BY <1>1, <1>2, <1>3, <1>4 DEF Headers

\* A record of the right fields is a heap.
LEMMA HeapIs ==
    ASSUME NEW D \in SUBSET Addresses, NEW B \in [D -> Headers],
           NEW l \in Seq(Addresses), NEW f \in Seq(Addresses), NEW c \in Int
    PROVE  [block |-> B, list |-> l, free |-> f, region_count |-> c] \in Heaps
<1>1. B \in UNION {[E -> Headers] : E \in SUBSET Addresses}
  OBVIOUS
<1>. QED
  BY <1>1 DEF Heaps

\* A block's address.
LEMMA AddressIs ==
    ASSUME NEW b \in Addresses
    PROVE  b = <<Region(b), Offset(b)>> /\ Region(b) \in Regions /\ Offset(b) \in Nat
BY DEF Addresses, Region, Offset

\* A heap is the record of its fields.
LEMMA HeapRecord ==
    ASSUME NEW h \in Heaps
    PROVE  h = [block |-> h.block, list |-> h.list, free |-> h.free,
                region_count |-> h.region_count]
BY DEF Heaps

\* g differs from h in whether block b is used, and in the free list.
Marked(g, h, b, u) ==
    /\ g \in Heaps /\ g.list = h.list /\ g.region_count = h.region_count
    /\ DOMAIN g.block = DOMAIN h.block
    /\ \A a \in DOMAIN h.block : /\ g.block[a].size = h.block[a].size
                                 /\ g.block[a].used = IF a = b THEN u ELSE h.block[a].used

\* set_used changes the flag of one block.
LEMMA SetUsedIs ==
    ASSUME NEW h \in Heaps, NEW b \in DOMAIN h.block, NEW u \in BOOLEAN
    PROVE  Marked(SetUsed(h, b, u), h, b, u) /\ SetUsed(h, b, u).free = h.free
<1>. DEFINE D == DOMAIN h.block
            x == [h.block[b] EXCEPT !.used = u]
            B == [h.block EXCEPT ![b] = x]
            g == SetUsed(h, b, u)
<1>1. h.block \in [D -> Headers] /\ D \subseteq Addresses
  BY HeapFields
<1>2. x \in Headers /\ x.size = h.block[b].size /\ x.used = u
  BY <1>1 DEF Headers
<1>3. B \in [D -> Headers] /\ \A a \in D : B[a] = IF a = b THEN x ELSE h.block[a]
  BY <1>1, <1>2
<1>4. g = [block |-> B, list |-> h.list, free |-> h.free, region_count |-> h.region_count]
  BY HeapRecord DEF SetUsed
<1>. HIDE DEF x, B, D, g
<1>5. g \in Heaps
  <2>1. B \in [D -> Headers] /\ D \in SUBSET Addresses
    BY <1>1, <1>3
  <2>2. h.list \in Seq(Addresses) /\ h.free \in Seq(Addresses) /\ h.region_count \in Int
    BY HeapFields
  <2>. QED
    BY <1>4, <2>1, <2>2, HeapIs
<1>6. /\ g.block = B /\ g.list = h.list /\ g.free = h.free
      /\ g.region_count = h.region_count /\ DOMAIN B = D
  BY <1>3, <1>4
<1>7. \A a \in D : /\ B[a].size = h.block[a].size
                   /\ B[a].used = IF a = b THEN u ELSE h.block[a].used
  BY <1>2, <1>3
<1>8. Marked(g, h, b, u)
  BY <1>5, <1>6, <1>7 DEF Marked, D
<1>. QED
  BY <1>6, <1>8 DEF g

\* A heap with another free list.
LEMMA WithFreeIs ==
    ASSUME NEW h \in Heaps, NEW f \in Seq(Addresses), NEW g, g = [h EXCEPT !.free = f]
    PROVE  /\ g \in Heaps /\ g.free = f
           /\ g.block = h.block /\ g.list = h.list /\ g.region_count = h.region_count
<1>1. g = [block |-> h.block, list |-> h.list, free |-> f, region_count |-> h.region_count]
  BY HeapRecord
<1>2. g \in Heaps
  BY <1>1 DEF Heaps
<1>. QED
  BY <1>1, <1>2

\* RemoveFromFreeList takes the block out of the free list and marks it used.
LEMMA RemoveFromFreeListIs ==
    ASSUME NEW h \in Heaps, Once(h.free), NEW i \in Indices(h.free),
           NEW b \in DOMAIN h.block, h.free[i] = b
    PROVE  /\ Marked(RemoveFromFreeList(h, b), h, b, TRUE)
           /\ RemoveFromFreeList(h, b).free = RemoveAt(h.free, i)
<1>. DEFINE f == RemoveAt(h.free, i)
            h1 == [h EXCEPT !.free = f]
<1>0. h.free \in Seq(Addresses)
  BY HeapFields
<1>1. RemoveFirst(h.free, b) = f /\ f \in Seq(Addresses)
  BY <1>0, RemoveFirstIs, RemoveAtIs
<1>2. RemoveFromFreeList(h, b) = SetUsed(h1, b, TRUE)
  BY <1>1 DEF RemoveFromFreeList
<1>. HIDE DEF f
<1>3. /\ h1 \in Heaps /\ h1.free = f
      /\ h1.block = h.block /\ h1.list = h.list /\ h1.region_count = h.region_count
  BY <1>1, WithFreeIs
<1>. HIDE DEF h1
<1>4. Marked(SetUsed(h1, b, TRUE), h1, b, TRUE) /\ SetUsed(h1, b, TRUE).free = f
  BY <1>3, SetUsedIs
<1>5. Marked(SetUsed(h1, b, TRUE), h, b, TRUE)
  BY <1>3, <1>4 DEF Marked
<1>. QED
  BY <1>2, <1>4, <1>5 DEF f

\* k is the place for block b in the free list: before the first that is not smaller.
PlaceFor(h, b, k) ==
    /\ k \in 1 .. Len(h.free) + 1
    /\ \A i \in Indices(h.free) :
          /\ i < k => h.block[h.free[i]].size < h.block[b].size
          /\ i = k => h.block[h.free[i]].size >= h.block[b].size

\* AddToFreeList marks the block unused and puts it in at its place.
LEMMA AddToFreeListIs ==
    ASSUME NEW h \in Heaps, NEW b \in DOMAIN h.block,
           \A i \in Indices(h.free) : h.free[i] \in DOMAIN h.block
    PROVE  /\ Marked(AddToFreeList(h, b), h, b, FALSE)
           /\ \E k \in 1 .. Len(h.free) + 1 :
                 PlaceFor(h, b, k) /\ AddToFreeList(h, b).free = InsertAt(h.free, k, b)
<1>. DEFINE I == {i \in 1 .. Len(h.free) : h.block[h.free[i]].size >= h.block[b].size}
            at == IF I # {} THEN Min(I) ELSE 0
            k == IF at = 0 THEN Len(h.free) + 1 ELSE at
            f == InsertAt(h.free, k, b)
            h1 == [h EXCEPT !.free = f]
<1>0. /\ h.free \in Seq(Addresses) /\ b \in Addresses /\ Len(h.free) \in Nat
      /\ \A a \in DOMAIN h.block : h.block[a].size \in Nat
  BY HeapFields
<1>1. AddToFreeList(h, b) = SetUsed(h1, b, FALSE)
  BY DEF AddToFreeList, SelectInSeq
<1>2. PlaceFor(h, b, k)
  <2>0. \A i \in Indices(h.free) : i \notin I => h.block[h.free[i]].size < h.block[b].size
    BY <1>0 DEF Indices
  <2>1. CASE I = {}
    <3>1. k = Len(h.free) + 1
      BY <2>1
    <3>. HIDE DEF k, I
    <3>. QED
      BY <2>0, <2>1, <3>1, <1>0 DEF PlaceFor, Indices
  <2>2. CASE I # {}
    <3>1. Min(I) \in I /\ \A m \in I : Min(I) <= m
      <4>1. I \in SUBSET Nat
        OBVIOUS
      <4>. QED
        BY <2>2, <4>1, MinIsLeast
    <3>2. Min(I) \in 1 .. Len(h.free)
      BY <3>1
    <3>3. k = Min(I)
      <4>1. at = Min(I)
        BY <2>2
      <4>. HIDE DEF at, I
      <4>2. at # 0
        BY <3>2, <4>1, <1>0
      <4>. QED
        BY <4>1, <4>2
    <3>4. h.block[h.free[Min(I)]].size >= h.block[b].size
      BY <3>1
    <3>. HIDE DEF k, I
    <3>. QED
      BY <2>0, <3>1, <3>2, <3>3, <3>4, <1>0 DEF PlaceFor, Indices
  <2>. QED
    BY <2>1, <2>2
<1>. HIDE DEF k
<1>3. k \in 1 .. Len(h.free) + 1 /\ f \in Seq(Addresses)
  <2>1. k \in 1 .. Len(h.free) + 1
    BY <1>2 DEF PlaceFor
  <2>. QED
    BY <1>0, <2>1, InsertAtIs
<1>. HIDE DEF f
<1>4. /\ h1 \in Heaps /\ h1.free = f
      /\ h1.block = h.block /\ h1.list = h.list /\ h1.region_count = h.region_count
  BY <1>3, WithFreeIs
<1>. HIDE DEF h1
<1>5. Marked(SetUsed(h1, b, FALSE), h1, b, FALSE) /\ SetUsed(h1, b, FALSE).free = f
  BY <1>4, SetUsedIs
<1>6. Marked(SetUsed(h1, b, FALSE), h, b, FALSE)
  BY <1>4, <1>5 DEF Marked
<1>. QED
  BY <1>1, <1>2, <1>3, <1>5, <1>6 DEF f

\* g differs from h in the size of block b.
Resized(g, h, b, n) ==
    /\ g \in Heaps /\ g.list = h.list /\ g.free = h.free /\ g.region_count = h.region_count
    /\ DOMAIN g.block = DOMAIN h.block
    /\ \A a \in DOMAIN h.block : /\ g.block[a].size = IF a = b THEN n ELSE h.block[a].size
                                 /\ g.block[a].used = h.block[a].used

\* The last statement of SplitBlock changes the size of one block.
LEMMA SplitShrinkIs ==
    ASSUME NEW h \in Heaps, NEW b \in DOMAIN h.block, NEW n \in Nat \ {0}
    PROVE  Resized(SplitShrink(h, b, n), h, b, n)
<1>. DEFINE D == DOMAIN h.block
            x == [h.block[b] EXCEPT !.size = n]
            B == [h.block EXCEPT ![b] = x]
            g == SplitShrink(h, b, n)
<1>1. h.block \in [D -> Headers] /\ D \subseteq Addresses
  BY HeapFields
<1>2. x \in Headers /\ x.size = n /\ x.used = h.block[b].used
  BY <1>1 DEF Headers
<1>3. B \in [D -> Headers] /\ \A a \in D : B[a] = IF a = b THEN x ELSE h.block[a]
  BY <1>1, <1>2
<1>4. g = [block |-> B, list |-> h.list, free |-> h.free, region_count |-> h.region_count]
  BY HeapRecord DEF SplitShrink
<1>. HIDE DEF x, B, D, g
<1>5. g \in Heaps
  <2>1. B \in [D -> Headers] /\ D \in SUBSET Addresses
    BY <1>1, <1>3
  <2>2. h.list \in Seq(Addresses) /\ h.free \in Seq(Addresses) /\ h.region_count \in Int
    BY HeapFields
  <2>. QED
    BY <1>4, <2>1, <2>2, HeapIs
<1>6. /\ g.block = B /\ g.list = h.list /\ g.free = h.free
      /\ g.region_count = h.region_count /\ DOMAIN B = D
  BY <1>3, <1>4
<1>7. \A a \in D : /\ B[a].size = IF a = b THEN n ELSE h.block[a].size
                   /\ B[a].used = h.block[a].used
  BY <1>2, <1>3
<1>8. Resized(g, h, b, n)
  BY <1>5, <1>6, <1>7 DEF Resized, D
<1>. QED
  BY <1>8 DEF g

\* g is h without block b, which was at index i of the block list.
Dropped(g, h, b, i) ==
    /\ g \in Heaps /\ g.list = RemoveAt(h.list, i)
    /\ g.free = h.free /\ g.region_count = h.region_count
    /\ DOMAIN g.block = DOMAIN h.block \ {b}
    /\ \A a \in DOMAIN g.block : g.block[a] = h.block[a]

\* RemoveFromBlockList drops the block that is at index i.
LEMMA RemoveFromBlockListIs ==
    ASSUME NEW h \in Heaps, Once(h.list), NEW i \in Indices(h.list), NEW b, h.list[i] = b
    PROVE  Dropped(RemoveFromBlockList(h, b), h, b, i)
<1>. DEFINE D == DOMAIN h.block \ {b}
            B == [a \in D |-> h.block[a]]
            l == RemoveAt(h.list, i)
            g == RemoveFromBlockList(h, b)
<1>0. h.list \in Seq(Addresses)
  BY HeapFields
<1>1. RemoveFirst(h.list, b) = l /\ l \in Seq(Addresses)
  BY <1>0, RemoveFirstIs, RemoveAtIs
<1>2. h.block \in [DOMAIN h.block -> Headers] /\ DOMAIN h.block \subseteq Addresses
  BY HeapFields
<1>3. B \in [D -> Headers] /\ D \in SUBSET Addresses
  BY <1>2
<1>4. g = [h EXCEPT !.list = l, !.block = B]
  BY <1>1 DEF RemoveFromBlockList
<1>5. DOMAIN B = D /\ \A a \in D : B[a] = h.block[a]
  OBVIOUS
<1>. HIDE DEF B, D, l, g
<1>6. /\ g \in Heaps /\ g.block = B /\ g.list = l
      /\ g.free = h.free /\ g.region_count = h.region_count
  <2>1. B \in UNION {[E -> Headers] : E \in SUBSET Addresses}
    BY <1>3
  <2>. QED
    BY <1>1, <1>4, <2>1 DEF Heaps
<1>8. Dropped(g, h, b, i)
  BY <1>5, <1>6 DEF Dropped, D, l
<1>. QED
  BY <1>8 DEF g

\* g is h with one more block, unused, at index i of the block list.
Added(g, h, b, size, i) ==
    /\ g \in Heaps /\ g.list = InsertAt(h.list, i, b)
    /\ g.free = h.free
    /\ DOMAIN g.block = DOMAIN h.block \cup {b}
    /\ \A a \in DOMAIN h.block : g.block[a] = h.block[a]
    /\ g.block[b].size = size /\ ~g.block[b].used

AddAt(h, b, size, i, c) ==
    [AddHeader(h, b, size) EXCEPT !.list = InsertAt(h.list, i, b), !.region_count = c]

\* A header written and linked at index i adds a block.
LEMMA AddedIs ==
    ASSUME NEW h \in Heaps, NEW b \in Addresses, b \notin DOMAIN h.block,
           NEW size \in Nat \ {0}, NEW i \in 1 .. Len(h.list) + 1, NEW c \in Int
    PROVE  /\ Added(AddAt(h, b, size, i, c), h, b, size, i)
           /\ AddAt(h, b, size, i, c).region_count = c
<1>. DEFINE D == DOMAIN h.block \cup {b}
            x == [size |-> size, used |-> FALSE]
            B == [a \in D |-> IF a = b THEN x ELSE h.block[a]]
            l == InsertAt(h.list, i, b)
            g == AddAt(h, b, size, i, c)
<1>1. h.list \in Seq(Addresses) /\ h.free \in Seq(Addresses)
  BY HeapFields
<1>2. l \in Seq(Addresses)
  BY <1>1, InsertAtIs
<1>3. h.block \in [DOMAIN h.block -> Headers] /\ DOMAIN h.block \subseteq Addresses
  BY HeapFields
<1>4. x \in Headers /\ x.size = size /\ ~x.used
  BY DEF Headers
<1>5. B \in [D -> Headers] /\ D \in SUBSET Addresses
  BY <1>3, <1>4
<1>6. g = [[h EXCEPT !.block = B] EXCEPT !.list = l, !.region_count = c]
  <2>1. AddHeader(h, b, size) = [h EXCEPT !.block = B]
    BY DEF AddHeader
  <2>. QED
    BY <2>1 DEF AddAt
<1>7. DOMAIN B = D /\ B[b] = x /\ \A a \in DOMAIN h.block : B[a] = h.block[a]
  OBVIOUS
<1>. HIDE DEF x, B, D, l, g
<1>8. g \in Heaps /\ g.block = B /\ g.list = l /\ g.free = h.free /\ g.region_count = c
  <2>1. B \in UNION {[E -> Headers] : E \in SUBSET Addresses}
    BY <1>5
  <2>. QED
    BY <1>2, <1>6, <2>1 DEF Heaps
<1>. QED
  BY <1>4, <1>7, <1>8 DEF Added, D, l, g

-----------------------------------------------------------------------------
(* The free list.                                                          *)

\* The elements of t are elements of s in their order.
OrderLeft(t, s) ==
    \A i, j \in Indices(t) : i < j =>
       \E x, y \in Indices(s) : x < y /\ t[i] = s[x] /\ t[j] = s[y]

\* What RemoveAt keeps: the other elements, once each, in their order.
LEMMA RemoveKeeps ==
    ASSUME NEW S, NEW s \in Seq(S), Once(s), NEW k \in Indices(s),
           NEW t, t = RemoveAt(s, k)
    PROVE  /\ t \in Seq(S) /\ Once(t)
           /\ \A e : Listed(t, e) <=> Listed(s, e) /\ e # s[k]
           /\ OrderLeft(t, s)
<1>1. /\ t \in Seq(S) /\ Len(t) = Len(s) - 1 /\ Len(s) \in Nat /\ k \in 1 .. Len(s)
      /\ \A j \in 1 .. Len(s) - 1 : t[j] = IF j < k THEN s[j] ELSE s[j + 1]
  <2>1. Len(s) \in Nat /\ k \in 1 .. Len(s)
    BY DEF Indices
  <2>. QED
    BY <2>1, RemoveAtIs
<1>. DEFINE Old(j) == IF j < k THEN j ELSE j + 1
<1>2. \A j \in Indices(t) : Old(j) \in Indices(s) /\ Old(j) # k /\ t[j] = s[Old(j)]
  BY <1>1 DEF Indices
<1>3. \A i, j \in Indices(t) : i < j => Old(i) < Old(j)
  BY <1>1 DEF Indices
<1>4. \A x \in Indices(s) : x # k => \E j \in Indices(t) : Old(j) = x
  <2>. SUFFICES ASSUME NEW x \in Indices(s), x # k PROVE \E j \in Indices(t) : Old(j) = x
    OBVIOUS
  <2>1. CASE x < k
    BY <1>1, <2>1 DEF Indices
  <2>2. CASE x > k
    <3>1. x - 1 \in Indices(t) /\ Old(x - 1) = x
      BY <1>1, <2>2 DEF Indices
    <3>. QED
      BY <3>1
  <2>. QED
    BY <1>1, <2>1, <2>2 DEF Indices
<1>5. \A i, j \in Indices(t) : Old(i) = Old(j) => i = j
  BY <1>1 DEF Indices
<1>. HIDE DEF Old
<1>6. Once(t)
  BY <1>2, <1>5 DEF Once
<1>7. \A e : Listed(t, e) <=> Listed(s, e) /\ e # s[k]
  <2>1. ASSUME NEW e, Listed(t, e) PROVE Listed(s, e) /\ e # s[k]
    BY <1>2, <2>1 DEF Listed, Once
  <2>2. ASSUME NEW e, Listed(s, e), e # s[k] PROVE Listed(t, e)
    BY <1>2, <1>4, <2>2 DEF Listed
  <2>. QED
    BY <2>1, <2>2
<1>8. OrderLeft(t, s)
  BY <1>2, <1>3 DEF OrderLeft
<1>. QED
  BY <1>1, <1>6, <1>7, <1>8

\* t is s with e put in before index i.
PutIn(t, s, i, e) ==
    /\ Len(t) = Len(s) + 1 /\ Len(s) \in Nat
    /\ \A j \in 1 .. Len(s) + 1 : t[j] = IF j < i THEN s[j] ELSE IF j = i THEN e ELSE s[j - 1]

\* InsertAt puts an element in.
LEMMA InsertAtPutsIn ==
    ASSUME NEW S, NEW s \in Seq(S), NEW i \in 1 .. Len(s) + 1, NEW e \in S
    PROVE  InsertAt(s, i, e) \in Seq(S) /\ PutIn(InsertAt(s, i, e), s, i, e)
<1>. DEFINE t == InsertAt(s, i, e)
<1>1. /\ t \in Seq(S) /\ Len(t) = Len(s) + 1
      /\ \A j \in 1 .. Len(s) + 1 :
            t[j] = IF j < i THEN s[j] ELSE IF j = i THEN e ELSE s[j - 1]
  BY InsertAtIs
<1>2. Len(s) \in Nat
  OBVIOUS
<1>. HIDE DEF t
<1>3. t \in Seq(S) /\ PutIn(t, s, i, e)
  BY <1>1, <1>2 DEF PutIn
<1>. QED
  BY <1>3 DEF t

\* The elements of t are those of s in their order, with e put in before index k.
OrderKept(t, s, k, e) ==
    \A i, j \in Indices(t) : i < j =>
       \/ \E x, y \in Indices(s) : x < y /\ t[i] = s[x] /\ t[j] = s[y]
       \/ \E x \in Indices(s) : x < k /\ t[i] = s[x] /\ t[j] = e
       \/ \E y \in Indices(s) : k <= y /\ t[i] = e /\ t[j] = s[y]

\* What InsertAt keeps: the old elements in their order, around the new one.
LEMMA InsertKeeps ==
    ASSUME NEW S, NEW s \in Seq(S), Once(s), NEW k \in 1 .. Len(s) + 1,
           NEW e \in S, ~Listed(s, e), NEW t, t = InsertAt(s, k, e)
    PROVE  /\ t \in Seq(S) /\ Once(t)
           /\ \A a : Listed(t, a) <=> Listed(s, a) \/ a = e
           /\ OrderKept(t, s, k, e)
<1>1. /\ t \in Seq(S) /\ Len(t) = Len(s) + 1 /\ Len(s) \in Nat /\ k \in 1 .. Len(s) + 1
      /\ \A j \in 1 .. Len(s) + 1 :
            t[j] = IF j < k THEN s[j] ELSE IF j = k THEN e ELSE s[j - 1]
  <2>1. t \in Seq(S) /\ PutIn(t, s, k, e)
    BY InsertAtPutsIn
  <2>. QED
    BY <2>1 DEF PutIn
<1>. DEFINE New(x) == IF x < k THEN x ELSE x + 1
            Old(j) == IF j < k THEN j ELSE j - 1
<1>2. \A x \in Indices(s) : New(x) \in Indices(t) /\ t[New(x)] = s[x]
  BY <1>1 DEF Indices
<1>3. k \in Indices(t) /\ t[k] = e
  BY <1>1 DEF Indices
<1>4. \A j \in Indices(t) : j # k => Old(j) \in Indices(s) /\ t[j] = s[Old(j)]
  BY <1>1 DEF Indices
<1>5. \A i, j \in Indices(t) : /\ i # k /\ j # k /\ Old(i) = Old(j) => i = j
                               /\ i < j /\ i # k /\ j # k => Old(i) < Old(j)
                               /\ i < j /\ i = k => k <= Old(j)
                               /\ i < j /\ j = k => Old(i) < k
  BY <1>1 DEF Indices
<1>. HIDE DEF New, Old
<1>6. \A j \in Indices(t) : t[j] = e => j = k
  BY <1>4 DEF Listed
<1>7. Once(t)
  <2>1. \A i, j \in Indices(t) : i # k /\ j # k /\ t[i] = t[j] => i = j
    BY <1>4, <1>5 DEF Once
  <2>. QED
    BY <1>3, <1>6, <2>1 DEF Once
<1>8. \A a : Listed(t, a) <=> Listed(s, a) \/ a = e
  <2>1. ASSUME NEW a, Listed(t, a) PROVE Listed(s, a) \/ a = e
    BY <1>3, <1>4, <2>1 DEF Listed
  <2>2. ASSUME NEW a, Listed(s, a) \/ a = e PROVE Listed(t, a)
    BY <1>2, <1>3, <2>2 DEF Listed
  <2>. QED
    BY <2>1, <2>2
<1>9. ASSUME NEW i \in Indices(t), NEW j \in Indices(t), i < j
      PROVE  \/ \E x, y \in Indices(s) : x < y /\ t[i] = s[x] /\ t[j] = s[y]
             \/ \E x \in Indices(s) : x < k /\ t[i] = s[x] /\ t[j] = e
             \/ \E y \in Indices(s) : k <= y /\ t[i] = e /\ t[j] = s[y]
  <2>1. CASE i = k
    BY <1>3, <1>4, <1>5, <1>9, <2>1 DEF Indices
  <2>2. CASE j = k
    BY <1>3, <1>4, <1>5, <1>9, <2>2 DEF Indices
  <2>3. CASE i # k /\ j # k
    BY <1>4, <1>5, <1>9, <2>3
  <2>. QED
    BY <2>1, <2>2, <2>3
<1>10. OrderKept(t, s, k, e)
  BY <1>9 DEF OrderKept
<1>. QED
  BY <1>1, <1>7, <1>8, <1>10

-----------------------------------------------------------------------------
(* Operations made of several of those above.                              *)

\* What the operations below need of the lists to be themselves.
ListsSound(h) ==
    /\ h \in Heaps /\ ListExact(h) /\ Once(h.free)
    /\ \A b \in Addresses : Listed(h.free, b) => b \in DOMAIN h.block /\ ~h.block[b].used

\* g is h with r, the block at index i, merged into l; r was at index j of the free list.
Merged(g, h, l, r, i, j) ==
    /\ g \in Heaps /\ g.list = RemoveAt(h.list, i) /\ g.free = RemoveAt(h.free, j)
    /\ g.region_count = h.region_count
    /\ DOMAIN g.block = DOMAIN h.block \ {r}
    /\ \A a \in DOMAIN g.block :
          /\ g.block[a].used = h.block[a].used
          /\ g.block[a].size = IF a = l THEN h.block[l].size + h.block[r].size + HeaderSize
                               ELSE h.block[a].size

\* MergeTwoBlock merges the block at index i, which the free list has at index j.
LEMMA MergeTwoBlockIs ==
    ASSUME NEW h, ListsSound(h), NEW i \in Indices(h.list), NEW j \in Indices(h.free),
           NEW l \in DOMAIN h.block, NEW r \in DOMAIN h.block, l # r,
           h.list[i] = r, h.free[j] = r
    PROVE  Merged(MergeTwoBlock(h, l, r), h, l, r, i, j)
<1>. DEFINE h1 == RemoveFromFreeList(h, r)
            h2 == RemoveFromBlockList(h1, r)
            n == h2.block[l].size + h.block[r].size + HeaderSize
            g == SplitShrink(h2, l, n)
<1>0. h \in Heaps /\ Once(h.free) /\ Once(h.list)
  BY DEF ListsSound, ListExact
<1>1. MergeTwoBlock(h, l, r) = g
  BY DEF MergeTwoBlock, SplitShrink
<1>2. Marked(h1, h, r, TRUE) /\ h1.free = RemoveAt(h.free, j)
  BY <1>0, RemoveFromFreeListIs
<1>. HIDE DEF h1
<1>3. h1 \in Heaps /\ h1.list = h.list
  BY <1>2 DEF Marked
<1>4. Dropped(h2, h1, r, i)
  BY <1>0, <1>3, RemoveFromBlockListIs
<1>. HIDE DEF h2
<1>5. /\ h2 \in Heaps /\ DOMAIN h2.block = DOMAIN h.block \ {r}
      /\ \A a \in DOMAIN h2.block : /\ h2.block[a].used = h.block[a].used
                                    /\ h2.block[a].size = h.block[a].size
  BY <1>2, <1>4 DEF Marked, Dropped
<1>6. l \in DOMAIN h2.block /\ n = h.block[l].size + h.block[r].size + HeaderSize
  BY <1>5
<1>7. n \in Nat \ {0}
  <2>1. h.block[l].size \in Nat \ {0} /\ h.block[r].size \in Nat \ {0}
    BY <1>0, HeapFields
  <2>2. HeaderSize \in Nat \ {0}
    BY AllocatorAssumption
  <2>. QED
    BY <1>6, <2>1, <2>2
<1>. HIDE DEF n
<1>8. Resized(g, h2, l, n)
  BY <1>5, <1>6, <1>7, SplitShrinkIs
<1>. HIDE DEF g
<1>9. /\ g.list = RemoveAt(h.list, i) /\ g.free = RemoveAt(h.free, j)
      /\ g.region_count = h.region_count
  BY <1>2, <1>4, <1>8 DEF Marked, Dropped, Resized
<1>. QED
  BY <1>1, <1>5, <1>6, <1>8, <1>9 DEF Merged, Resized

\* g is h with r cut off from b, which keeps n bytes and is at index i; r is unused
\* and in no free list yet.
Cut(h, b, n) == SplitShrink(SplitLink(h, b, n), b, n)
CutOff(g, h, b, n, i) ==
    LET r == Remainder(b, n)
    IN  /\ g \in Heaps /\ g.list = InsertAt(h.list, i + 1, r) /\ g.free = h.free
        /\ g.region_count = h.region_count
        /\ DOMAIN g.block = DOMAIN h.block \cup {r} /\ r \notin DOMAIN h.block
        /\ \A a \in DOMAIN h.block :
              /\ g.block[a].used = h.block[a].used
              /\ g.block[a].size = IF a = b THEN n ELSE h.block[a].size
        /\ ~g.block[r].used
        /\ g.block[r].size = h.block[b].size - n - HeaderSize
        /\ g.block[r].size \in Nat /\ g.block[r].size >= MinData

\* SplitBlock links what it cuts off behind the block it cuts.
LEMMA SplitLinkIs ==
    ASSUME NEW h \in Heaps, Once(h.list), NEW i \in Indices(h.list), NEW b \in DOMAIN h.block,
           h.list[i] = b, NEW n \in Nat \ {0}, Splits(h, b, n),
           Remainder(b, n) \notin DOMAIN h.block
    PROVE  LET g == SplitLink(h, b, n)
           IN  /\ Added(g, h, Remainder(b, n), h.block[b].size - n - HeaderSize, i + 1)
               /\ g.region_count = h.region_count
<1>. DEFINE r == Remainder(b, n)
            size == h.block[b].size - n - HeaderSize
            f == AddAt(h, r, size, i + 1, h.region_count)
            g == SplitLink(h, b, n)
<1>1. HeaderSize \in Nat \ {0} /\ MinData \in Nat \ {0}
  BY AllocatorAssumption
<1>2. h.list \in Seq(Addresses) /\ h.region_count \in Int /\ h.block[b].size \in Nat \ {0}
      /\ b \in Addresses
  BY HeapFields
<1>3. r \in Addresses
  BY <1>1, <1>2, AddressIs DEF Remainder, Addresses
<1>4. size \in Nat \ {0} /\ size >= MinData
  BY SMTT(30), <1>1, <1>2 DEF Splits
<1>5. Position(h, b) = i
  BY <1>2, PositionIs
<1>6. i + 1 \in 1 .. Len(h.list) + 1
  BY <1>2 DEF Indices
<1>7. Added(f, h, r, size, i + 1) /\ f.region_count = h.region_count
  <2>. DEFINE j == i + 1
  <2>1. j \in 1 .. Len(h.list) + 1 /\ r \notin DOMAIN h.block
    BY <1>6
  <2>. HIDE DEF j, r, size
  <2>2. /\ Added(AddAt(h, r, size, j, h.region_count), h, r, size, j)
        /\ AddAt(h, r, size, j, h.region_count).region_count = h.region_count
    BY <1>2, <1>3, <1>4, <2>1, AddedIs
  <2>. QED
    BY <2>2 DEF j
<1>8. g = f
  <2>1. h = [block |-> h.block, list |-> h.list, free |-> h.free,
             region_count |-> h.region_count]
    BY HeapRecord
  <2>. QED
    BY <1>5, <2>1 DEF SplitLink, AddAt, AddHeader
<1>. QED
  BY <1>7, <1>8

\* Cut cuts off the remainder.
LEMMA CutIs ==
    ASSUME NEW h \in Heaps, Once(h.list), NEW i \in Indices(h.list), NEW b \in DOMAIN h.block,
           h.list[i] = b, NEW n \in Nat \ {0}, Splits(h, b, n),
           Remainder(b, n) \notin DOMAIN h.block
    PROVE  CutOff(Cut(h, b, n), h, b, n, i)
<1>. DEFINE r == Remainder(b, n)
            f == SplitLink(h, b, n)
            size == h.block[b].size - n - HeaderSize
<1>1. Added(f, h, r, size, i + 1) /\ f.region_count = h.region_count
  BY SplitLinkIs
<1>2. size \in Nat /\ size >= MinData
  <2>1. h.block[b].size \in Nat \ {0} /\ HeaderSize \in Nat \ {0} /\ MinData \in Nat \ {0}
    BY HeapFields, AllocatorAssumption
  <2>. QED
    BY <2>1 DEF Splits
<1>. HIDE DEF f, r, size
<1>3. f \in Heaps /\ b \in DOMAIN f.block /\ b # r
  BY <1>1 DEF Added, r
<1>4. Resized(SplitShrink(f, b, n), f, b, n)
  BY <1>3, SplitShrinkIs
<1>. DEFINE g == SplitShrink(f, b, n)
<1>. HIDE DEF g
<1>5. /\ g \in Heaps /\ g.list = InsertAt(h.list, i + 1, r) /\ g.free = h.free
      /\ g.region_count = h.region_count
      /\ DOMAIN g.block = DOMAIN h.block \cup {r}
  BY <1>1, <1>4 DEF Added, Resized, g
<1>6. \A a \in DOMAIN h.block : /\ g.block[a].used = h.block[a].used
                                /\ g.block[a].size = IF a = b THEN n ELSE h.block[a].size
  BY <1>1, <1>4 DEF Added, Resized, g
<1>7. ~g.block[r].used /\ g.block[r].size = size
  BY <1>1, <1>3, <1>4 DEF Added, Resized, g
<1>8. CutOff(g, h, b, n, i)
  BY <1>2, <1>5, <1>6, <1>7 DEF CutOff, r, size
<1>. QED
  BY <1>8 DEF g, f, Cut

\* g is h with block r put into the free list.
Enlisted(g, h, r) ==
    /\ Marked(g, h, r, FALSE)
    /\ \E k \in 1 .. Len(h.free) + 1 : PlaceFor(h, r, k) /\ g.free = InsertAt(h.free, k, r)

\* SplitBlock shrinks b last; to the free list it makes no difference.
LEMMA EnlistThenShrink ==
    ASSUME NEW h \in Heaps, NEW b \in DOMAIN h.block, NEW r \in DOMAIN h.block, b # r,
           NEW n \in Nat \ {0},
           \A i \in Indices(h.free) : h.free[i] \in DOMAIN h.block /\ h.free[i] # b
    PROVE  Enlisted(SplitShrink(AddToFreeList(h, r), b, n), SplitShrink(h, b, n), r)
<1>. DEFINE f == AddToFreeList(h, r)
            g == SplitShrink(f, b, n)
            c == SplitShrink(h, b, n)
<1>1. /\ Marked(f, h, r, FALSE)
      /\ \E k \in 1 .. Len(h.free) + 1 : PlaceFor(h, r, k) /\ f.free = InsertAt(h.free, k, r)
  BY AddToFreeListIs
<1>2. Resized(c, h, b, n)
  BY SplitShrinkIs
<1>. HIDE DEF f, c
<1>3. f \in Heaps /\ b \in DOMAIN f.block
  BY <1>1 DEF Marked
<1>4. Resized(g, f, b, n)
  BY <1>3, SplitShrinkIs
<1>. HIDE DEF g
<1>5. Marked(g, c, r, FALSE)
  <2>1. /\ g \in Heaps /\ g.list = c.list /\ g.region_count = c.region_count
        /\ DOMAIN g.block = DOMAIN h.block /\ DOMAIN c.block = DOMAIN h.block
    BY <1>1, <1>2, <1>4 DEF Marked, Resized
  <2>2. \A a \in DOMAIN h.block : g.block[a].size = c.block[a].size
    BY <1>1, <1>2, <1>4 DEF Marked, Resized
  <2>3. \A a \in DOMAIN h.block : g.block[a].used = f.block[a].used
    BY <1>1, <1>4 DEF Marked, Resized
  <2>4. \A a \in DOMAIN h.block : f.block[a].used = IF a = r THEN FALSE ELSE h.block[a].used
    BY <1>1 DEF Marked
  <2>5. \A a \in DOMAIN h.block : c.block[a].used = h.block[a].used
    BY <1>2 DEF Resized
  <2>. QED
    BY <2>1, <2>2, <2>3, <2>4, <2>5 DEF Marked
<1>6. PICK k \in 1 .. Len(h.free) + 1 : PlaceFor(h, r, k) /\ f.free = InsertAt(h.free, k, r)
  BY <1>1
<1>7. c.free = h.free /\ g.free = f.free
  BY <1>2, <1>4 DEF Resized
<1>8. PlaceFor(c, r, k)
  <2>1. \A i \in Indices(h.free) : c.block[h.free[i]].size = h.block[h.free[i]].size
    BY <1>2 DEF Resized
  <2>2. c.block[r].size = h.block[r].size
    BY <1>2 DEF Resized
  <2>. QED
    BY <1>6, <1>7, <2>1, <2>2 DEF PlaceFor
<1>. QED
  BY <1>5, <1>6, <1>7, <1>8 DEF Enlisted, f, g, c

\* AddToFreeList puts the block into the free list.
LEMMA EnlistedIs ==
    ASSUME NEW h \in Heaps, NEW b \in DOMAIN h.block,
           \A i \in Indices(h.free) : h.free[i] \in DOMAIN h.block
    PROVE  Enlisted(AddToFreeList(h, b), h, b)
BY AddToFreeListIs DEF Enlisted

-----------------------------------------------------------------------------
(* Tiled: the block list and the addresses in it.                          *)

\* Tiled says nothing of who is used and of the free list.
LEMMA SameTiles ==
    ASSUME NEW h, NEW g, Tiled(h), g.list = h.list, g.region_count = h.region_count,
           DOMAIN g.block = DOMAIN h.block,
           \A a \in DOMAIN h.block : g.block[a].size = h.block[a].size,
           h.list \in Seq(Addresses)
    PROVE  Tiled(g) /\ (NodesFit(h) => NodesFit(g))
<1>1. \A i \in Indices(h.list) : h.list[i] \in DOMAIN h.block
  BY DEF Tiled, ListExact, Listed, Indices
<1>2. \A i \in Indices(h.list) : /\ End(g, h.list[i]) = End(h, h.list[i])
                                 /\ g.block[h.list[i]].size = h.block[h.list[i]].size
  BY <1>1 DEF End
<1>3. ListExact(g) /\ Together(g) /\ Headed(g)
  BY DEF Tiled, ListExact, Together, Headed, Heads
<1>4. EndToEnd(g)
  BY <1>2 DEF Tiled, EndToEnd, Indices
<1>5. InOrder(g)
  BY <1>2 DEF Tiled, InOrder
<1>6. NodesFit(h) => NodesFit(g)
  BY <1>2 DEF NodesFit
<1>. QED
  BY <1>3, <1>4, <1>5, <1>6 DEF Tiled

\* The numbers and blocks found along the block list.
LEMMA ListFacts ==
    ASSUME NEW h \in Heaps, ListExact(h)
    PROVE  /\ h.list \in Seq(Addresses) /\ Len(h.list) \in Nat
           /\ \A i \in Indices(h.list) :
                 /\ h.list[i] \in DOMAIN h.block /\ h.list[i] \in Addresses
                 /\ Offset(h.list[i]) \in Nat
                 /\ h.block[h.list[i]].size \in Nat \ {0}
                 /\ End(h, h.list[i]) \in Nat /\ End(h, h.list[i]) > Offset(h.list[i])
           /\ \A b \in DOMAIN h.block : \E i \in Indices(h.list) : h.list[i] = b
           /\ HeaderSize \in Nat \ {0}
<1>1. HeaderSize \in Nat \ {0}
  BY AllocatorAssumption
<1>2. /\ h.list \in Seq(Addresses) /\ Len(h.list) \in Nat /\ DOMAIN h.block \subseteq Addresses
      /\ \A b \in DOMAIN h.block : h.block[b].size \in Nat \ {0}
  BY HeapFields
<1>3. \A i \in Indices(h.list) : h.list[i] \in Addresses /\ h.list[i] \in DOMAIN h.block
  BY <1>2 DEF ListExact, Listed, Indices
<1>4. \A b \in DOMAIN h.block : \E i \in Indices(h.list) : h.list[i] = b
  BY <1>2 DEF ListExact, Listed
<1>5. \A b \in DOMAIN h.block : Offset(b) \in Nat
  BY <1>2, AddressIs
<1>6. \A b \in DOMAIN h.block : End(h, b) \in Nat /\ End(h, b) > Offset(b)
  BY <1>1, <1>2, <1>5 DEF End
<1>. QED
  BY <1>1, <1>2, <1>3, <1>4, <1>5, <1>6

\* t is s with e inserted behind index i, told by the indices of the elements.
InsertedAfter(t, s, i, e) ==
    /\ Len(t) = Len(s) + 1 /\ Len(s) \in Nat /\ i \in 1 .. Len(s)
    /\ i \in Indices(t) /\ i + 1 \in Indices(t) /\ t[i + 1] = e
    /\ \A x \in Indices(t) : x <= i => x \in Indices(s) /\ t[x] = s[x]
    /\ \A x \in Indices(t) : x > i + 1 => x - 1 \in Indices(s) /\ t[x] = s[x - 1]

\* InsertAt behind index i, told that way.
LEMMA InsertAfterIs ==
    ASSUME NEW S, NEW s \in Seq(S), NEW i \in Indices(s), NEW e \in S
    PROVE  InsertedAfter(InsertAt(s, i + 1, e), s, i, e)
<1>. DEFINE k == i + 1
            t == InsertAt(s, k, e)
<1>1. Len(s) \in Nat /\ i \in 1 .. Len(s) /\ k \in 1 .. Len(s) + 1
  BY DEF Indices
<1>. HIDE DEF k
<1>2. /\ Len(t) = Len(s) + 1
      /\ \A j \in 1 .. Len(s) + 1 :
            t[j] = IF j < k THEN s[j] ELSE IF j = k THEN e ELSE s[j - 1]
  <2>1. PutIn(t, s, k, e)
    BY <1>1, InsertAtPutsIn
  <2>. QED
    BY <2>1 DEF PutIn
<1>. HIDE DEF t
<1>3. InsertedAfter(t, s, i, e)
  <2>1. k = i + 1
    BY DEF k
  <2>2. i \in Indices(t) /\ i + 1 \in Indices(t) /\ t[i + 1] = e
    BY <1>1, <1>2, <2>1 DEF Indices
  <2>3. \A x \in Indices(t) : x <= i => x \in Indices(s) /\ t[x] = s[x]
    BY <1>1, <1>2, <2>1 DEF Indices
  <2>4. \A x \in Indices(t) : x > i + 1 => x - 1 \in Indices(s) /\ t[x] = s[x - 1]
    BY <1>1, <1>2, <2>1 DEF Indices
  <2>. QED
    BY <1>1, <1>2, <2>2, <2>3, <2>4 DEF InsertedAfter
<1>. QED
  BY <1>3 DEF t, k

\* Where a split puts the new block there is none.
LEMMA RemainderIsNew ==
    ASSUME NEW h \in Heaps, Tiled(h), NEW b \in DOMAIN h.block, NEW n \in Nat \ {0},
           Splits(h, b, n)
    PROVE  Remainder(b, n) \notin DOMAIN h.block
<1>. DEFINE r == Remainder(b, n)
<1>1. Region(r) = Region(b) /\ Offset(r) = Offset(b) + HeaderSize + n
  BY DEF Remainder, Region, Offset
<1>. HIDE DEF r
<1>. SUFFICES ASSUME r \in DOMAIN h.block PROVE FALSE
  BY DEF r
<1>2. /\ HeaderSize \in Nat \ {0} /\ MinData \in Nat \ {0}
      /\ h.block[b].size \in Nat /\ Offset(b) \in Nat /\ b \in Addresses
  BY HeapFields, AddressIs, AllocatorAssumption
<1>3. PICK i \in Indices(h.list) : h.list[i] = b
  BY ListFacts DEF Tiled
<1>4. PICK j \in Indices(h.list) : h.list[j] = r
  BY ListFacts DEF Tiled
<1>5. i # j
  BY <1>1, <1>2, <1>3, <1>4
<1>6. i \in Int /\ j \in Int
  BY DEF Indices
<1>7. CASE i < j
  <2>1. End(h, b) <= Offset(r)
    BY <1>1, <1>3, <1>4, <1>7 DEF Tiled, InOrder
  <2>. QED
    BY <1>1, <1>2, <2>1 DEF End, Splits
<1>8. CASE j < i
  <2>1. End(h, r) <= Offset(b)
    BY <1>1, <1>3, <1>4, <1>8 DEF Tiled, InOrder
  <2>2. End(h, r) > Offset(r) /\ End(h, r) \in Nat
    BY <1>4, ListFacts DEF Tiled
  <2>. QED
    BY <1>1, <1>2, <2>1, <2>2
<1>. QED
  BY <1>5, <1>6, <1>7, <1>8

\* Cutting a block in two keeps its region tiled.
LEMMA CutTiled ==
    ASSUME NEW h \in Heaps, Tiled(h), NodesFit(h), NEW i \in Indices(h.list),
           NEW b \in DOMAIN h.block, h.list[i] = b, NEW n \in Nat \ {0}, Splits(h, b, n),
           NEW g, CutOff(g, h, b, n, i)
    PROVE  Tiled(g) /\ NodesFit(g)
<1>. DEFINE r == Remainder(b, n)
<1>1. /\ Region(r) = Region(b) /\ Offset(r) = Offset(b) + HeaderSize + n
      /\ HeaderSize \in Nat \ {0} /\ MinData \in Nat \ {0} /\ NodeSize \in Nat
      /\ NodeSize <= MinData
  BY AllocatorAssumption DEF Remainder, Region, Offset
<1>2. /\ h.list \in Seq(Addresses) /\ Offset(b) \in Nat /\ h.block[b].size \in Nat
      /\ h.block[b].size - n >= HeaderSize
  <2>1. h.list \in Seq(Addresses) /\ b \in Addresses /\ h.block[b].size \in Nat
    BY HeapFields
  <2>. QED
    BY <1>1, <2>1, AddressIs DEF Splits
<1>3. /\ r \in Addresses /\ r \notin DOMAIN h.block /\ g \in Heaps
      /\ g.list = InsertAt(h.list, i + 1, r) /\ g.region_count = h.region_count
      /\ DOMAIN g.block = DOMAIN h.block \cup {r}
      /\ \A a \in DOMAIN h.block : g.block[a].size = IF a = b THEN n ELSE h.block[a].size
      /\ g.block[r].size = h.block[b].size - n - HeaderSize
      /\ g.block[r].size \in Nat /\ g.block[r].size >= MinData
  <2>1. r \in DOMAIN g.block /\ g \in Heaps
    BY DEF CutOff
  <2>2. r \in Addresses
    BY <2>1, HeapFields
  <2>. QED
    BY <2>2 DEF CutOff
<1>. HIDE DEF r
<1>4. /\ Len(g.list) = Len(h.list) + 1
      /\ Len(h.list) \in Nat /\ i \in 1 .. Len(h.list)
      /\ i \in Indices(g.list) /\ i + 1 \in Indices(g.list) /\ g.list[i + 1] = r
      /\ \A x \in Indices(g.list) : x <= i => x \in Indices(h.list) /\ g.list[x] = h.list[x]
      /\ \A x \in Indices(g.list) :
            x > i + 1 => x - 1 \in Indices(h.list) /\ g.list[x] = h.list[x - 1]
  <2>1. InsertedAfter(g.list, h.list, i, r)
    BY <1>2, <1>3, InsertAfterIs
  <2>. QED
    BY <2>1 DEF InsertedAfter
<1>5. \A x \in Indices(h.list) : /\ x # i => h.list[x] # b
                                 /\ h.list[x] \in DOMAIN h.block /\ h.list[x] \in Addresses
  BY ListFacts DEF Tiled, ListExact, Once
<1>6. /\ End(g, b) = Offset(r) /\ End(g, r) = End(h, b) /\ Offset(r) > Offset(b)
      /\ Offset(r) \in Nat /\ End(h, b) \in Nat /\ End(g, b) <= End(h, b)
  <2>1. g.block[b].size = n
    BY <1>3
  <2>2. End(g, b) = Offset(b) + HeaderSize + n
    BY <2>1 DEF End
  <2>3. End(g, r) = Offset(b) + HeaderSize + n + HeaderSize + (h.block[b].size - n - HeaderSize)
    BY <1>1, <1>3 DEF End
  <2>4. End(h, b) = Offset(b) + HeaderSize + h.block[b].size
    BY DEF End
  <2>5. n \in Nat \ {0}
    OBVIOUS
  <2>6. End(g, b) = Offset(r) /\ Offset(r) > Offset(b) /\ Offset(r) \in Nat
    BY <1>1, <1>2, <2>2, <2>5
  <2>7. End(g, r) = End(h, b) /\ End(h, b) \in Nat
    BY <1>1, <1>2, <2>3, <2>4, <2>5
  <2>8. End(g, b) <= End(h, b)
    BY <1>1, <1>2, <2>2, <2>4, <2>5
  <2>. QED
    BY <2>6, <2>7, <2>8
<1>7. \A a \in DOMAIN h.block : a # b => End(g, a) = End(h, a) /\ g.block[a].size = h.block[a].size
  BY <1>3 DEF End
<1>8. ListExact(g)
  <2>. DEFINE k == i + 1
  <2>1. Once(h.list) /\ ~Listed(h.list, r) /\ k \in 1 .. Len(h.list) + 1
    BY <1>3, <1>4 DEF Tiled, ListExact
  <2>0. g.list = InsertAt(h.list, k, r)
    BY <1>3
  <2>. HIDE DEF k
  <2>2. /\ Once(g.list)
        /\ \A a : Listed(g.list, a) <=> Listed(h.list, a) \/ a = r
    BY <1>2, <1>3, <2>0, <2>1, InsertKeeps
  <2>. QED
    BY <1>3, <2>2 DEF Tiled, ListExact
<1>9. EndToEnd(g)
  <2>. SUFFICES ASSUME NEW x \in Indices(g.list), Offset(g.list[x]) # 0
                PROVE  /\ x > 1 /\ Region(g.list[x - 1]) = Region(g.list[x])
                       /\ End(g, g.list[x - 1]) = Offset(g.list[x])
    BY DEF EndToEnd
  <2>1. x \in Int /\ x >= 1 /\ i \in Int /\ i >= 1
    BY <1>4 DEF Indices
  <2>2. CASE x <= i
    <3>1. x > 1 /\ Region(h.list[x - 1]) = Region(h.list[x]) /\ End(h, h.list[x - 1]) = Offset(h.list[x])
      BY <1>4, <2>2 DEF Tiled, EndToEnd
    <3>2. x - 1 \in Indices(g.list) /\ x - 1 < i
      BY <2>1, <2>2, <3>1, <1>4 DEF Indices
    <3>3. g.list[x - 1] = h.list[x - 1] /\ End(g, h.list[x - 1]) = End(h, h.list[x - 1])
      BY <1>4, <1>5, <1>7, <3>2, <2>1
    <3>. QED
      BY <1>4, <2>2, <3>1, <3>3
  <2>3. CASE x = i + 1
    <3>1. g.list[x - 1] = b
      BY <1>4, <2>1, <2>3
    <3>. QED
      BY <1>1, <1>4, <1>6, <2>1, <2>3, <3>1
  <2>4. CASE x = i + 2
    <3>1. x - 1 \in Indices(h.list) /\ g.list[x] = h.list[x - 1] /\ x - 1 - 1 = i
      BY SMTT(30), <1>4, <2>1, <2>4
    <3>2. Region(h.list[i]) = Region(h.list[x - 1]) /\ End(h, h.list[i]) = Offset(h.list[x - 1])
      BY <3>1 DEF Tiled, EndToEnd
    <3>3. g.list[x - 1] = r
      BY <1>4, <2>1, <2>4
    <3>. QED
      BY <1>1, <1>6, <2>1, <2>4, <3>1, <3>2, <3>3
  <2>5. CASE x > i + 2
    <3>1. x - 1 \in Indices(h.list) /\ g.list[x] = h.list[x - 1]
      BY <1>4, <2>1, <2>5
    <3>2. Region(h.list[x - 1 - 1]) = Region(h.list[x - 1]) /\ End(h, h.list[x - 1 - 1]) = Offset(h.list[x - 1])
      BY <3>1, <2>1, <2>5 DEF Tiled, EndToEnd
    <3>3. x - 1 \in Indices(g.list) /\ x - 1 > i + 1 /\ x - 1 - 1 # i
      BY <2>1, <2>5, <3>1, <1>4 DEF Indices
    <3>4. x - 1 - 1 \in Indices(h.list) /\ g.list[x - 1] = h.list[x - 1 - 1]
      BY <1>4, <3>3
    <3>5. End(g, h.list[x - 1 - 1]) = End(h, h.list[x - 1 - 1])
      BY <1>5, <1>7, <3>3, <3>4
    <3>. QED
      BY <2>1, <2>5, <3>1, <3>2, <3>4, <3>5
  <2>. QED
    BY <2>1, <2>2, <2>3, <2>4, <2>5
<1>10. InOrder(g)
  <2>. SUFFICES ASSUME NEW x \in Indices(g.list), NEW y \in Indices(g.list), x < y,
                       Region(g.list[x]) = Region(g.list[y])
                PROVE  End(g, g.list[x]) <= Offset(g.list[y])
    BY DEF InOrder
  <2>1. x \in Int /\ y \in Int /\ i \in Int
    BY <1>4 DEF Indices
  <2>2. \A u, v \in Indices(h.list) : u < v /\ Region(h.list[u]) = Region(h.list[v])
                                      => End(h, h.list[u]) <= Offset(h.list[v])
    BY DEF Tiled, InOrder
  <2>3. \A u \in Indices(h.list) : Offset(h.list[u]) \in Nat /\ End(h, h.list[u]) \in Nat
    BY ListFacts DEF Tiled
  <2>4. ASSUME NEW u \in Indices(h.list)
        PROVE  End(g, h.list[u]) \in Int /\ End(g, h.list[u]) <= End(h, h.list[u])
    <3>1. CASE u = i
      BY <1>6, <3>1
    <3>2. CASE u # i
      BY <1>5, <1>7, <2>3, <3>2
    <3>. QED
      BY <3>1, <3>2
  <2>5. CASE x = i + 1
    <3>1. y - 1 \in Indices(h.list) /\ g.list[y] = h.list[y - 1] /\ i < y - 1 /\ g.list[x] = r
      BY <1>4, <2>1, <2>5
    <3>2. End(h, b) <= Offset(h.list[y - 1])
      BY <1>1, <2>2, <3>1
    <3>. QED
      BY <1>6, <3>1, <3>2
  <2>6. CASE y = i + 1
    <3>1. x \in Indices(h.list) /\ g.list[x] = h.list[x] /\ x <= i /\ g.list[y] = r
      BY <1>4, <2>1, <2>6
    <3>2. CASE x = i
      BY <1>6, <3>1, <3>2
    <3>3. CASE x < i
      <4>1. End(h, h.list[x]) <= Offset(b)
        BY <1>1, <2>2, <3>1, <3>3
      <4>. QED
        BY <1>2, <1>6, <2>3, <2>4, <3>1, <4>1
    <3>. QED
      BY <2>1, <3>1, <3>2, <3>3
  <2>7. CASE x # i + 1 /\ y # i + 1
    <3>1. PICK u \in Indices(h.list), v \in Indices(h.list) :
             u < v /\ g.list[x] = h.list[u] /\ g.list[y] = h.list[v]
      <4>1. CASE y <= i
        <5>1. x \in Indices(h.list) /\ y \in Indices(h.list) /\ x <= i
          BY <1>4, <2>1, <4>1
        <5>. QED
          BY <1>4, <4>1, <5>1
      <4>2. CASE x <= i /\ y > i + 1
        <5>1. x \in Indices(h.list) /\ y - 1 \in Indices(h.list) /\ x < y - 1
          BY <1>4, <2>1, <4>2
        <5>. QED
          BY <1>4, <4>2, <5>1
      <4>3. CASE x > i + 1
        <5>1. x - 1 \in Indices(h.list) /\ y - 1 \in Indices(h.list) /\ x - 1 < y - 1 /\ y > i + 1
          BY <1>4, <2>1, <4>3
        <5>. QED
          BY <1>4, <4>3, <5>1
      <4>. QED
        BY <2>1, <2>7, <4>1, <4>2, <4>3
    <3>2. End(h, h.list[u]) <= Offset(h.list[v])
      BY <2>2, <3>1
    <3>. QED
      BY <2>3, <2>4, <3>1, <3>2
  <2>. QED
    BY <2>5, <2>6, <2>7
<1>11. Together(g)
  <2>. SUFFICES ASSUME NEW x \in Indices(g.list), NEW y \in Indices(g.list),
                       NEW z \in Indices(g.list), x < y, y < z,
                       Region(g.list[x]) = Region(g.list[z])
                PROVE  Region(g.list[y]) = Region(g.list[x])
    BY DEF Together
  <2>. DEFINE Old(u) == IF u <= i THEN u ELSE u - 1
  <2>1. x \in Int /\ y \in Int /\ z \in Int /\ i \in Int
    BY <1>4 DEF Indices
  <2>2. \A u \in Indices(g.list) : /\ Old(u) \in Indices(h.list)
                                   /\ Region(g.list[u]) = Region(h.list[Old(u)])
    <3>. SUFFICES ASSUME NEW u \in Indices(g.list)
                  PROVE  /\ Old(u) \in Indices(h.list)
                         /\ Region(g.list[u]) = Region(h.list[Old(u)])
      OBVIOUS
    <3>1. u \in Int
      BY DEF Indices
    <3>2. CASE u <= i
      BY <1>4, <3>2
    <3>3. CASE u = i + 1
      <4>1. Old(u) = i /\ g.list[u] = r
        BY <1>4, <2>1, <3>3
      <4>2. Region(r) = Region(h.list[i])
        BY <1>1
      <4>. QED
        BY <4>1, <4>2
    <3>4. CASE u > i + 1
      BY <1>4, <2>1, <3>1, <3>4
    <3>. QED
      BY <2>1, <3>1, <3>2, <3>3, <3>4
  <2>3. /\ Old(x) \in Int /\ Old(y) \in Int /\ Old(z) \in Int
        /\ Old(x) <= Old(y) /\ Old(y) <= Old(z)
    BY <2>1
  <2>. HIDE DEF Old
  <2>4. CASE Old(x) < Old(y) /\ Old(y) < Old(z)
    BY <2>2, <2>4 DEF Tiled, Together
  <2>5. CASE Old(x) = Old(y) \/ Old(y) = Old(z)
    BY <2>2, <2>5
  <2>. QED
    BY <2>3, <2>4, <2>5
<1>12. Headed(g)
  <2>1. Offset(r) # 0 /\ b \in DOMAIN h.block
    BY <1>1, <1>2
  <2>2. Heads(g) = Heads(h)
    BY <1>3, <2>1 DEF Heads
  <2>3. \A a \in DOMAIN g.block : <<Region(a), 0>> \in DOMAIN g.block
    BY <1>1, <1>3, <2>1 DEF Tiled, Headed
  <2>. QED
    BY <1>3, <2>2, <2>3 DEF Tiled, Headed
<1>13. NodesFit(g)
  <2>. SUFFICES ASSUME NEW x \in Indices(g.list)
                PROVE  \/ g.block[g.list[x]].size >= NodeSize
                       \/ x < Len(g.list) /\ Region(g.list[x + 1]) = Region(g.list[x])
    BY DEF NodesFit
  <2>1. x \in Int /\ i \in Int
    BY <1>4 DEF Indices
  <2>2. CASE x < i
    <3>1. x \in Indices(h.list) /\ g.list[x] = h.list[x] /\ x # i
      BY <1>4, <2>1, <2>2
    <3>2. g.block[h.list[x]].size = h.block[h.list[x]].size
      BY <1>5, <1>7, <3>1
    <3>3. x + 1 <= i /\ x + 1 \in Indices(g.list) /\ x < Len(g.list) /\ x < Len(h.list)
      BY <1>4, <2>1, <2>2 DEF Indices
    <3>4. g.list[x + 1] = h.list[x + 1]
      BY <1>4, <3>3
    <3>. QED
      BY <3>1, <3>2, <3>3, <3>4 DEF NodesFit
  <2>3. CASE x = i
    BY <1>1, <1>4, <2>3
  <2>4. CASE x = i + 1
    BY <1>1, <1>3, <1>4, <2>4
  <2>5. CASE x > i + 1
    <3>1. /\ x - 1 \in Indices(h.list) /\ g.list[x] = h.list[x - 1] /\ x - 1 # i
          /\ g.block[h.list[x - 1]].size = h.block[h.list[x - 1]].size
      BY SMTT(30), <1>4, <1>5, <1>7, <2>1, <2>5
    <3>2. CASE h.block[h.list[x - 1]].size >= NodeSize
      BY <3>1, <3>2
    <3>3. CASE x - 1 < Len(h.list) /\ Region(h.list[x - 1 + 1]) = Region(h.list[x - 1])
      <4>1. x + 1 \in Indices(g.list) /\ x + 1 > i + 1 /\ x + 1 - 1 = x /\ x - 1 + 1 = x
        BY <1>4, <2>1, <2>5, <3>3 DEF Indices
      <4>2. g.list[x + 1] = h.list[x]
        BY <1>4, <4>1
      <4>. QED
        BY <1>4, <2>1, <3>1, <3>3, <4>1, <4>2
    <3>. QED
      BY <3>1, <3>2, <3>3 DEF NodesFit
  <2>. QED
    BY <2>1, <2>2, <2>3, <2>4, <2>5
<1>. QED
  BY <1>8, <1>9, <1>10, <1>11, <1>12, <1>13 DEF Tiled

\* t is s without the element at index k, told by the indices of the elements.
RemovedAt(t, s, k) ==
    /\ Len(t) = Len(s) - 1 /\ Len(s) \in Nat /\ k \in 1 .. Len(s)
    /\ \A x \in Indices(t) : x < k => x \in Indices(s) /\ t[x] = s[x]
    /\ \A x \in Indices(t) : x >= k => x + 1 \in Indices(s) /\ t[x] = s[x + 1]

\* RemoveAt, told that way.
LEMMA RemovedAtIs ==
    ASSUME NEW S, NEW s \in Seq(S), NEW k \in Indices(s)
    PROVE  RemovedAt(RemoveAt(s, k), s, k)
<1>. DEFINE t == RemoveAt(s, k)
<1>1. Len(s) \in Nat /\ k \in 1 .. Len(s)
  BY DEF Indices
<1>2. /\ Len(t) = Len(s) - 1
      /\ \A j \in 1 .. Len(s) - 1 : t[j] = IF j < k THEN s[j] ELSE s[j + 1]
  BY RemoveAtIs
<1>. HIDE DEF t
<1>3. \A x \in Indices(t) : x < k => x \in Indices(s) /\ t[x] = s[x]
  BY <1>1, <1>2 DEF Indices
<1>4. \A x \in Indices(t) : x >= k => x + 1 \in Indices(s) /\ t[x] = s[x + 1]
  BY <1>1, <1>2 DEF Indices
<1>5. RemovedAt(t, s, k)
  BY <1>1, <1>2, <1>3, <1>4 DEF RemovedAt
<1>. QED
  BY <1>5 DEF t

\* Merging a block into its left neighbour keeps their region tiled.
LEMMA MergeTiled ==
    ASSUME NEW h \in Heaps, Tiled(h), NodesFit(h), NEW i \in Indices(h.list),
           i < Len(h.list), NEW l, NEW r, h.list[i] = l, h.list[i + 1] = r,
           Region(l) = Region(r), NEW g, NEW j, Merged(g, h, l, r, i + 1, j)
    PROVE  Tiled(g) /\ NodesFit(g)
<1>. DEFINE k == i + 1
<1>0. /\ h.list \in Seq(Addresses) /\ Len(h.list) \in Nat
      /\ i \in Int /\ 1 <= i /\ k \in Indices(h.list) /\ k = i + 1
      /\ h.list[k] = r /\ Merged(g, h, l, r, k, j)
  BY ListFacts DEF Tiled, Indices
<1>. HIDE DEF k
<1>1. \A x \in Indices(h.list) :
         /\ h.list[x] \in DOMAIN h.block /\ Offset(h.list[x]) \in Nat
         /\ h.block[h.list[x]].size \in Nat
         /\ End(h, h.list[x]) \in Nat /\ End(h, h.list[x]) > Offset(h.list[x])
         /\ x # i => h.list[x] # l
         /\ x # k => h.list[x] # r
  BY <1>0, ListFacts DEF Tiled, ListExact, Once
<1>2. /\ HeaderSize \in Nat /\ NodeSize \in Nat /\ HeaderSize > NodeSize
  <2>1. /\ HeaderSize \in Nat /\ NodeSize \in Nat /\ MinData \in Nat /\ NameSize \in Nat
        /\ NodeSize <= MinData /\ MinData <= NameSize /\ NameSize < HeaderSize
    BY AllocatorAssumption
  <2>. QED
    BY <2>1
<1>3. Offset(r) # 0 /\ End(h, l) = Offset(r)
  <2>1. /\ End(h, l) <= Offset(r) /\ End(h, l) > Offset(l)
        /\ Offset(l) \in Nat /\ Offset(r) \in Nat /\ End(h, l) \in Nat
    BY <1>0, <1>1 DEF Tiled, InOrder
  <2>2. Offset(r) # 0
    BY <2>1
  <2>3. k - 1 = i
    BY <1>0
  <2>. QED
    BY <1>0, <2>2, <2>3 DEF Tiled, EndToEnd
<1>4. /\ g \in Heaps /\ g.list = RemoveAt(h.list, k) /\ g.region_count = h.region_count
      /\ DOMAIN g.block = DOMAIN h.block \ {r} /\ l \in DOMAIN g.block
      /\ g.block[l].size = h.block[l].size + h.block[r].size + HeaderSize
      /\ \A a \in DOMAIN g.block : a # l => g.block[a].size = h.block[a].size
  <2>1. l \in DOMAIN h.block /\ l # r
    BY <1>0, <1>1
  <2>. QED
    BY <1>0, <2>1 DEF Merged
<1>5. /\ Len(g.list) = Len(h.list) - 1
      /\ \A x \in Indices(g.list) : x < k => x \in Indices(h.list) /\ g.list[x] = h.list[x]
      /\ \A x \in Indices(g.list) : x >= k => x + 1 \in Indices(h.list) /\ g.list[x] = h.list[x + 1]
  <2>1. RemovedAt(g.list, h.list, k)
    BY <1>0, <1>4, RemovedAtIs
  <2>. QED
    BY <2>1 DEF RemovedAt
<1>. DEFINE Old(x) == IF x < k THEN x ELSE x + 1
<1>6. \A x \in Indices(g.list) : /\ Old(x) \in Indices(h.list) /\ g.list[x] = h.list[Old(x)]
                                 /\ Old(x) # k /\ Old(x) \in Int
                                 /\ x \in Int /\ x >= 1
  BY <1>0, <1>5 DEF Indices
<1>7. \A x, y \in Indices(g.list) : x < y => Old(x) < Old(y) /\ (x = i => k < Old(y))
  BY <1>0, <1>6
<1>8. \A x \in Indices(g.list) : Old(x) = i <=> x = i
  BY <1>0, <1>6
<1>9. End(g, l) = End(h, r) /\ End(h, r) \in Nat
  <2>1. /\ h.block[l].size \in Nat /\ h.block[r].size \in Nat /\ Offset(l) \in Nat
        /\ End(h, r) \in Nat
    BY <1>0, <1>1
  <2>2. Offset(l) + HeaderSize + h.block[l].size = Offset(r)
    BY <1>3 DEF End
  <2>3. /\ End(g, l) = Offset(l) + HeaderSize + (h.block[l].size + h.block[r].size + HeaderSize)
        /\ End(h, r) = Offset(r) + HeaderSize + h.block[r].size
    BY <1>4 DEF End
  <2>. QED
    BY <1>2, <2>1, <2>2, <2>3
<1>10. \A x \in Indices(g.list) : x # i => /\ End(g, g.list[x]) = End(h, h.list[Old(x)])
                                           /\ g.block[g.list[x]].size = h.block[h.list[Old(x)]].size
  <2>. SUFFICES ASSUME NEW x \in Indices(g.list), x # i
                PROVE  /\ End(g, g.list[x]) = End(h, h.list[Old(x)])
                       /\ g.block[g.list[x]].size = h.block[h.list[Old(x)]].size
    OBVIOUS
  <2>. DEFINE a == h.list[Old(x)]
  <2>1. a # l /\ a # r /\ a \in DOMAIN h.block /\ g.list[x] = a
    BY <1>1, <1>6, <1>8
  <2>. HIDE DEF a
  <2>2. g.block[a].size = h.block[a].size
    BY <1>4, <2>1
  <2>. QED
    BY <2>1, <2>2 DEF End, a
<1>11. ListExact(g)
  <2>1. /\ Once(g.list)
        /\ \A a : Listed(g.list, a) <=> Listed(h.list, a) /\ a # r
    BY <1>0, <1>4, RemoveKeeps DEF Tiled, ListExact
  <2>. QED
    BY <1>4, <2>1 DEF Tiled, ListExact
<1>12. EndToEnd(g)
  <2>. SUFFICES ASSUME NEW x \in Indices(g.list), Offset(g.list[x]) # 0
                PROVE  /\ x > 1 /\ Region(g.list[x - 1]) = Region(g.list[x])
                       /\ End(g, g.list[x - 1]) = Offset(g.list[x])
    BY DEF EndToEnd
  <2>. DEFINE o == Old(x)
  <2>1. o \in Indices(h.list) /\ g.list[x] = h.list[o] /\ o \in Int /\ x \in Int
    BY <1>6
  <2>2. /\ o > 1 /\ Region(h.list[o - 1]) = Region(h.list[o])
        /\ End(h, h.list[o - 1]) = Offset(h.list[o])
    BY <2>1 DEF Tiled, EndToEnd
  <2>3. CASE x = k
    <3>1. o = k + 1 /\ x - 1 = i /\ o - 1 = k
      BY <1>0, <2>3
    <3>2. x - 1 \in Indices(g.list) /\ g.list[x - 1] = l /\ x > 1
      BY <1>0, <1>5, <2>1, <3>1 DEF Indices
    <3>. HIDE DEF o
    <3>. QED
      BY <1>0, <1>9, <2>1, <2>2, <3>1, <3>2
  <2>4. CASE x # k
    <3>1. x > 1 /\ x - 1 \in Indices(g.list) /\ x - 1 # i /\ Old(x - 1) = o - 1
      BY <1>0, <1>6, <2>1, <2>2, <2>4 DEF Indices
    <3>. HIDE DEF o
    <3>2. g.list[x - 1] = h.list[o - 1] /\ End(g, g.list[x - 1]) = End(h, h.list[o - 1])
      BY <1>6, <1>10, <3>1
    <3>. QED
      BY <2>1, <2>2, <3>1, <3>2
  <2>. QED
    BY <2>3, <2>4
<1>. HIDE DEF Old
<1>13. InOrder(g)
  <2>. SUFFICES ASSUME NEW x \in Indices(g.list), NEW y \in Indices(g.list), x < y,
                       Region(g.list[x]) = Region(g.list[y])
                PROVE  End(g, g.list[x]) <= Offset(g.list[y])
    BY DEF InOrder
  <2>1. CASE x = i
    <3>1. g.list[x] = l /\ k < Old(y)
      BY <1>6, <1>7, <1>8, <2>1
    <3>2. End(h, r) <= Offset(h.list[Old(y)])
      BY <1>0, <1>6, <3>1 DEF Tiled, InOrder
    <3>. QED
      BY <1>6, <1>9, <3>1, <3>2
  <2>2. CASE x # i
    <3>1. End(h, h.list[Old(x)]) <= Offset(h.list[Old(y)])
      BY <1>6, <1>7 DEF Tiled, InOrder
    <3>. QED
      BY <1>6, <1>10, <2>2, <3>1
  <2>. QED
    BY <2>1, <2>2
<1>14. Together(g)
  <2>. SUFFICES ASSUME NEW x \in Indices(g.list), NEW y \in Indices(g.list),
                       NEW z \in Indices(g.list), x < y, y < z,
                       Region(g.list[x]) = Region(g.list[z])
                PROVE  Region(g.list[y]) = Region(g.list[x])
    BY DEF Together
  <2>. QED
    BY SMTT(30), <1>6, <1>7 DEF Tiled, Together
<1>15. Headed(g)
  <2>1. Heads(g) = Heads(h)
    BY <1>3, <1>4 DEF Heads
  <2>2. \A a \in DOMAIN g.block : <<Region(a), 0>> \in DOMAIN g.block
    BY <1>3, <1>4 DEF Tiled, Headed, Offset
  <2>. QED
    BY <1>4, <2>1, <2>2 DEF Tiled, Headed
<1>16. NodesFit(g)
  <2>. SUFFICES ASSUME NEW x \in Indices(g.list)
                PROVE  \/ g.block[g.list[x]].size >= NodeSize
                       \/ x < Len(g.list) /\ Region(g.list[x + 1]) = Region(g.list[x])
    BY DEF NodesFit
  <2>1. CASE x = i
    <3>1. g.list[x] = l
      BY <1>6, <1>8, <2>1
    <3>2. h.block[l].size \in Nat /\ h.block[r].size \in Nat
      BY <1>0, <1>1
    <3>. QED
      BY SMTT(30), <1>2, <1>4, <3>1, <3>2
  <2>2. CASE x # i
    <3>. DEFINE o == Old(x)
    <3>1. o \in Indices(h.list) /\ g.list[x] = h.list[o] /\ o # i /\ o # k /\ x \in Int /\ o \in Int
      BY <1>6, <1>8, <2>2
    <3>2. o < Len(h.list) => x < Len(g.list) /\ g.list[x + 1] = h.list[o + 1]
      <4>. SUFFICES ASSUME o < Len(h.list)
                    PROVE  x < Len(g.list) /\ g.list[x + 1] = h.list[o + 1]
        OBVIOUS
      <4>1. x < Len(g.list) /\ x + 1 \in Indices(g.list) /\ Old(x + 1) = o + 1
        BY <1>0, <1>5, <3>1 DEF Old, Indices
      <4>. QED
        BY <1>6, <4>1
    <3>. HIDE DEF o
    <3>3. \/ h.block[h.list[o]].size >= NodeSize
          \/ o < Len(h.list) /\ Region(h.list[o + 1]) = Region(h.list[o])
      BY <3>1 DEF NodesFit
    <3>4. g.block[g.list[x]].size = h.block[h.list[o]].size
      BY <1>10, <2>2 DEF o
    <3>. QED
      BY <3>1, <3>2, <3>3, <3>4
  <2>. QED
    BY <2>1, <2>2
<1>. QED
  BY <1>11, <1>12, <1>13, <1>14, <1>15, <1>16 DEF Tiled

\* The elements of a sequence without repetition are as many as it is long.
LEMMA OnceCounted ==
    ASSUME NEW S, NEW s \in Seq(S), Once(s)
    PROVE  IsFiniteSet(ToSet(s)) /\ Cardinality(ToSet(s)) = Len(s)
<1>. DEFINE I == 1 .. Len(s)
            T == ToSet(s)
<1>1. Len(s) \in Nat /\ s \in [I -> S] /\ DOMAIN s = I
  BY LenProperties
<1>2. T = {s[i] : i \in I}
  BY <1>1 DEF ToSet
<1>3. s \in Surjection(I, T) /\ s \in Injection(I, T)
  <2>1. s \in [I -> T]
    BY <1>1, <1>2
  <2>2. \A t \in T : \E i \in I : s[i] = t
    BY <1>2
  <2>3. \A i, j \in I : s[i] = s[j] => i = j
    BY DEF Once, Indices
  <2>. HIDE DEF I, T
  <2>. QED
    BY <2>1, <2>2, <2>3 DEF Surjection, Injection, IsInjective
<1>4. IsFiniteSet(I) /\ Cardinality(I) = Len(s)
  BY SMTT(30), <1>1, FS_Interval
<1>. HIDE DEF I, T
<1>5. IsFiniteSet(T) /\ Cardinality(T) = Cardinality(I)
  BY <1>3, <1>4, FS_Surjection
<1>. QED
  BY <1>4, <1>5 DEF T

\* There are finitely many blocks.
LEMMA FiniteBlocks ==
    ASSUME NEW h \in Heaps, ListExact(h)
    PROVE  ToSet(h.list) = DOMAIN h.block /\ IsFiniteSet(DOMAIN h.block)
<1>1. h.list \in Seq(Addresses) /\ DOMAIN h.list = 1 .. Len(h.list) /\ DOMAIN h.block \subseteq Addresses
  BY HeapFields
<1>2. ToSet(h.list) = DOMAIN h.block
  BY <1>1 DEF ListExact, Listed, Indices, ToSet
<1>3. IsFiniteSet(ToSet(h.list))
  BY <1>1, OnceCounted DEF ListExact
<1>. QED
  BY <1>2, <1>3

\* g is h without block b, which was at index i of the block list and at index j of
\* the free list, and with one region less.
Deleted(g, h, b, i, j) ==
    /\ g \in Heaps /\ g.list = RemoveAt(h.list, i) /\ g.free = RemoveAt(h.free, j)
    /\ g.region_count = h.region_count - 1
    /\ DOMAIN g.block = DOMAIN h.block \ {b}
    /\ \A a \in DOMAIN g.block : /\ g.block[a].used = h.block[a].used
                                 /\ g.block[a].size = h.block[a].size

\* DeleteBlock deletes the block at index i, which the free list has at index j.
LEMMA DeleteBlockIs ==
    ASSUME NEW h, ListsSound(h), NEW i \in Indices(h.list), NEW j \in Indices(h.free),
           NEW b \in DOMAIN h.block, h.list[i] = b, h.free[j] = b
    PROVE  Deleted(DeleteBlock(h, b), h, b, i, j)
<1>. DEFINE h1 == RemoveFromFreeList(h, b)
            h2 == RemoveFromBlockList(h1, b)
            g == DeleteBlock(h, b)
<1>0. h \in Heaps /\ Once(h.free) /\ Once(h.list)
  BY DEF ListsSound, ListExact
<1>1. g = [h2 EXCEPT !.region_count = h2.region_count - 1]
  BY DEF DeleteBlock
<1>2. Marked(h1, h, b, TRUE) /\ h1.free = RemoveAt(h.free, j)
  BY <1>0, RemoveFromFreeListIs
<1>. HIDE DEF h1
<1>3. h1 \in Heaps /\ h1.list = h.list
  BY <1>2 DEF Marked
<1>4. Dropped(h2, h1, b, i)
  BY <1>0, <1>3, RemoveFromBlockListIs
<1>. HIDE DEF h2, g
<1>5. h2 \in Heaps
  BY <1>4 DEF Dropped
<1>6. h2 = [block |-> h2.block, list |-> h2.list, free |-> h2.free,
            region_count |-> h2.region_count]
  BY <1>5, HeapRecord
<1>7. /\ g.block = h2.block /\ g.list = h2.list /\ g.free = h2.free
      /\ g.region_count = h2.region_count - 1 /\ g \in Heaps
  <2>1. h2.region_count - 1 \in Int
    BY <1>5, HeapFields
  <2>2. g = [block |-> h2.block, list |-> h2.list, free |-> h2.free,
             region_count |-> h2.region_count - 1]
    BY <1>1, <1>6
  <2>3. g \in Heaps
    BY <1>5, <2>1, <2>2 DEF Heaps
  <2>. QED
    BY <2>2, <2>3
<1>8. Deleted(g, h, b, i, j)
  <2>1. /\ g.list = RemoveAt(h.list, i) /\ g.free = RemoveAt(h.free, j)
        /\ h2.region_count = h.region_count
        /\ DOMAIN h2.block = DOMAIN h.block \ {b}
    BY <1>2, <1>4, <1>7 DEF Marked, Dropped
  <2>2. \A a \in DOMAIN h2.block : /\ h2.block[a].used = h.block[a].used
                                   /\ h2.block[a].size = h.block[a].size
    BY <1>2, <1>4 DEF Marked, Dropped
  <2>. QED
    BY <1>7, <2>1, <2>2 DEF Deleted
<1>. QED
  BY <1>8 DEF g

\* Only b is in its region: nothing comes before it, and the next is of another region.
Alone(h, b, i) == \A x \in Indices(h.list) : x # i => Region(h.list[x]) # Region(b)

\* A block at the start of its region with no neighbour in it is alone there.
LEMMA FreeRegionAlone ==
    ASSUME NEW h \in Heaps, Tiled(h), NEW i \in Indices(h.list), NEW b, h.list[i] = b,
           Offset(b) = 0, i < Len(h.list) => Region(h.list[i + 1]) # Region(b)
    PROVE  Alone(h, b, i)
<1>. SUFFICES ASSUME NEW x \in Indices(h.list), x # i, Region(h.list[x]) = Region(b)
              PROVE  FALSE
  BY DEF Alone
<1>1. x \in Int /\ i \in Int /\ Len(h.list) \in Nat
  BY ListFacts DEF Tiled, Indices
<1>2. CASE x < i
  <2>1. End(h, h.list[x]) <= 0
    BY <1>2 DEF Tiled, InOrder
  <2>2. /\ End(h, h.list[x]) \in Nat /\ Offset(h.list[x]) \in Nat
        /\ End(h, h.list[x]) > Offset(h.list[x])
    BY ListFacts DEF Tiled
  <2>. QED
    BY <2>1, <2>2
<1>3. CASE i < x
  <2>1. i + 1 \in Indices(h.list) /\ i < Len(h.list) /\ i + 1 <= x /\ i < i + 1
    BY <1>1, <1>3 DEF Indices
  <2>. DEFINE k == i + 1
  <2>2. CASE k = x
    BY <2>1, <2>2
  <2>3. CASE k < x
    <3>. HIDE DEF k
    <3>1. k \in Indices(h.list) /\ i < k /\ Region(h.list[k]) # Region(b)
      BY <2>1 DEF k
    <3>. QED
      BY <2>3, <3>1 DEF Tiled, Together
  <2>. QED
    BY <1>1, <2>1, <2>2, <2>3
<1>. QED
  BY <1>1, <1>2, <1>3

\* Unmapping a region that is one unused block.
LEMMA DeleteTiled ==
    ASSUME NEW h \in Heaps, Tiled(h), NodesFit(h), NEW i \in Indices(h.list),
           NEW b, h.list[i] = b, Offset(b) = 0, Alone(h, b, i),
           NEW g, NEW j, Deleted(g, h, b, i, j)
    PROVE  Tiled(g) /\ NodesFit(g)
<1>0. /\ h.list \in Seq(Addresses) /\ Len(h.list) \in Nat /\ i \in Int /\ 1 <= i
  BY ListFacts DEF Tiled, Indices
<1>1. \A x \in Indices(h.list) : /\ h.list[x] \in DOMAIN h.block /\ x \in Int /\ x >= 1
                                 /\ h.list[x] = b => x = i
  BY ListFacts DEF Tiled, ListExact, Once, Indices
<1>2. /\ g \in Heaps /\ g.list = RemoveAt(h.list, i) /\ g.region_count = h.region_count - 1
      /\ DOMAIN g.block = DOMAIN h.block \ {b} /\ b \in DOMAIN h.block
      /\ \A a \in DOMAIN g.block : g.block[a].size = h.block[a].size
  BY <1>1 DEF Deleted
<1>3. /\ Len(g.list) = Len(h.list) - 1
      /\ \A x \in Indices(g.list) : x < i => x \in Indices(h.list) /\ g.list[x] = h.list[x]
      /\ \A x \in Indices(g.list) : x >= i => x + 1 \in Indices(h.list) /\ g.list[x] = h.list[x + 1]
  <2>1. RemovedAt(g.list, h.list, i)
    BY <1>0, <1>2, RemovedAtIs
  <2>. QED
    BY <2>1 DEF RemovedAt
<1>. DEFINE Old(x) == IF x < i THEN x ELSE x + 1
<1>4. \A x \in Indices(g.list) : /\ Old(x) \in Indices(h.list) /\ g.list[x] = h.list[Old(x)]
                                 /\ Old(x) # i /\ Old(x) \in Int
                                 /\ x \in Int /\ x >= 1
  BY <1>0, <1>3 DEF Indices
<1>5. \A x, y \in Indices(g.list) : x < y => Old(x) < Old(y)
  BY <1>0, <1>4
<1>6. \A x \in Indices(g.list) : /\ End(g, g.list[x]) = End(h, h.list[Old(x)])
                                 /\ g.block[g.list[x]].size = h.block[h.list[Old(x)]].size
                                 /\ Region(g.list[x]) # Region(b)
  <2>. SUFFICES ASSUME NEW x \in Indices(g.list)
                PROVE  /\ End(g, g.list[x]) = End(h, h.list[Old(x)])
                       /\ g.block[g.list[x]].size = h.block[h.list[Old(x)]].size
                       /\ Region(g.list[x]) # Region(b)
    OBVIOUS
  <2>. DEFINE a == h.list[Old(x)]
  <2>1. a # b /\ a \in DOMAIN h.block /\ g.list[x] = a /\ Region(a) # Region(b)
    BY <1>1, <1>4 DEF Alone
  <2>. HIDE DEF a
  <2>2. g.block[a].size = h.block[a].size
    BY <1>2, <2>1
  <2>. QED
    BY <2>1, <2>2 DEF End, a
<1>7. ListExact(g)
  <2>1. /\ Once(g.list)
        /\ \A a : Listed(g.list, a) <=> Listed(h.list, a) /\ a # b
    BY <1>0, <1>2, RemoveKeeps DEF Tiled, ListExact
  <2>. QED
    BY <1>2, <2>1 DEF Tiled, ListExact
<1>8. EndToEnd(g)
  <2>. SUFFICES ASSUME NEW x \in Indices(g.list), Offset(g.list[x]) # 0
                PROVE  /\ x > 1 /\ Region(g.list[x - 1]) = Region(g.list[x])
                       /\ End(g, g.list[x - 1]) = Offset(g.list[x])
    BY DEF EndToEnd
  <2>. DEFINE o == Old(x)
  <2>1. o \in Indices(h.list) /\ g.list[x] = h.list[o] /\ o \in Int /\ x \in Int /\ o # i
    BY <1>4
  <2>2. /\ o > 1 /\ Region(h.list[o - 1]) = Region(h.list[o])
        /\ End(h, h.list[o - 1]) = Offset(h.list[o])
    BY <2>1 DEF Tiled, EndToEnd
  <2>3. o - 1 # i
    <3>. HIDE DEF o
    <3>. QED
      BY <1>6, <2>1, <2>2
  <2>4. x > 1 /\ x - 1 \in Indices(g.list) /\ Old(x - 1) = o - 1
    BY <1>0, <1>4, <2>1, <2>2, <2>3 DEF Indices
  <2>. HIDE DEF o
  <2>5. g.list[x - 1] = h.list[o - 1] /\ End(g, g.list[x - 1]) = End(h, h.list[o - 1])
    BY <1>4, <1>6, <2>4
  <2>. QED
    BY <2>1, <2>2, <2>4, <2>5
<1>. HIDE DEF Old
<1>9. InOrder(g)
  BY <1>4, <1>5, <1>6 DEF Tiled, InOrder
<1>10. Together(g)
  BY <1>4, <1>5 DEF Tiled, Together
<1>11. Headed(g)
  <2>1. Heads(g) = Heads(h) \ {b} /\ b \in Heads(h)
    BY <1>2 DEF Heads
  <2>2. IsFiniteSet(Heads(h))
    <3>1. Heads(h) \in SUBSET DOMAIN h.block
      BY DEF Heads
    <3>. QED
      BY <3>1, FiniteBlocks, FS_Subset DEF Tiled
  <2>3. Cardinality(Heads(g)) = Cardinality(Heads(h)) - 1
    BY <2>1, <2>2, FS_RemoveElement
  <2>4. \A a \in DOMAIN g.block : Region(a) # Region(b)
    <3>1. \A a \in DOMAIN h.block : \E x \in Indices(h.list) : h.list[x] = a
      BY ListFacts DEF Tiled
    <3>. QED
      BY <1>2, <3>1 DEF Alone
  <2>5. \A a \in DOMAIN g.block : <<Region(a), 0>> # b
    BY <2>4 DEF Region
  <2>. QED
    BY <1>2, <2>3, <2>5 DEF Tiled, Headed
<1>12. NodesFit(g)
  <2>. SUFFICES ASSUME NEW x \in Indices(g.list)
                PROVE  \/ g.block[g.list[x]].size >= NodeSize
                       \/ x < Len(g.list) /\ Region(g.list[x + 1]) = Region(g.list[x])
    BY DEF NodesFit
  <2>. DEFINE o == Old(x)
  <2>1. o \in Indices(h.list) /\ g.list[x] = h.list[o] /\ o # i /\ x \in Int /\ o \in Int
    BY <1>4
  <2>2. CASE h.block[h.list[o]].size >= NodeSize
    BY <1>6, <2>2
  <2>3. CASE o < Len(h.list) /\ Region(h.list[o + 1]) = Region(h.list[o])
    <3>1. o + 1 # i
      <4>. HIDE DEF o
      <4>. QED
        BY <1>6, <2>1, <2>3
    <3>2. x < Len(g.list) /\ x + 1 \in Indices(g.list) /\ Old(x + 1) = o + 1
      BY <1>0, <1>3, <2>1, <2>3, <3>1 DEF Old, Indices
    <3>. HIDE DEF o
    <3>3. g.list[x + 1] = h.list[o + 1]
      BY <1>4, <3>2
    <3>. QED
      BY <2>1, <2>3, <3>2, <3>3
  <2>. QED
    BY <2>1, <2>2, <2>3 DEF NodesFit
<1>. QED
  BY <1>7, <1>8, <1>9, <1>10, <1>11, <1>12 DEF Tiled

\* g is h with one more region, which is the unused block b at the end of the block list.
NewRegion(g, h, b, size) ==
    /\ Added(g, h, b, size, Len(h.list) + 1) /\ g.list = Append(h.list, b)
    /\ g.region_count = h.region_count + 1

\* NewBlock adds a region at the end of the block list.
LEMMA NewRegionIs ==
    ASSUME NEW h \in Heaps, NEW b \in Addresses, b \notin DOMAIN h.block, NEW size \in Nat \ {0}
    PROVE  NewRegion([AddHeader(h, b, size) EXCEPT !.list = Append(@, b),
                                                   !.region_count = @ + 1], h, b, size)
<1>. DEFINE k == Len(h.list) + 1
            c == h.region_count + 1
            f == AddAt(h, b, size, k, c)
<1>1. h.list \in Seq(Addresses) /\ Len(h.list) \in Nat /\ c \in Int
  BY HeapFields
<1>2. k \in 1 .. Len(h.list) + 1 /\ k = Len(h.list) + 1
  BY <1>1
<1>. HIDE DEF k
<1>3. Append(h.list, b) = InsertAt(h.list, k, b)
  <2>. DEFINE s == Append(h.list, b)
              t == InsertAt(h.list, k, b)
  <2>1. /\ t \in Seq(Addresses) /\ Len(t) = Len(h.list) + 1
        /\ \A j \in 1 .. Len(h.list) + 1 :
              t[j] = IF j < k THEN h.list[j] ELSE IF j = k THEN b ELSE h.list[j - 1]
    <3>1. h.list \in Seq(Addresses) /\ k \in 1 .. Len(h.list) + 1
      BY <1>1, <1>2
    <3>. QED
      BY SMTT(30), <3>1, InsertAtIs
  <2>2. /\ s \in Seq(Addresses) /\ Len(s) = Len(h.list) + 1
        /\ \A j \in 1 .. Len(h.list) : s[j] = h.list[j]
        /\ s[Len(h.list) + 1] = b
    BY <1>1, AppendProperties
  <2>. HIDE DEF s, t
  <2>3. \A j \in 1 .. Len(s) : s[j] = t[j]
    BY <1>1, <1>2, <2>1, <2>2
  <2>. QED
    BY <2>1, <2>2, <2>3, SeqEqual DEF s, t
<1>4. Added(f, h, b, size, k) /\ f.region_count = c
  BY <1>1, <1>2, AddedIs
<1>5. [AddHeader(h, b, size) EXCEPT !.list = Append(@, b), !.region_count = @ + 1] = f
  <2>1. h = [block |-> h.block, list |-> h.list, free |-> h.free,
             region_count |-> h.region_count]
    BY HeapRecord
  <2>. QED
    BY <1>3, <2>1 DEF AddAt, AddHeader
<1>. HIDE DEF f
<1>6. NewRegion(f, h, b, size)
  BY <1>2, <1>3, <1>4 DEF NewRegion, Added
<1>. QED
  BY <1>5, <1>6

\* Mapping a region adds a tiled one.
LEMMA NewRegionTiled ==
    ASSUME NEW h \in Heaps, Tiled(h), NodesFit(h), NEW b \in Addresses, Offset(b) = 0,
           b \notin DOMAIN h.block, NEW size \in Nat, size >= RegionSize,
           NEW g, NewRegion(g, h, b, size)
    PROVE  Tiled(g) /\ NodesFit(g)
<1>. DEFINE k == Len(h.list) + 1
<1>1. /\ h.list \in Seq(Addresses) /\ Len(h.list) \in Nat
      /\ \A x \in Indices(h.list) : /\ h.list[x] \in DOMAIN h.block /\ h.list[x] # b
                                    /\ Offset(h.list[x]) \in Nat
                                    /\ x \in Int /\ x >= 1 /\ x <= Len(h.list)
  <2>1. /\ h.list \in Seq(Addresses) /\ Len(h.list) \in Nat
        /\ \A x \in Indices(h.list) : /\ h.list[x] \in DOMAIN h.block
                                      /\ Offset(h.list[x]) \in Nat
    BY ListFacts DEF Tiled
  <2>. QED
    BY <2>1 DEF Indices
<1>2. /\ g \in Heaps /\ g.list = Append(h.list, b) /\ g.list = InsertAt(h.list, k, b)
      /\ g.region_count = h.region_count + 1
      /\ DOMAIN g.block = DOMAIN h.block \cup {b}
      /\ \A a \in DOMAIN h.block : g.block[a].size = h.block[a].size
      /\ g.block[b].size = size
  BY DEF NewRegion, Added
<1>3. /\ Len(g.list) = Len(h.list) + 1 /\ g.list[k] = b
      /\ \A x \in Indices(h.list) : x \in Indices(g.list) /\ g.list[x] = h.list[x]
      /\ \A x \in Indices(g.list) : x \in Int /\ x >= 1 /\ (x # k => x \in Indices(h.list))
  <2>1. /\ Len(g.list) = Len(h.list) + 1 /\ g.list[k] = b
        /\ \A x \in 1 .. Len(h.list) : g.list[x] = h.list[x]
    <3>1. h.list \in Seq(Addresses) /\ g.list = Append(h.list, b)
      BY <1>1, <1>2
    <3>. QED
      BY <3>1, AppendProperties
  <2>. QED
    BY <1>1, <2>1 DEF Indices
<1>4. k \in 1 .. Len(h.list) + 1 /\ k \in Int
  BY <1>1
<1>5. \A a \in DOMAIN h.block : Region(a) # Region(b)
  <2>. SUFFICES ASSUME NEW a \in DOMAIN h.block, Region(a) = Region(b) PROVE FALSE
    OBVIOUS
  <2>1. <<Region(a), 0>> = b
    BY AddressIs
  <2>. QED
    BY <2>1 DEF Tiled, Headed
<1>6. \A x \in Indices(h.list) :
         /\ End(g, g.list[x]) = End(h, h.list[x]) /\ Region(h.list[x]) # Region(b)
         /\ g.block[g.list[x]].size = h.block[h.list[x]].size
  BY <1>1, <1>2, <1>3, <1>5 DEF End
<1>7. ListExact(g)
  <2>1. Once(h.list) /\ ~Listed(h.list, b)
    BY DEF Tiled, ListExact
  <2>. HIDE DEF k
  <2>2. /\ Once(g.list)
        /\ \A a : Listed(g.list, a) <=> Listed(h.list, a) \/ a = b
    BY <1>1, <1>2, <1>4, <2>1, InsertKeeps
  <2>. QED
    BY <1>2, <2>2 DEF Tiled, ListExact
<1>8. EndToEnd(g)
  <2>. SUFFICES ASSUME NEW x \in Indices(g.list), Offset(g.list[x]) # 0
                PROVE  /\ x > 1 /\ Region(g.list[x - 1]) = Region(g.list[x])
                       /\ End(g, g.list[x - 1]) = Offset(g.list[x])
    BY DEF EndToEnd
  <2>1. x # k
    BY <1>3
  <2>2. x \in Indices(h.list) /\ g.list[x] = h.list[x] /\ x <= Len(h.list) /\ x \in Int
    BY <1>1, <1>3, <2>1
  <2>3. /\ x > 1 /\ Region(h.list[x - 1]) = Region(h.list[x])
        /\ End(h, h.list[x - 1]) = Offset(h.list[x])
    BY <2>2 DEF Tiled, EndToEnd
  <2>4. x - 1 \in Indices(h.list)
    BY <1>1, <2>2, <2>3 DEF Indices
  <2>. QED
    BY <1>3, <1>6, <2>2, <2>3, <2>4
<1>. HIDE DEF k
<1>9. InOrder(g)
  <2>. SUFFICES ASSUME NEW x \in Indices(g.list), NEW y \in Indices(g.list), x < y,
                       Region(g.list[x]) = Region(g.list[y])
                PROVE  End(g, g.list[x]) <= Offset(g.list[y])
    BY DEF InOrder
  <2>1. x \in Indices(h.list) /\ y \in Indices(h.list)
    BY <1>1, <1>3, <1>6 DEF k
  <2>. QED
    BY <1>3, <1>6, <2>1 DEF Tiled, InOrder
<1>10. Together(g)
  <2>. SUFFICES ASSUME NEW x \in Indices(g.list), NEW y \in Indices(g.list),
                       NEW z \in Indices(g.list), x < y, y < z,
                       Region(g.list[x]) = Region(g.list[z])
                PROVE  Region(g.list[y]) = Region(g.list[x])
    BY DEF Together
  <2>1. x \in Indices(h.list) /\ y \in Indices(h.list) /\ z \in Indices(h.list)
    <3>1. x # k /\ z # k
      BY SMTT(30), <1>1, <1>3, <1>6 DEF k
    <3>. QED
      BY <1>1, <1>3, <3>1 DEF k
  <2>. QED
    BY <1>3, <2>1 DEF Tiled, Together
<1>11. Headed(g)
  <2>1. Heads(g) = Heads(h) \cup {b} /\ b \notin Heads(h)
    BY <1>2 DEF Heads
  <2>2. IsFiniteSet(Heads(h))
    <3>1. Heads(h) \in SUBSET DOMAIN h.block
      BY DEF Heads
    <3>. QED
      BY <3>1, FiniteBlocks, FS_Subset DEF Tiled
  <2>3. Cardinality(Heads(g)) = Cardinality(Heads(h)) + 1
    BY <2>1, <2>2, FS_AddElement
  <2>4. <<Region(b), 0>> = b
    BY AddressIs
  <2>. QED
    BY <1>2, <2>3, <2>4 DEF Tiled, Headed
<1>12. NodesFit(g)
  <2>. SUFFICES ASSUME NEW x \in Indices(g.list)
                PROVE  \/ g.block[g.list[x]].size >= NodeSize
                       \/ x < Len(g.list) /\ Region(g.list[x + 1]) = Region(g.list[x])
    BY DEF NodesFit
  <2>1. CASE x = k
    <3>1. /\ NodeSize \in Nat /\ MinData \in Nat /\ NameSize \in Nat /\ HeaderSize \in Nat
          /\ RegionSize \in Nat /\ NodeSize <= MinData /\ MinData <= NameSize
          /\ NameSize < HeaderSize /\ HeaderSize <= RegionSize
      BY AllocatorAssumption
    <3>2. g.block[g.list[x]].size = size
      BY <1>2, <1>3, <2>1
    <3>. QED
      BY <3>1, <3>2
  <2>2. CASE x # k
    <3>1. x \in Indices(h.list) /\ x \in Int
      BY <1>3, <2>2
    <3>2. x < Len(h.list) => x + 1 \in Indices(h.list) /\ x < Len(g.list)
      BY <1>1, <1>3, <3>1 DEF Indices
    <3>. QED
      BY <1>3, <1>6, <3>1, <3>2 DEF NodesFit
  <2>. QED
    BY <2>1, <2>2
<1>. QED
  BY <1>7, <1>8, <1>9, <1>10, <1>11, <1>12 DEF Tiled

-----------------------------------------------------------------------------
(* FreeExact: the free list and who is used.                               *)

\* A used or pending block is in no free list, the others are.
LEMMA FreeFacts ==
    ASSUME NEW h \in Heaps, NEW pending, NEW open, FreeExact(h, pending, open)
    PROVE  /\ h.free \in Seq(Addresses) /\ Len(h.free) \in Nat /\ Once(h.free)
           /\ \A i \in Indices(h.free) :
                 /\ h.free[i] \in DOMAIN h.block /\ ~h.block[h.free[i]].used
                 /\ h.free[i] \notin pending
                 /\ h.block[h.free[i]].size \in Nat \ {0}
           /\ \A b \in DOMAIN h.block : ~h.block[b].used /\ b \notin pending
                                        => \E i \in Indices(h.free) : h.free[i] = b
<1>1. /\ h.free \in Seq(Addresses) /\ Len(h.free) \in Nat /\ DOMAIN h.block \subseteq Addresses
      /\ \A b \in DOMAIN h.block : h.block[b].size \in Nat \ {0}
  BY HeapFields
<1>2. \A i \in Indices(h.free) : h.free[i] \in Addresses /\ Listed(h.free, h.free[i])
  BY <1>1 DEF Listed, Indices
<1>3. \A i \in Indices(h.free) : /\ h.free[i] \in DOMAIN h.block /\ ~h.block[h.free[i]].used
                                 /\ h.free[i] \notin pending
  BY <1>2 DEF FreeExact
<1>4. \A b \in DOMAIN h.block : ~h.block[b].used /\ b \notin pending => Listed(h.free, b)
  BY <1>1 DEF FreeExact
<1>. QED
  BY <1>1, <1>3, <1>4 DEF FreeExact, Listed

\* The parts of Sound give what the operations need of the lists.
LEMMA ListsAreSound ==
    ASSUME NEW h \in Heaps, ListExact(h), NEW pending, NEW open, FreeExact(h, pending, open)
    PROVE  ListsSound(h)
BY DEF ListsSound, FreeExact

\* Taking a block out of the free list marks it used.
LEMMA TakeFree ==
    ASSUME NEW h \in Heaps, NEW pending, NEW open, FreeExact(h, pending, open),
           NEW j \in Indices(h.free), NEW b \in DOMAIN h.block, h.free[j] = b,
           NEW g, Marked(g, h, b, TRUE), g.free = RemoveAt(h.free, j)
    PROVE  FreeExact(g, pending, open)
<1>1. h.free \in Seq(Addresses) /\ Once(h.free)
  BY FreeFacts
<1>2. /\ Once(g.free)
      /\ \A e : Listed(g.free, e) <=> Listed(h.free, e) /\ e # b
      /\ OrderLeft(g.free, h.free)
  BY <1>1, RemoveKeeps
<1>3. \A a \in Addresses :
         Listed(g.free, a) <=> a \in DOMAIN g.block \ pending /\ ~g.block[a].used
  BY <1>2 DEF FreeExact, Marked
<1>4. \A u \in Indices(h.free) : g.block[h.free[u]].size = h.block[h.free[u]].size
  BY FreeFacts DEF Marked
<1>5. \A x, y \in Indices(g.free) :
         x < y /\ g.free[x] \notin open /\ g.free[y] \notin open
         => g.block[g.free[x]].size <= g.block[g.free[y]].size
  BY <1>2, <1>4 DEF FreeExact, OrderLeft
<1>. QED
  BY <1>2, <1>3, <1>5 DEF FreeExact

\* Putting a block into the free list, when no block in it is open.
LEMMA EnlistFree ==
    ASSUME NEW h \in Heaps, NEW pending, NEW open, FreeExact(h, pending, open),
           NEW p \in DOMAIN h.block, ~Listed(h.free, p),
           \A b \in open : ~Listed(h.free, b),
           NEW g, Enlisted(g, h, p)
    PROVE  FreeExact(g, pending \ {p}, {})
<1>1. /\ h.free \in Seq(Addresses) /\ Once(h.free) /\ p \in Addresses /\ Len(h.free) \in Nat
      /\ h.block[p].size \in Nat
      /\ \A u \in Indices(h.free) : /\ h.free[u] \in DOMAIN h.block
                                    /\ h.block[h.free[u]].size \in Nat
                                    /\ u \in Int /\ h.free[u] \notin open
  BY FreeFacts, HeapFields DEF Listed, Indices
<1>2. PICK k \in 1 .. Len(h.free) + 1 : PlaceFor(h, p, k) /\ g.free = InsertAt(h.free, k, p)
  BY DEF Enlisted
<1>3. /\ Once(g.free)
      /\ \A a : Listed(g.free, a) <=> Listed(h.free, a) \/ a = p
      /\ OrderKept(g.free, h.free, k, p)
  <2>1. h.free \in Seq(Addresses) /\ Once(h.free) /\ p \in Addresses
    BY <1>1
  <2>2. g.free = InsertAt(h.free, k, p) /\ k \in 1 .. Len(h.free) + 1
    BY <1>2
  <2>. QED
    BY <2>1, <2>2, InsertKeeps
<1>4. \A a \in Addresses :
         Listed(g.free, a) <=> a \in DOMAIN g.block \ (pending \ {p}) /\ ~g.block[a].used
  BY <1>3 DEF FreeExact, Enlisted, Marked
<1>5. \A a \in DOMAIN h.block : g.block[a].size = h.block[a].size
  BY DEF Enlisted, Marked
<1>6. \A u, v \in Indices(h.free) : u < v => h.block[h.free[u]].size <= h.block[h.free[v]].size
  BY <1>1 DEF FreeExact
<1>7. \A u \in Indices(h.free) : u < k => h.block[h.free[u]].size <= h.block[p].size
  BY <1>1, <1>2 DEF PlaceFor
<1>8. \A v \in Indices(h.free) : k <= v => h.block[p].size <= h.block[h.free[v]].size
  <2>. SUFFICES ASSUME NEW v \in Indices(h.free), k <= v
                PROVE  h.block[p].size <= h.block[h.free[v]].size
    OBVIOUS
  <2>1. k \in Indices(h.free)
    BY <1>1 DEF Indices
  <2>2. h.block[p].size <= h.block[h.free[k]].size
    BY <1>1, <1>2, <2>1 DEF PlaceFor
  <2>3. h.block[h.free[k]].size <= h.block[h.free[v]].size
    BY <1>1, <1>6, <2>1
  <2>. QED
    BY <1>1, <2>1, <2>2, <2>3
<1>9. \A x, y \in Indices(g.free) : x < y => g.block[g.free[x]].size <= g.block[g.free[y]].size
  <2>. SUFFICES ASSUME NEW x \in Indices(g.free), NEW y \in Indices(g.free), x < y
                PROVE  g.block[g.free[x]].size <= g.block[g.free[y]].size
    OBVIOUS
  <2>1. ASSUME NEW u \in Indices(h.free), NEW v \in Indices(h.free), u < v,
               g.free[x] = h.free[u], g.free[y] = h.free[v]
        PROVE  g.block[g.free[x]].size <= g.block[g.free[y]].size
    BY <1>1, <1>5, <1>6, <2>1
  <2>2. ASSUME NEW u \in Indices(h.free), u < k, g.free[x] = h.free[u], g.free[y] = p
        PROVE  g.block[g.free[x]].size <= g.block[g.free[y]].size
    BY <1>1, <1>5, <1>7, <2>2
  <2>3. ASSUME NEW v \in Indices(h.free), k <= v, g.free[x] = p, g.free[y] = h.free[v]
        PROVE  g.block[g.free[x]].size <= g.block[g.free[y]].size
    BY <1>1, <1>5, <1>8, <2>3
  <2>. QED
    BY <1>3, <2>1, <2>2, <2>3 DEF OrderKept
<1>. QED
  BY <1>3, <1>4, <1>9 DEF FreeExact

\* Merging takes the right block out of the free list; the left one is in none, or open.
LEMMA MergeFree ==
    ASSUME NEW h \in Heaps, NEW pending, NEW open, FreeExact(h, pending, open),
           NEW l \in DOMAIN h.block, h.block[l].used \/ l \in open,
           NEW r \in DOMAIN h.block, NEW j \in Indices(h.free), h.free[j] = r,
           NEW g, NEW i, Merged(g, h, l, r, i, j)
    PROVE  FreeExact(g, pending, open)
<1>1. h.free \in Seq(Addresses) /\ Once(h.free)
  BY FreeFacts
<1>2. /\ g.free = RemoveAt(h.free, j) /\ DOMAIN g.block = DOMAIN h.block \ {r}
      /\ \A a \in DOMAIN g.block :
            /\ g.block[a].used = h.block[a].used
            /\ a # l => g.block[a].size = h.block[a].size
  BY DEF Merged
<1>3. /\ Once(g.free)
      /\ \A e : Listed(g.free, e) <=> Listed(h.free, e) /\ e # r
      /\ OrderLeft(g.free, h.free)
  BY <1>1, <1>2, RemoveKeeps
<1>4. \A a \in Addresses :
         Listed(g.free, a) <=> a \in DOMAIN g.block \ pending /\ ~g.block[a].used
  BY <1>2, <1>3 DEF FreeExact
<1>5. \A x \in Indices(g.free) : g.free[x] \notin open =>
         g.free[x] \in DOMAIN g.block /\ g.free[x] # l
  <2>1. \A u \in Indices(h.free) : /\ h.free[u] \in DOMAIN h.block
                                   /\ ~h.block[h.free[u]].used
    BY FreeFacts
  <2>2. \A x \in Indices(g.free) : Listed(g.free, g.free[x])
    BY DEF Listed
  <2>3. \A x \in Indices(g.free) : \E u \in Indices(h.free) : g.free[x] = h.free[u] /\ g.free[x] # r
    BY <1>3, <2>2 DEF Listed
  <2>. QED
    BY <1>2, <2>1, <2>3
<1>6. \A x, y \in Indices(g.free) :
         x < y /\ g.free[x] \notin open /\ g.free[y] \notin open
         => g.block[g.free[x]].size <= g.block[g.free[y]].size
  BY <1>2, <1>3, <1>5 DEF FreeExact, OrderLeft
<1>. QED
  BY <1>3, <1>4, <1>6 DEF FreeExact

\* A block cut off is pending.
LEMMA CutFree ==
    ASSUME NEW h \in Heaps, NEW pending, NEW open, FreeExact(h, pending, open),
           NEW b \in DOMAIN h.block, h.block[b].used \/ b \in pending,
           NEW n, NEW i, NEW g, CutOff(g, h, b, n, i)
    PROVE  FreeExact(g, pending \cup {Remainder(b, n)}, open)
<1>. DEFINE r == Remainder(b, n)
<1>1. /\ g.free = h.free /\ DOMAIN g.block = DOMAIN h.block \cup {r} /\ r \notin DOMAIN h.block
      /\ \A a \in DOMAIN h.block : /\ g.block[a].used = h.block[a].used
                                   /\ a # b => g.block[a].size = h.block[a].size
  BY DEF CutOff
<1>2. \A u \in Indices(h.free) : h.free[u] \in DOMAIN h.block /\ h.free[u] # b
  BY FreeFacts
<1>. HIDE DEF r
<1>3. \A a \in Addresses :
         Listed(g.free, a) <=> a \in DOMAIN g.block \ (pending \cup {r}) /\ ~g.block[a].used
  BY <1>1 DEF FreeExact
<1>4. FreeExact(g, pending \cup {r}, open)
  BY <1>1, <1>2, <1>3 DEF FreeExact
<1>. QED
  BY <1>4 DEF r

\* A pending block that is used from now on.
LEMMA UseFree ==
    ASSUME NEW h \in Heaps, NEW pending, NEW open, FreeExact(h, pending, open),
           NEW b \in pending, NEW g, Marked(g, h, b, TRUE), g.free = h.free
    PROVE  FreeExact(g, pending \ {b}, open)
<1>1. \A u \in Indices(h.free) : h.free[u] \in DOMAIN h.block
  BY FreeFacts
<1>2. \A a \in Addresses :
         Listed(g.free, a) <=> a \in DOMAIN g.block \ (pending \ {b}) /\ ~g.block[a].used
  BY DEF FreeExact, Marked
<1>3. \A u \in Indices(h.free) : g.block[h.free[u]].size = h.block[h.free[u]].size
  BY <1>1 DEF Marked
<1>. QED
  BY <1>2, <1>3 DEF FreeExact

\* The block of a new region is pending.
LEMMA NewRegionFree ==
    ASSUME NEW h \in Heaps, NEW pending, NEW open, FreeExact(h, pending, open),
           NEW b, b \notin DOMAIN h.block, NEW size, NEW g, NewRegion(g, h, b, size)
    PROVE  FreeExact(g, pending \cup {b}, open)
<1>1. \A u \in Indices(h.free) : h.free[u] \in DOMAIN h.block
  BY FreeFacts
<1>2. /\ g.free = h.free /\ DOMAIN g.block = DOMAIN h.block \cup {b}
      /\ \A a \in DOMAIN h.block : g.block[a] = h.block[a]
  BY DEF NewRegion, Added
<1>3. \A a \in Addresses :
         Listed(g.free, a) <=> a \in DOMAIN g.block \ (pending \cup {b}) /\ ~g.block[a].used
  BY <1>2 DEF FreeExact
<1>. QED
  BY <1>1, <1>2, <1>3 DEF FreeExact

\* Unmapping a block takes it out of the free list.
LEMMA DeleteFree ==
    ASSUME NEW h \in Heaps, NEW pending, NEW open, FreeExact(h, pending, open),
           NEW b \in DOMAIN h.block, NEW j \in Indices(h.free), h.free[j] = b,
           NEW i, NEW g, Deleted(g, h, b, i, j)
    PROVE  FreeExact(g, pending, open)
<1>1. h.free \in Seq(Addresses) /\ Once(h.free)
  BY FreeFacts
<1>2. /\ g.free = RemoveAt(h.free, j) /\ DOMAIN g.block = DOMAIN h.block \ {b}
      /\ \A a \in DOMAIN g.block : /\ g.block[a].used = h.block[a].used
                                   /\ g.block[a].size = h.block[a].size
  BY DEF Deleted
<1>3. /\ Once(g.free)
      /\ \A e : Listed(g.free, e) <=> Listed(h.free, e) /\ e # b
      /\ OrderLeft(g.free, h.free)
  BY <1>1, <1>2, RemoveKeeps
<1>4. \A a \in Addresses :
         Listed(g.free, a) <=> a \in DOMAIN g.block \ pending /\ ~g.block[a].used
  BY <1>2, <1>3 DEF FreeExact
<1>5. \A x \in Indices(g.free) : g.free[x] \in DOMAIN g.block
  <2>1. g.free \in Seq(Addresses)
    BY <1>1, <1>2, RemoveAtIs
  <2>2. \A x \in Indices(g.free) : g.free[x] \in Addresses /\ Listed(g.free, g.free[x])
    BY <2>1 DEF Listed, Indices
  <2>. QED
    BY <1>4, <2>2
<1>6. \A x, y \in Indices(g.free) :
         x < y /\ g.free[x] \notin open /\ g.free[y] \notin open
         => g.block[g.free[x]].size <= g.block[g.free[y]].size
  BY <1>2, <1>3, <1>5 DEF FreeExact, OrderLeft
<1>. QED
  BY <1>3, <1>4, <1>6 DEF FreeExact

\* The order of the free list does not depend on open blocks that are not in it.
LEMMA CloseFree ==
    ASSUME NEW h \in Heaps, NEW pending, NEW open, FreeExact(h, pending, open),
           \A b \in open : ~Listed(h.free, b)
    PROVE  FreeExact(h, pending, {})
<1>1. \A u \in Indices(h.free) : h.free[u] \notin open
  BY DEF Listed
<1>. QED
  BY <1>1 DEF FreeExact

\* A sorted free list is sorted but for open blocks.
LEMMA OpenFree ==
    ASSUME NEW h, NEW pending, NEW open, FreeExact(h, pending, {})
    PROVE  FreeExact(h, pending, open)
BY DEF FreeExact

-----------------------------------------------------------------------------
(* FewFreeRegions.                                                         *)

\* A free region is one unused block: no other block has its region.
Solo(h, b) == /\ ~h.block[b].used /\ Offset(b) = 0
              /\ \A a \in DOMAIN h.block : a # b => Region(a) # Region(b)

\* IsBlockFree finds the regions that are one unused block.
LEMMA FreeRegionsAre ==
    ASSUME NEW h \in Heaps, Tiled(h)
    PROVE  FreeRegions(h) = {b \in DOMAIN h.block : Solo(h, b)}
<1>. SUFFICES ASSUME NEW b \in DOMAIN h.block PROVE IsBlockFree(h, b) <=> Solo(h, b)
  BY DEF FreeRegions
<1>1. /\ h.list \in Seq(Addresses) /\ Len(h.list) \in Nat /\ Once(h.list)
      /\ \A i \in Indices(h.list) : h.list[i] \in DOMAIN h.block
      /\ \A a \in DOMAIN h.block : \E i \in Indices(h.list) : h.list[i] = a
  BY ListFacts DEF Tiled, ListExact
<1>2. PICK i \in Indices(h.list) : h.list[i] = b
  BY <1>1
<1>3. Position(h, b) = i
  BY <1>1, <1>2, PositionIs
<1>4. i \in Int /\ i <= Len(h.list)
  BY <1>1 DEF Indices
<1>5. IsBlockFree(h, b) <=> /\ ~h.block[b].used /\ Offset(b) = 0
                            /\ i < Len(h.list) => Region(h.list[i + 1]) # Region(b)
  BY <1>1, <1>3, <1>4 DEF IsBlockFree
<1>6. ASSUME IsBlockFree(h, b) PROVE Solo(h, b)
  <2>1. Alone(h, b, i)
    BY <1>2, <1>5, <1>6, FreeRegionAlone
  <2>. QED
    BY <1>1, <1>2, <1>5, <1>6, <2>1 DEF Solo, Alone
<1>7. ASSUME Solo(h, b) PROVE IsBlockFree(h, b)
  <2>. SUFFICES ASSUME i < Len(h.list) PROVE Region(h.list[i + 1]) # Region(b)
    BY <1>5, <1>7 DEF Solo
  <2>1. i + 1 \in Indices(h.list) /\ i + 1 # i
    BY <1>1, <1>2, <1>4 DEF Indices
  <2>2. h.list[i + 1] \in DOMAIN h.block /\ h.list[i + 1] # b
    BY <1>1, <1>2, <2>1 DEF Once
  <2>. QED
    BY <1>7, <2>2 DEF Solo
<1>. QED
  BY <1>6, <1>7

\* There are no more free regions than before when each was one before.
LEMMA FewerFreeRegions ==
    ASSUME NEW h \in Heaps, Tiled(h), NEW open, FewFreeRegions(h, open),
           NEW g \in Heaps, Tiled(g), NEW now,
           \A b \in DOMAIN g.block \ now :
              Solo(g, b) => b \in DOMAIN h.block \ open /\ Solo(h, b)
    PROVE  FewFreeRegions(g, now)
<1>. DEFINE G == FreeRegions(g) \ now
            H == FreeRegions(h) \ open
<1>1. G \in SUBSET H
  BY FreeRegionsAre
<1>2. IsFiniteSet(H)
  <2>1. IsFiniteSet(DOMAIN h.block)
    BY FiniteBlocks DEF Tiled
  <2>2. H \in SUBSET DOMAIN h.block
    BY DEF FreeRegions
  <2>. QED
    BY <2>1, <2>2, FS_Subset
<1>. HIDE DEF G, H
<1>3. Cardinality(G) <= Cardinality(H) /\ IsFiniteSet(G)
  BY <1>1, <1>2, FS_Subset
<1>4. Cardinality(G) \in Nat /\ Cardinality(H) \in Nat /\ KeepRegions \in Nat
  BY <1>2, <1>3, FS_CardinalityType, AllocatorAssumption
<1>5. Cardinality(H) <= KeepRegions
  BY DEF FewFreeRegions, H
<1>6. Cardinality(G) <= KeepRegions
  BY <1>3, <1>4, <1>5
<1>. QED
  BY <1>6 DEF FewFreeRegions, G

\* There are no more free regions than regions.
LEMMA FreeRegionsCounted ==
    ASSUME NEW h \in Heaps, Tiled(h), h.region_count <= KeepRegions
    PROVE  FewFreeRegions(h, {})
<1>. DEFINE F == FreeRegions(h) \ {}
<1>1. F \in SUBSET Heads(h)
  BY DEF FreeRegions, Heads, IsBlockFree
<1>2. IsFiniteSet(Heads(h))
  <2>1. Heads(h) \in SUBSET DOMAIN h.block
    BY DEF Heads
  <2>. QED
    BY <2>1, FiniteBlocks, FS_Subset DEF Tiled
<1>. HIDE DEF F
<1>3. Cardinality(F) <= Cardinality(Heads(h)) /\ IsFiniteSet(F)
  BY <1>1, <1>2, FS_Subset
<1>4. Cardinality(F) \in Nat /\ Cardinality(Heads(h)) \in Nat /\ KeepRegions \in Nat
  BY <1>2, <1>3, FS_CardinalityType, AllocatorAssumption
<1>5. Cardinality(Heads(h)) = h.region_count
  BY DEF Tiled, Headed
<1>6. Cardinality(F) <= KeepRegions
  BY <1>3, <1>4, <1>5
<1>. QED
  BY <1>6 DEF FewFreeRegions, F

-----------------------------------------------------------------------------
(* CoalescedBut: neighbours that are both unused.                          *)

\* The blocks at index x and at the next are an unused pair of one region.
Pair(h, x) == /\ x \in Indices(h.list) /\ x < Len(h.list)
              /\ Region(h.list[x]) = Region(h.list[x + 1])
              /\ ~h.block[h.list[x]].used /\ ~h.block[h.list[x + 1]].used

\* CoalescedBut, told by pairs.
LEMMA CoalescedIs ==
    ASSUME NEW h, NEW loose
    PROVE  CoalescedBut(h, loose) <=> \A x : Pair(h, x) => h.list[x] \in loose
BY DEF CoalescedBut, Pair

\* More used blocks, and no pair that was not there.
LEMMA CoalescedKept ==
    ASSUME NEW h, ListExact(h), h \in Heaps, NEW loose, CoalescedBut(h, loose),
           NEW g, g.list = h.list, NEW now,
           \A a \in DOMAIN h.block : h.block[a].used => g.block[a].used,
           \A a \in loose \ now : g.block[a].used
    PROVE  CoalescedBut(g, now)
<1>1. \A x \in Indices(h.list) : h.list[x] \in DOMAIN h.block
  BY ListFacts
<1>2. Len(h.list) \in Nat /\ \A x \in Indices(h.list) : x < Len(h.list) => x + 1 \in Indices(h.list)
  BY ListFacts DEF Indices
<1>3. \A x : Pair(g, x) => Pair(h, x) /\ ~g.block[h.list[x]].used
  BY <1>1, <1>2 DEF Pair
<1>. QED
  BY <1>3, CoalescedIs

\* The pairs of a heap from which a block was cut: the block and what was cut off.
LEMMA CutCoalesced ==
    ASSUME NEW h \in Heaps, ListExact(h), NEW loose, CoalescedBut(h, loose),
           NEW i \in Indices(h.list), NEW b \in DOMAIN h.block, h.list[i] = b,
           ~MergesRight(h, b), NEW n, NEW g, CutOff(g, h, b, n, i),
           NEW now, loose \subseteq now, h.block[b].used \/ b \in now
    PROVE  CoalescedBut(g, now)
<1>. DEFINE r == Remainder(b, n)
<1>1. /\ h.list \in Seq(Addresses) /\ Len(h.list) \in Nat /\ i \in Int /\ Once(h.list)
      /\ \A x \in Indices(h.list) : h.list[x] \in DOMAIN h.block /\ x \in Int
  BY ListFacts DEF ListExact, Indices
<1>2. /\ g \in Heaps /\ r \in DOMAIN g.block /\ g.list = InsertAt(h.list, i + 1, r)
      /\ \A a \in DOMAIN h.block : g.block[a].used = h.block[a].used
  BY DEF CutOff
<1>3. r \in Addresses /\ Region(r) = Region(b)
  BY <1>2, HeapFields DEF Remainder, Region
<1>. HIDE DEF r
<1>4. /\ Len(g.list) = Len(h.list) + 1
      /\ i \in Indices(g.list) /\ i + 1 \in Indices(g.list) /\ g.list[i + 1] = r
      /\ \A x \in Indices(g.list) : x <= i => x \in Indices(h.list) /\ g.list[x] = h.list[x]
      /\ \A x \in Indices(g.list) :
            x > i + 1 => x - 1 \in Indices(h.list) /\ g.list[x] = h.list[x - 1]
  <2>1. InsertedAfter(g.list, h.list, i, r)
    BY <1>1, <1>2, <1>3, InsertAfterIs
  <2>. QED
    BY <2>1 DEF InsertedAfter
<1>5. ASSUME i < Len(h.list), Region(h.list[i + 1]) = Region(b)
      PROVE  h.block[h.list[i + 1]].used
  <2>1. Position(h, b) = i
    BY <1>1, PositionIs
  <2>. QED
    BY <1>1, <1>5, <2>1 DEF MergesRight, Mergeable
<1>. SUFFICES ASSUME NEW x, Pair(g, x) PROVE g.list[x] \in now
  BY CoalescedIs
<1>6. /\ x \in Indices(g.list) /\ x + 1 \in Indices(g.list) /\ x \in Int
      /\ Region(g.list[x]) = Region(g.list[x + 1])
      /\ ~g.block[g.list[x]].used /\ ~g.block[g.list[x + 1]].used
      /\ x < Len(g.list)
  BY <1>1, <1>4 DEF Pair, Indices
<1>7. CASE x < i
  <2>0. x <= i /\ x + 1 <= i /\ i <= Len(h.list)
    BY <1>1, <1>6, <1>7 DEF Indices
  <2>1. /\ x \in Indices(h.list) /\ g.list[x] = h.list[x] /\ x < Len(h.list)
        /\ g.list[x + 1] = h.list[x + 1] /\ x + 1 \in Indices(h.list)
    BY <1>1, <1>4, <1>6, <2>0
  <2>2. Pair(h, x)
    BY <1>1, <1>2, <1>6, <2>1 DEF Pair
  <2>. QED
    BY <2>1, <2>2, CoalescedIs
<1>8. CASE x = i
  BY SMTT(30), <1>2, <1>4, <1>6, <1>8
<1>9. CASE x = i + 1
  <2>1. x + 1 > i + 1 /\ x + 1 - 1 = i + 1 /\ i < Len(h.list)
    BY <1>1, <1>4, <1>6, <1>9
  <2>2. i + 1 \in Indices(h.list) /\ g.list[x + 1] = h.list[i + 1] /\ g.list[x] = r
    BY <1>4, <1>6, <1>9, <2>1
  <2>3. h.block[h.list[i + 1]].used
    BY <1>3, <1>5, <1>6, <2>1, <2>2
  <2>. QED
    BY <1>1, <1>2, <1>6, <2>2, <2>3
<1>10. CASE x > i + 1
  <2>. DEFINE y == x - 1
  <2>1. y \in Indices(h.list) /\ g.list[x] = h.list[y]
    BY <1>4, <1>6, <1>10
  <2>2. x + 1 > i + 1 /\ x + 1 - 1 = y + 1 /\ y < Len(h.list) /\ y \in Int
    BY <1>1, <1>4, <1>6, <1>10
  <2>3. y + 1 \in Indices(h.list) /\ g.list[x + 1] = h.list[y + 1]
    BY <1>4, <1>6, <2>2
  <2>. HIDE DEF y
  <2>4. Pair(h, y)
    BY <1>1, <1>2, <1>6, <2>1, <2>2, <2>3 DEF Pair
  <2>. QED
    BY <2>1, <2>4, CoalescedIs
<1>. QED
  BY <1>1, <1>6, <1>7, <1>8, <1>9, <1>10

\* The same where there were no pairs and b is unused.
LEMMA CutMakesPair ==
    ASSUME NEW h \in Heaps, ListExact(h), CoalescedBut(h, {}), NEW b \in DOMAIN h.block,
           ~MergesRight(h, b), NEW n, NEW g,
           \E i \in Indices(h.list) : h.list[i] = b /\ CutOff(g, h, b, n, i)
    PROVE  CoalescedBut(g, {b})
<1>. DEFINE E == {b}
            N == {}
<1>1. N \subseteq E /\ b \in E /\ CoalescedBut(h, N)
  OBVIOUS
<1>. HIDE DEF E, N
<1>2. PICK i \in Indices(h.list) : h.list[i] = b /\ CutOff(g, h, b, n, i)
  OBVIOUS
<1>3. CoalescedBut(g, E)
  BY <1>1, <1>2, CutCoalesced
<1>. QED
  BY <1>3 DEF E

\* The pair at x in g was one in h, a place later if it comes after the merged block l.
PairFrom(g, h, l, i, x) ==
    /\ x < i => Pair(h, x) /\ g.list[x] = h.list[x]
    /\ x = i => ~h.block[l].used /\ g.list[x] = l
    /\ x > i => Pair(h, x + 1) /\ g.list[x] = h.list[x + 1]

\* The pairs after a merge: none is new but the merged block and the one after it.
LEMMA MergePairs ==
    ASSUME NEW h \in Heaps, ListExact(h), NEW i \in Indices(h.list), i < Len(h.list),
           NEW l, h.list[i] = l, NEW r, h.list[i + 1] = r,
           NEW g, NEW j, Merged(g, h, l, r, i + 1, j), NEW x, Pair(g, x)
    PROVE  PairFrom(g, h, l, i, x)
<1>. DEFINE k == i + 1
<1>1. /\ h.list \in Seq(Addresses) /\ Len(h.list) \in Nat /\ i \in Int /\ Once(h.list)
      /\ k = i + 1 /\ k \in Indices(h.list) /\ h.list[k] = r /\ k \in Int
      /\ \A y \in Indices(h.list) : h.list[y] \in DOMAIN h.block /\ y \in Int /\ y >= 1
  BY ListFacts DEF ListExact, Indices
<1>. HIDE DEF k
<1>2. /\ g.list = RemoveAt(h.list, k) /\ DOMAIN g.block = DOMAIN h.block \ {r}
      /\ \A a \in DOMAIN g.block : g.block[a].used = h.block[a].used
  BY <1>1 DEF Merged
<1>3. /\ Len(g.list) = Len(h.list) - 1
      /\ \A y \in Indices(g.list) : y < k => y \in Indices(h.list) /\ g.list[y] = h.list[y]
      /\ \A y \in Indices(g.list) : y >= k => y + 1 \in Indices(h.list) /\ g.list[y] = h.list[y + 1]
  <2>1. RemovedAt(g.list, h.list, k)
    BY <1>1, <1>2, RemovedAtIs
  <2>. QED
    BY <2>1 DEF RemovedAt
<1>4. /\ x \in Indices(g.list) /\ x + 1 \in Indices(g.list) /\ x \in Int
      /\ Region(g.list[x]) = Region(g.list[x + 1])
      /\ ~g.block[g.list[x]].used /\ ~g.block[g.list[x + 1]].used
      /\ x < Len(g.list) /\ x >= 1
  BY <1>1, <1>3 DEF Pair, Indices
<1>5. \A y \in Indices(g.list) : g.block[g.list[y]].used = h.block[g.list[y]].used
  <2>. SUFFICES ASSUME NEW y \in Indices(g.list)
                PROVE  g.list[y] \in DOMAIN g.block
    BY <1>2
  <2>0. y \in Int
    BY DEF Indices
  <2>1. CASE y < k
    <3>1. y \in Indices(h.list) /\ g.list[y] = h.list[y] /\ y # k
      BY <1>1, <1>3, <2>0, <2>1
    <3>. QED
      BY <1>1, <1>2, <3>1 DEF Once
  <2>2. CASE y >= k
    <3>1. y + 1 \in Indices(h.list) /\ g.list[y] = h.list[y + 1] /\ y + 1 # k
      BY <1>1, <1>3, <2>0, <2>2
    <3>. QED
      BY <1>1, <1>2, <3>1 DEF Once
  <2>. QED
    BY <1>1, <2>0, <2>1, <2>2
<1>6. CASE x < i
  <2>1. /\ x \in Indices(h.list) /\ g.list[x] = h.list[x] /\ x < Len(h.list)
        /\ x + 1 < k /\ g.list[x + 1] = h.list[x + 1]
    BY <1>1, <1>3, <1>4, <1>6
  <2>2. Pair(h, x)
    BY <1>4, <1>5, <2>1 DEF Pair
  <2>. QED
    BY <1>1, <1>4, <1>6, <2>1, <2>2 DEF PairFrom
<1>7. CASE x = i
  <2>1. g.list[x] = l
    BY <1>1, <1>3, <1>4, <1>7
  <2>. QED
    BY <1>1, <1>4, <1>5, <1>7, <2>1 DEF PairFrom
<1>8. CASE x > i
  <2>. DEFINE y == x + 1
  <2>1. /\ y \in Indices(h.list) /\ g.list[x] = h.list[y] /\ x >= k /\ y >= k /\ y \in Int
        /\ y < Len(h.list)
    BY <1>1, <1>3, <1>4, <1>8
  <2>2. g.list[y] = h.list[y + 1] /\ y \in Indices(g.list)
    BY <1>3, <1>4, <2>1
  <2>3. /\ Region(g.list[x]) = Region(g.list[y])
        /\ ~g.block[g.list[x]].used /\ ~g.block[g.list[y]].used
    BY <1>4
  <2>4. y = x + 1
    OBVIOUS
  <2>. HIDE DEF y
  <2>5. Pair(h, y)
    BY <1>4, <1>5, <2>1, <2>2, <2>3 DEF Pair
  <2>. QED
    BY <1>1, <1>4, <1>8, <2>1, <2>4, <2>5 DEF PairFrom
<1>. QED
  BY <1>1, <1>4, <1>6, <1>7, <1>8 DEF PairFrom

\* The blocks from index m to index x are unused and of the region of b.
RunTo(h, b, m, x) == \A k \in m .. x : Mergeable(h, b, k)

\* Run, told by indices.
LEMMA RunIs ==
    ASSUME NEW h, h.list \in Seq(Addresses), Once(h.list), NEW m \in Indices(h.list),
           NEW b, h.list[m] = b, NEW x \in Indices(h.list)
    PROVE  h.list[x] \in Run(h, b) <=> m <= x /\ RunTo(h, b, m, x)
<1>1. Position(h, b) = m
  BY PositionIs
<1>2. h.list[x] \in Run(h, b) <=>
         \E y \in Indices(h.list) : h.list[y] = h.list[x] /\ m <= y /\ RunTo(h, b, m, y)
  BY <1>1 DEF Run, RunTo
<1>. QED
  BY <1>2 DEF Once

\* Realloc merges into a used block.
LEMMA MergeUsedCoalesced ==
    ASSUME NEW h \in Heaps, ListExact(h), CoalescedBut(h, {}),
           NEW i \in Indices(h.list), i < Len(h.list), NEW l, h.list[i] = l, h.block[l].used,
           NEW r, h.list[i + 1] = r, NEW g, NEW j, Merged(g, h, l, r, i + 1, j)
    PROVE  CoalescedBut(g, {})
<1>. SUFFICES ASSUME NEW x, Pair(g, x) PROVE FALSE
  BY CoalescedIs
<1>1. x \in Int /\ i \in Int
  BY DEF Pair, Indices
<1>2. PairFrom(g, h, l, i, x)
  BY MergePairs
<1>3. /\ x < i => Pair(h, x)
      /\ x = i => ~h.block[l].used
      /\ x > i => Pair(h, x + 1)
  BY <1>2 DEF PairFrom
<1>. QED
  BY <1>1, <1>3, CoalescedIs

\* MergeRightBlock merges one by one: what was the run of b stays its run.
LEMMA MergeRunCoalesced ==
    ASSUME NEW h \in Heaps, ListExact(h), NEW i \in Indices(h.list), i < Len(h.list),
           NEW l, h.list[i] = l, CoalescedBut(h, Run(h, l)),
           NEW r, h.list[i + 1] = r, NEW g, NEW j, Merged(g, h, l, r, i + 1, j), ListExact(g)
    PROVE  CoalescedBut(g, Run(g, l))
<1>. SUFFICES ASSUME NEW x, Pair(g, x) PROVE g.list[x] \in Run(g, l)
  BY CoalescedIs
<1>. DEFINE k == i + 1
<1>1. /\ h.list \in Seq(Addresses) /\ Len(h.list) \in Nat /\ i \in Int /\ Once(h.list)
      /\ i \in 1 .. Len(h.list) /\ k = i + 1 /\ k \in Indices(h.list) /\ k \in Int
      /\ Merged(g, h, l, r, k, j)
  BY ListFacts DEF ListExact, Indices
<1>. HIDE DEF k
<1>2. /\ g \in Heaps /\ g.list = RemoveAt(h.list, k) /\ DOMAIN g.block = DOMAIN h.block \ {r}
      /\ \A a \in DOMAIN g.block : g.block[a].used = h.block[a].used
  BY <1>1 DEF Merged
<1>3. /\ Len(g.list) = Len(h.list) - 1
      /\ \A y \in Indices(g.list) : y < k => y \in Indices(h.list) /\ g.list[y] = h.list[y]
      /\ \A y \in Indices(g.list) : y >= k => y + 1 \in Indices(h.list) /\ g.list[y] = h.list[y + 1]
  <2>1. RemovedAt(g.list, h.list, k)
    BY <1>1, <1>2, RemovedAtIs
  <2>. QED
    BY <2>1 DEF RemovedAt
<1>4. /\ g.list \in Seq(Addresses) /\ Once(g.list)
      /\ \A y \in Indices(g.list) : g.list[y] \in DOMAIN g.block /\ y \in Int /\ y >= 1
  <2>1. /\ g.list \in Seq(Addresses) /\ Len(g.list) \in Nat
        /\ \A y \in Indices(g.list) : g.list[y] \in DOMAIN g.block
    BY <1>2, ListFacts
  <2>2. Once(g.list)
    BY DEF ListExact
  <2>. QED
    BY <2>1, <2>2 DEF Indices
<1>5. /\ x \in Indices(g.list) /\ x \in Int /\ (i \in Indices(g.list) \/ x < i)
      /\ x < i => Pair(h, x) /\ g.list[x] = h.list[x]
      /\ x = i => ~h.block[l].used /\ g.list[x] = l
      /\ x > i => Pair(h, x + 1) /\ g.list[x] = h.list[x + 1]
  <2>1. x \in Indices(g.list)
    BY DEF Pair
  <2>2. x \in Int /\ (i \in Indices(g.list) \/ x < i)
    BY <1>1, <1>3, <2>1 DEF Indices
  <2>3. PairFrom(g, h, l, i, x)
    BY MergePairs
  <2>. QED
    BY <2>1, <2>2, <2>3 DEF PairFrom
<1>6. x \in Indices(g.list) /\ x \in Int
  BY <1>4 DEF Pair
<1>7. x >= i
  <2>. SUFFICES ASSUME x < i PROVE FALSE
    BY <1>1, <1>6
  <2>1. Pair(h, x) /\ x \in Indices(h.list)
    BY <1>5 DEF Pair
  <2>2. h.list[x] \in Run(h, l)
    BY <2>1, CoalescedIs
  <2>3. i <= x
    BY <1>1, <2>1, <2>2, RunIs
  <2>. QED
    BY <1>1, <1>6, <2>3
<1>8. i \in Indices(g.list) /\ g.list[i] = l
  <2>1. i \in Indices(g.list)
    BY <1>1, <1>3, <1>6, <1>7 DEF Indices
  <2>. QED
    BY <1>1, <1>3, <2>1
<1>9. RunTo(g, l, i, x)
  <2>. SUFFICES ASSUME NEW y \in i .. x PROVE Mergeable(g, l, y)
    BY DEF RunTo
  <2>1. y \in Indices(g.list) /\ y \in Int /\ i <= y /\ y <= x
    BY <1>1, <1>3, <1>6, <1>8 DEF Indices
  <2>2. CASE x = i
    <3>1. y = i /\ ~g.block[l].used
      BY <1>1, <1>2, <1>4, <1>5, <1>6, <1>8, <2>1, <2>2
    <3>. QED
      BY <1>8, <3>1 DEF Mergeable
  <2>3. CASE x > i
    <3>1. Pair(h, x + 1) /\ x + 1 \in Indices(h.list)
      BY <1>5, <2>3 DEF Pair
    <3>2. RunTo(h, l, i, x + 1)
      <4>1. h.list[x + 1] \in Run(h, l)
        BY <3>1, CoalescedIs
      <4>. QED
        BY <1>1, <3>1, <4>1, RunIs
    <3>3. CASE y = i
      <4>1. Mergeable(h, l, i)
        BY <1>1, <1>6, <2>3, <3>2 DEF RunTo
      <4>2. l \in DOMAIN g.block
        BY <1>4, <1>8
      <4>. QED
        BY <1>2, <1>8, <3>3, <4>1, <4>2 DEF Mergeable
    <3>4. CASE y > i
      <4>1. y + 1 \in i .. x + 1 /\ y >= k
        BY <1>1, <1>6, <2>1, <3>4
      <4>2. Mergeable(h, l, y + 1) /\ g.list[y] = h.list[y + 1] /\ g.list[y] \in DOMAIN g.block
        BY <1>3, <1>4, <2>1, <3>2, <4>1 DEF RunTo
      <4>. QED
        BY <1>2, <4>2 DEF Mergeable
    <3>. QED
      BY <1>1, <2>1, <3>3, <3>4
  <2>. QED
    BY <1>1, <1>6, <1>7, <2>2, <2>3
<1>. QED
  BY <1>4, <1>6, <1>7, <1>8, <1>9, RunIs

\* The run of b ends where nothing can be merged into b.
LEMMA RunEnds ==
    ASSUME NEW h \in Heaps, ListExact(h), NEW i \in Indices(h.list), NEW b, h.list[i] = b,
           CoalescedBut(h, Run(h, b)), ~MergesRight(h, b)
    PROVE  CoalescedBut(h, {})
<1>. SUFFICES ASSUME NEW x, Pair(h, x) PROVE FALSE
  BY CoalescedIs
<1>1. /\ h.list \in Seq(Addresses) /\ Len(h.list) \in Nat /\ i \in Int /\ Once(h.list)
      /\ x \in Indices(h.list) /\ x \in Int /\ x < Len(h.list)
  BY ListFacts DEF ListExact, Indices, Pair
<1>2. Position(h, b) = i
  BY <1>1, PositionIs
<1>3. i <= x /\ RunTo(h, b, i, x)
  <2>1. h.list[x] \in Run(h, b)
    BY CoalescedIs
  <2>. QED
    BY <1>1, <2>1, RunIs
<1>4. i + 1 <= Len(h.list) /\ ~Mergeable(h, b, i + 1)
  BY <1>1, <1>2, <1>3 DEF MergesRight
<1>5. CASE x = i
  <2>1. Mergeable(h, b, i)
    BY <1>1, <1>3 DEF RunTo
  <2>. QED
    BY <1>4, <1>5, <2>1 DEF Pair, Mergeable
<1>6. CASE x > i
  <2>1. i + 1 \in i .. x
    BY <1>1, <1>6
  <2>. QED
    BY <1>3, <1>4, <2>1 DEF RunTo
<1>. QED
  BY <1>1, <1>3, <1>5, <1>6

\* b is unused, p or the one block before it, and all pairs are in the run of b.
RunStarts(g, p, b) ==
    /\ b \in DOMAIN g.block /\ ~g.block[b].used
    /\ b # p => Offset(p) # 0
    /\ CoalescedBut(g, Run(g, b))

\* MergeBlock goes at most one block to the left, because there were no pairs, and
\* the pairs that the freed block p makes are in the run that starts there.
LEMMA FreedRun ==
    ASSUME NEW h \in Heaps, Tiled(h), CoalescedBut(h, {}),
           NEW i \in Indices(h.list), NEW p, h.list[i] = p, h.block[p].used,
           NEW g, Marked(g, h, p, FALSE)
    PROVE  RunStarts(g, p, LeftmostUnused(g, p))
<1>1. /\ h.list \in Seq(Addresses) /\ Len(h.list) \in Nat /\ i \in Int /\ Once(h.list)
      /\ i \in 1 .. Len(h.list)
      /\ \A x \in Indices(h.list) : h.list[x] \in DOMAIN h.block
  <2>1. /\ h.list \in Seq(Addresses) /\ Len(h.list) \in Nat
        /\ \A x \in Indices(h.list) : h.list[x] \in DOMAIN h.block
    BY ListFacts DEF Tiled
  <2>. QED
    BY <2>1 DEF Indices, Tiled, ListExact
<1>2. /\ g \in Heaps /\ g.list = h.list /\ DOMAIN g.block = DOMAIN h.block
      /\ ~g.block[p].used
      /\ \A a \in DOMAIN h.block : a # p => g.block[a].used = h.block[a].used
  BY <1>1 DEF Marked
<1>3. Position(g, p) = i
  BY <1>1, <1>2, PositionIs
<1>4. \A x : ~Pair(h, x)
  BY CoalescedIs
<1>5. \A x \in Indices(h.list) : x # i => g.block[g.list[x]].used = h.block[h.list[x]].used
  BY <1>1, <1>2 DEF Once
<1>. DEFINE Left(m) == /\ \A j \in m .. i - 1 : Mergeable(g, p, j)
                       /\ m > 1 => ~Mergeable(g, p, m - 1)
            m == CHOOSE x \in 1 .. i : Left(x)
            b == g.list[m]
<1>6. LeftmostUnused(g, p) = b
  BY <1>3 DEF LeftmostUnused
<1>7. ASSUME i > 2, Mergeable(g, p, i - 1), Mergeable(g, p, i - 2) PROVE FALSE
  <2>1. i - 2 \in Indices(h.list) /\ i - 1 \in Indices(h.list) /\ i - 2 < Len(h.list) /\ i - 2 + 1 = i - 1
    BY <1>1, <1>7 DEF Indices
  <2>2. Pair(h, i - 2)
    BY <1>1, <1>2, <1>5, <1>7, <2>1 DEF Mergeable, Pair
  <2>. QED
    BY <1>4, <2>2
<1>8. \E x \in 1 .. i : Left(x)
  <2>1. CASE i = 1 \/ ~Mergeable(g, p, i - 1)
    BY <1>1, <2>1
  <2>2. CASE i > 1 /\ Mergeable(g, p, i - 1)
    <3>1. Left(i - 1)
      BY <1>1, <1>7, <2>2
    <3>2. i - 1 \in 1 .. i
      BY <1>1, <2>2
    <3>. QED
      BY <3>1, <3>2
  <2>. QED
    BY <1>1, <2>1, <2>2
<1>9. m \in 1 .. i /\ Left(m)
  BY <1>8
<1>. HIDE DEF m
<1>10. m = i \/ m = i - 1
  <2>. SUFFICES ASSUME m < i - 1 PROVE FALSE
    BY <1>1, <1>9
  <2>1. i > 2 /\ i - 1 \in m .. i - 1 /\ i - 2 \in m .. i - 1
    BY <1>1, <1>9
  <2>. QED
    BY <1>7, <1>9, <2>1
<1>11. m \in Indices(h.list) /\ m \in Int /\ b = h.list[m] /\ m >= 1
  BY <1>1, <1>2, <1>9 DEF Indices
<1>12. Mergeable(g, p, m) /\ (m = i => b = p)
  <2>1. CASE m = i
    BY <1>1, <1>2, <2>1 DEF Mergeable
  <2>2. CASE m = i - 1
    BY <1>1, <1>9, <2>2
  <2>. QED
    BY <1>10, <2>1, <2>2
<1>. HIDE DEF b
<1>13. b \in DOMAIN g.block /\ ~g.block[b].used /\ Region(b) = Region(p)
  BY <1>1, <1>2, <1>11, <1>12 DEF Mergeable
<1>14. ASSUME NEW x, Pair(g, x) PROVE g.list[x] \in Run(g, b)
  <2>1. x \in Indices(h.list) /\ x \in Int /\ x + 1 \in Indices(h.list) /\ x < Len(h.list)
    BY <1>1, <1>2, <1>14 DEF Pair, Indices
  <2>2. x = i \/ x + 1 = i
    <3>. SUFFICES ASSUME x # i, x + 1 # i PROVE FALSE
      OBVIOUS
    <3>1. Pair(h, x)
      BY <1>2, <1>5, <1>14, <2>1 DEF Pair
    <3>. QED
      BY <1>4, <3>1
  <2>3. m <= x /\ (x = m \/ (x = i /\ m = i - 1))
    <3>1. CASE x = i
      BY <1>1, <1>10, <3>1
    <3>2. CASE x + 1 = i
      <4>1. i > 1 /\ x = i - 1
        BY <1>1, <2>1, <3>2 DEF Indices
      <4>2. Mergeable(g, p, i - 1)
        <5>1. ~g.block[g.list[x]].used /\ Region(g.list[x]) = Region(g.list[x + 1])
          BY <1>14 DEF Pair
        <5>2. g.list[x + 1] = p
          BY <1>2, <3>2
        <5>. QED
          BY <4>1, <5>1, <5>2 DEF Mergeable
      <4>3. m # i
        BY <1>9, <4>1, <4>2
      <4>. QED
        BY <1>1, <1>10, <4>1, <4>3
    <3>. QED
      BY <2>2, <3>1, <3>2
  <2>4. Mergeable(g, b, m) /\ Mergeable(g, b, i)
    BY <1>2, <1>12, <1>13 DEF Mergeable
  <2>5. RunTo(g, b, m, x)
    <3>1. \A y \in m .. x : y = m \/ y = i
      BY <1>1, <1>11, <2>1, <2>3
    <3>. QED
      BY <2>4, <3>1 DEF RunTo
  <2>6. g.list \in Seq(Addresses) /\ Once(g.list) /\ m \in Indices(g.list) /\ g.list[m] = b
        /\ x \in Indices(g.list)
    BY <1>1, <1>2, <1>11, <2>1
  <2>. QED
    BY <2>3, <2>5, <2>6, RunIs
<1>15. b # p => Offset(p) # 0
  <2>. SUFFICES ASSUME b # p PROVE Offset(p) # 0
    OBVIOUS
  <2>1. m \in Indices(h.list) /\ m < i
    BY <1>1, <1>10, <1>11, <1>12
  <2>2. End(h, b) <= Offset(p)
    BY <1>11, <1>13, <2>1 DEF Tiled, InOrder
  <2>3. End(h, b) > Offset(b) /\ Offset(b) \in Nat /\ End(h, b) \in Nat /\ Offset(p) \in Nat
    BY <1>11, ListFacts DEF Tiled
  <2>. QED
    BY <2>2, <2>3
<1>16. CoalescedBut(g, Run(g, b))
  BY <1>14, CoalescedIs
<1>. QED
  BY <1>6, <1>13, <1>15, <1>16 DEF RunStarts

\* Unmapping a region puts no two blocks of one region side by side.
LEMMA DeleteCoalesced ==
    ASSUME NEW h \in Heaps, Tiled(h), CoalescedBut(h, {}), NEW i \in Indices(h.list),
           NEW b, h.list[i] = b, Alone(h, b, i), NEW g, NEW j, Deleted(g, h, b, i, j)
    PROVE  CoalescedBut(g, {})
<1>. SUFFICES ASSUME NEW x, Pair(g, x) PROVE FALSE
  BY CoalescedIs
<1>1. /\ h.list \in Seq(Addresses) /\ Len(h.list) \in Nat
      /\ \A y \in Indices(h.list) : h.list[y] \in DOMAIN h.block
  BY ListFacts DEF Tiled
<1>2. /\ g.list = RemoveAt(h.list, i) /\ DOMAIN g.block = DOMAIN h.block \ {b}
      /\ \A a \in DOMAIN g.block : g.block[a].used = h.block[a].used
  BY DEF Deleted
<1>3. /\ Len(g.list) = Len(h.list) - 1 /\ i \in 1 .. Len(h.list)
      /\ \A y \in Indices(g.list) : y < i => y \in Indices(h.list) /\ g.list[y] = h.list[y]
      /\ \A y \in Indices(g.list) : y >= i => y + 1 \in Indices(h.list) /\ g.list[y] = h.list[y + 1]
  <2>1. RemovedAt(g.list, h.list, i)
    BY <1>1, <1>2, RemovedAtIs
  <2>. QED
    BY <2>1 DEF RemovedAt
<1>4. /\ x \in Indices(g.list) /\ x + 1 \in Indices(g.list) /\ x \in Int
      /\ x < Len(g.list) /\ x >= 1 /\ i \in Int
      /\ Region(g.list[x]) = Region(g.list[x + 1])
      /\ ~g.block[g.list[x]].used /\ ~g.block[g.list[x + 1]].used
  BY <1>1, <1>3 DEF Pair, Indices
<1>5. \A a \in DOMAIN h.block : a # b => g.block[a].used = h.block[a].used
  BY <1>2
<1>6. \A y \in Indices(h.list) : y # i => h.list[y] # b
  BY DEF Alone
<1>7. \A y : ~Pair(h, y)
  BY CoalescedIs
<1>8. CASE x + 1 < i
  <2>1. /\ x \in Indices(h.list) /\ g.list[x] = h.list[x] /\ x < Len(h.list) /\ x # i
        /\ x + 1 \in Indices(h.list) /\ g.list[x + 1] = h.list[x + 1] /\ x + 1 # i
    BY <1>1, <1>3, <1>4, <1>8
  <2>2. Pair(h, x)
    BY <1>1, <1>4, <1>5, <1>6, <2>1 DEF Pair
  <2>. QED
    BY <1>7, <2>2
<1>9. CASE x + 1 = i
  <2>. DEFINE z == i + 1
  <2>1. /\ x \in Indices(h.list) /\ g.list[x] = h.list[x] /\ x < i /\ i < z
        /\ z \in Indices(h.list) /\ g.list[i] = h.list[z] /\ x # i
    BY SMTT(30), <1>3, <1>4, <1>9
  <2>. HIDE DEF z
  <2>2. Region(h.list[x]) = Region(h.list[z])
    BY <1>4, <1>9, <2>1
  <2>3. Region(h.list[i]) = Region(h.list[x])
    BY <2>1, <2>2 DEF Tiled, Together
  <2>. QED
    BY <2>1, <2>3 DEF Alone
<1>10. CASE x >= i
  <2>. DEFINE y == x + 1
  <2>1. /\ y \in Indices(h.list) /\ g.list[x] = h.list[y] /\ y < Len(h.list) /\ y # i
        /\ y + 1 \in Indices(h.list) /\ g.list[y] = h.list[y + 1] /\ y + 1 # i /\ y >= i
    BY <1>1, <1>3, <1>4, <1>10
  <2>2. /\ Region(g.list[x]) = Region(g.list[y])
        /\ ~g.block[g.list[x]].used /\ ~g.block[g.list[y]].used
    BY <1>4
  <2>. HIDE DEF y
  <2>3. Pair(h, y)
    BY <1>1, <1>5, <1>6, <2>1, <2>2 DEF Pair
  <2>. QED
    BY <1>7, <2>3
<1>. QED
  BY <1>4, <1>8, <1>9, <1>10

\* The block of a new region has no neighbour in it.
LEMMA NewRegionCoalesced ==
    ASSUME NEW h \in Heaps, Tiled(h), NEW loose, CoalescedBut(h, loose),
           NEW b \in Addresses, Offset(b) = 0, b \notin DOMAIN h.block,
           NEW size, NEW g, NewRegion(g, h, b, size)
    PROVE  CoalescedBut(g, loose)
<1>. SUFFICES ASSUME NEW x, Pair(g, x) PROVE g.list[x] \in loose
  BY CoalescedIs
<1>1. /\ h.list \in Seq(Addresses) /\ Len(h.list) \in Nat
      /\ \A y \in Indices(h.list) : h.list[y] \in DOMAIN h.block
  BY ListFacts DEF Tiled
<1>2. /\ g.list = Append(h.list, b) /\ \A a \in DOMAIN h.block : g.block[a] = h.block[a]
  BY DEF NewRegion, Added
<1>3. /\ Len(g.list) = Len(h.list) + 1
      /\ \A y \in 1 .. Len(h.list) : g.list[y] = h.list[y]
      /\ g.list[Len(h.list) + 1] = b
  BY <1>1, <1>2, AppendProperties
<1>4. /\ x \in Int /\ x >= 1 /\ x <= Len(h.list)
      /\ Region(g.list[x]) = Region(g.list[x + 1])
      /\ ~g.block[g.list[x]].used /\ ~g.block[g.list[x + 1]].used
  BY <1>1, <1>3 DEF Pair, Indices
<1>5. CASE x < Len(h.list)
  <2>1. x \in Indices(h.list) /\ x + 1 \in Indices(h.list) /\ g.list[x] = h.list[x]
        /\ g.list[x + 1] = h.list[x + 1]
    BY <1>1, <1>3, <1>4, <1>5 DEF Indices
  <2>2. Pair(h, x)
    BY <1>1, <1>2, <1>4, <1>5, <2>1 DEF Pair
  <2>. QED
    BY <2>1, <2>2, CoalescedIs
<1>6. CASE x = Len(h.list)
  <2>1. x \in Indices(h.list) /\ g.list[x] = h.list[x] /\ g.list[x + 1] = b
    BY <1>1, <1>3, <1>4, <1>6 DEF Indices
  <2>2. h.list[x] \in DOMAIN h.block /\ Region(h.list[x]) = Region(b)
    BY <1>1, <1>4, <2>1
  <2>3. <<Region(b), 0>> = b
    BY AddressIs
  <2>. QED
    BY <2>2, <2>3 DEF Tiled, Headed
<1>. QED
  BY <1>1, <1>4, <1>5, <1>6

-----------------------------------------------------------------------------
(* Sound, operation by operation.                                          *)

\* The blocks in use keep their sizes, except that of b may change.
Used(h) == {a \in DOMAIN h.block : h.block[a].used}
SizesKept(g, h, b) == \A a \in Used(h) \ {b} : g.block[a].size = h.block[a].size

\* The index of a block, and of an unused one in the free list.
LEMMA IndexOf ==
    ASSUME NEW h \in Heaps, NEW pending, NEW open, Sound(h, pending, open),
           NEW b \in DOMAIN h.block
    PROVE  /\ \E i \in Indices(h.list) : h.list[i] = b /\ Position(h, b) = i
           /\ ~h.block[b].used /\ b \notin pending => \E j \in Indices(h.free) : h.free[j] = b
<1>1. PICK i \in Indices(h.list) : h.list[i] = b
  BY ListFacts DEF Sound, Tiled
<1>2. Position(h, b) = i
  BY <1>1, ListFacts, PositionIs DEF Sound, Tiled, ListExact
<1>3. ~h.block[b].used /\ b \notin pending => \E j \in Indices(h.free) : h.free[j] = b
  BY FreeFacts DEF Sound
<1>. QED
  BY <1>1, <1>2, <1>3

\* An unused block has no unused right neighbour where there are no pairs.
LEMMA NothingRight ==
    ASSUME NEW h \in Heaps, NEW pending, NEW open, Sound(h, pending, open),
           CoalescedBut(h, {}), NEW b \in DOMAIN h.block, ~h.block[b].used
    PROVE  ~MergesRight(h, b)
<1>. SUFFICES ASSUME MergesRight(h, b) PROVE FALSE
  OBVIOUS
<1>1. PICK i \in Indices(h.list) : h.list[i] = b /\ Position(h, b) = i
  BY IndexOf
<1>2. Len(h.list) \in Nat /\ i \in Int /\ i + 1 <= Len(h.list) /\ Mergeable(h, b, i + 1)
  BY <1>1, ListFacts DEF Sound, Tiled, Indices, MergesRight
<1>3. Pair(h, i)
  BY <1>1, <1>2 DEF Pair, Mergeable
<1>. QED
  BY <1>3, CoalescedIs

\* The parts that only look at who is used and how large the blocks are.
LEMMA MarkedParts ==
    ASSUME NEW h \in Heaps, NEW pending, NEW open, Sound(h, pending, open),
           NEW b \in DOMAIN h.block, NEW u \in BOOLEAN, NEW g, Marked(g, h, b, u)
    PROVE  Tiled(g) /\ NodesFit(g)
<1>1. h.list \in Seq(Addresses)
  BY HeapFields
<1>2. /\ g.list = h.list /\ g.region_count = h.region_count /\ DOMAIN g.block = DOMAIN h.block
      /\ \A a \in DOMAIN h.block : g.block[a].size = h.block[a].size
  BY DEF Marked
<1>. QED
  BY <1>1, <1>2, SameTiles DEF Sound

\* RemoveFromFreeList of an unused block.
LEMMA TakeSound ==
    ASSUME NEW h \in Heaps, NEW pending, NEW open, Sound(h, pending, open),
           NEW b \in DOMAIN h.block, ~h.block[b].used, b \notin pending,
           NEW g, g = RemoveFromFreeList(h, b)
    PROVE  Marked(g, h, b, TRUE) /\ Sound(g, pending, open)
<1>1. PICK j \in Indices(h.free) : h.free[j] = b
  BY IndexOf
<1>2. Marked(g, h, b, TRUE) /\ g.free = RemoveAt(h.free, j)
  <2>1. Once(h.free)
    BY DEF Sound, FreeExact
  <2>. QED
    BY <1>1, <2>1, RemoveFromFreeListIs
<1>3. g \in Heaps /\ FreeExact(g, pending, open) /\ Tiled(g) /\ NodesFit(g)
  <2>1. FreeExact(h, pending, open)
    BY DEF Sound
  <2>2. FreeExact(g, pending, open)
    BY <1>1, <1>2, <2>1, TakeFree
  <2>3. Tiled(g) /\ NodesFit(g)
    BY <1>2, MarkedParts
  <2>. QED
    BY <1>2, <2>2, <2>3 DEF Marked
<1>4. FewFreeRegions(g, open)
  <2>1. \A a \in DOMAIN g.block \ open :
           Solo(g, a) => a \in DOMAIN h.block \ open /\ Solo(h, a)
    BY <1>2 DEF Solo, Marked
  <2>. QED
    BY <1>3, <2>1, FewerFreeRegions DEF Sound
<1>. QED
  BY <1>2, <1>3, <1>4 DEF Sound

\* A pending block gets into the free list.
LEMMA EnlistSound ==
    ASSUME NEW h \in Heaps, NEW pending, NEW open, Sound(h, pending, open),
           NEW p \in pending, p \in DOMAIN h.block, ~h.block[p].used,
           \A b \in open : b \in pending \/ (b \in DOMAIN h.block /\ h.block[b].used),
           NEW g, Enlisted(g, h, p)
    PROVE  Sound(g, pending \ {p}, open)
<1>1. /\ ~Listed(h.free, p)
      /\ \A b \in open : ~Listed(h.free, b)
  BY FreeFacts DEF Listed, Sound
<1>2. Marked(g, h, p, FALSE)
  BY DEF Enlisted
<1>3. FreeExact(g, pending \ {p}, open)
  BY <1>1, EnlistFree, OpenFree DEF Sound
<1>4. g \in Heaps /\ Tiled(g) /\ NodesFit(g)
  BY <1>2, MarkedParts DEF Marked
<1>5. FewFreeRegions(g, open)
  <2>1. \A a \in DOMAIN g.block \ open :
           Solo(g, a) => a \in DOMAIN h.block \ open /\ Solo(h, a)
    BY <1>2 DEF Solo, Marked
  <2>. QED
    BY <1>4, <2>1, FewerFreeRegions DEF Sound
<1>. QED
  BY <1>3, <1>4, <1>5 DEF Sound

\* A pending block that is used from now on.
LEMMA UseSound ==
    ASSUME NEW h \in Heaps, NEW b \in DOMAIN h.block, Sound(h, {b}, {b}),
           NEW g, g = SetUsed(h, b, TRUE)
    PROVE  Marked(g, h, b, TRUE) /\ Sound(g, {}, {})
<1>1. Marked(g, h, b, TRUE) /\ g.free = h.free
  BY SetUsedIs
<1>2. g \in Heaps /\ Tiled(g) /\ NodesFit(g)
  <2>. DEFINE P == {b}
              u == TRUE
  <2>1. Sound(h, P, P) /\ u \in BOOLEAN /\ Marked(g, h, b, u)
    BY <1>1
  <2>. HIDE DEF P, u
  <2>2. Tiled(g) /\ NodesFit(g)
    BY <2>1, MarkedParts
  <2>. QED
    BY <1>1, <2>2 DEF Marked
<1>3. FreeExact(g, {}, {b})
  <2>1. FreeExact(h, {b}, {b})
    BY DEF Sound
  <2>. DEFINE P == {b}
  <2>2. b \in P /\ FreeExact(h, P, {b}) /\ P \ {b} = {}
    BY <2>1
  <2>. HIDE DEF P
  <2>3. FreeExact(g, P \ {b}, {b})
    BY <1>1, <2>2, UseFree
  <2>. QED
    BY <2>2, <2>3
<1>4. FreeExact(g, {}, {})
  <2>1. \A a \in {b} : ~Listed(g.free, a)
    <3>1. g.block[b].used
      BY <1>1 DEF Marked
    <3>2. \A x \in Indices(g.free) : ~g.block[g.free[x]].used
      BY <1>2, <1>3, FreeFacts
    <3>. QED
      BY <3>1, <3>2 DEF Listed
  <2>. QED
    BY <1>2, <1>3, <2>1, CloseFree
<1>5. FewFreeRegions(g, {})
  <2>1. \A a \in DOMAIN g.block \ {} :
           Solo(g, a) => a \in DOMAIN h.block \ {b} /\ Solo(h, a)
    BY <1>1 DEF Solo, Marked
  <2>. QED
    BY <1>2, <2>1, FewerFreeRegions DEF Sound
<1>. QED
  BY <1>1, <1>2, <1>4, <1>5 DEF Sound

\* A block is cut off b, which is used or neither in the free list nor counted.
LEMMA CutSound ==
    ASSUME NEW h \in Heaps, NEW pending, NEW open, Sound(h, pending, open),
           NEW b \in DOMAIN h.block, h.block[b].used \/ b \in pending,
           NEW n \in Nat \ {0}, Splits(h, b, n), NEW g, g = Cut(h, b, n)
    PROVE  /\ \E i \in Indices(h.list) : h.list[i] = b /\ CutOff(g, h, b, n, i)
           /\ Sound(g, pending \cup {Remainder(b, n)}, open)
<1>1. PICK i \in Indices(h.list) : h.list[i] = b
  BY IndexOf
<1>2. Remainder(b, n) \notin DOMAIN h.block
  BY RemainderIsNew DEF Sound
<1>3. CutOff(g, h, b, n, i)
  BY <1>1, <1>2, CutIs DEF Sound, Tiled, ListExact
<1>4. g \in Heaps /\ Tiled(g) /\ NodesFit(g)
  BY <1>1, <1>3, CutTiled DEF Sound, CutOff
<1>5. FreeExact(g, pending \cup {Remainder(b, n)}, open)
  BY <1>3, CutFree DEF Sound
<1>6. FewFreeRegions(g, open)
  <2>1. Offset(Remainder(b, n)) # 0
    <3>1. HeaderSize \in Nat \ {0} /\ b \in Addresses
      BY HeapFields, AllocatorAssumption
    <3>. QED
      BY <3>1, AddressIs DEF Remainder, Offset
  <2>2. \A a \in DOMAIN g.block \ open :
           Solo(g, a) => a \in DOMAIN h.block \ open /\ Solo(h, a)
    BY <1>3, <2>1 DEF Solo, CutOff
  <2>. QED
    BY <1>4, <2>2, FewerFreeRegions DEF Sound
<1>. QED
  BY <1>1, <1>3, <1>4, <1>5, <1>6 DEF Sound

\* b takes in its right neighbour, which was at index i + 1 and is gone from g.
MergedRight(g, h, b) ==
    \E i \in Indices(h.list), j \in Indices(h.free) :
       /\ i < Len(h.list) /\ h.list[i] = b
       /\ Merged(g, h, b, h.list[i + 1], i + 1, j)
       /\ h.list[i + 1] \in DOMAIN h.block /\ h.list[i + 1] # b
       /\ ~h.block[h.list[i + 1]].used /\ Region(h.list[i + 1]) = Region(b)

\* One turn of MergeRightBlock, or of Realloc in place.
LEMMA MergeSound ==
    ASSUME NEW h \in Heaps, NEW open, Sound(h, {}, open),
           NEW b \in DOMAIN h.block, h.block[b].used \/ b \in open, MergesRight(h, b),
           NEW g, g = MergeNext(h, b)
    PROVE  MergedRight(g, h, b) /\ Sound(g, {}, open)
<1>1. PICK i \in Indices(h.list) : h.list[i] = b /\ Position(h, b) = i
  BY IndexOf
<1>. DEFINE k == i + 1
            r == h.list[k]
<1>2. /\ i \in Int /\ Len(h.list) \in Nat /\ i < Len(h.list) /\ k \in Indices(h.list)
      /\ ~h.block[r].used /\ Region(r) = Region(b) /\ k # i
  <2>1. Len(h.list) \in Nat /\ i \in Int /\ i >= 1
    BY ListFacts DEF Sound, Tiled, Indices
  <2>2. k <= Len(h.list) /\ Mergeable(h, b, k)
    BY <1>1 DEF MergesRight
  <2>. QED
    BY <2>1, <2>2 DEF Mergeable, Indices
<1>3. r \in DOMAIN h.block
  BY <1>2, ListFacts DEF Sound, Tiled
<1>4. r # b
  BY <1>1, <1>2 DEF Sound, Tiled, ListExact, Once
<1>5. PICK j \in Indices(h.free) : h.free[j] = r
  BY <1>2, <1>3, IndexOf
<1>6. ListsSound(h)
  BY ListsAreSound DEF Sound, Tiled
<1>7. g = MergeTwoBlock(h, b, r)
  BY <1>1 DEF MergeNext
<1>. HIDE DEF r
<1>8. h.list[k] = r
  BY DEF r
<1>. HIDE DEF k
<1>9. Merged(g, h, b, r, k, j)
  BY <1>2, <1>3, <1>4, <1>5, <1>6, <1>7, <1>8, MergeTwoBlockIs
<1>10. k = i + 1
  BY DEF k
<1>11. Merged(g, h, b, r, i + 1, j) /\ h.list[i + 1] = r
  BY <1>8, <1>9, <1>10
<1>12. g \in Heaps /\ Tiled(g) /\ NodesFit(g)
  <2>1. Tiled(h) /\ NodesFit(h)
    BY DEF Sound
  <2>2. Tiled(g) /\ NodesFit(g)
    BY <1>1, <1>2, <1>11, <2>1, MergeTiled
  <2>. QED
    BY <1>9, <2>2 DEF Merged
<1>13. FreeExact(g, {}, open)
  BY <1>3, <1>5, <1>9, MergeFree DEF Sound
<1>14. FewFreeRegions(g, open)
  <2>1. \A a \in DOMAIN g.block : a # b /\ Solo(g, a) => Solo(h, a)
    <3>1. b \in DOMAIN g.block
      BY <1>4, <1>9 DEF Merged
    <3>. QED
      BY <1>2, <1>9, <3>1 DEF Solo, Merged
  <2>2. b \in open \/ ~Solo(g, b)
    BY <1>4, <1>9 DEF Solo, Merged
  <2>3. \A a \in DOMAIN g.block \ open :
           Solo(g, a) => a \in DOMAIN h.block \ open /\ Solo(h, a)
    BY <1>9, <2>1, <2>2 DEF Merged
  <2>. QED
    BY <1>12, <2>3, FewerFreeRegions DEF Sound
<1>15. MergedRight(g, h, b)
  BY <1>1, <1>2, <1>3, <1>4, <1>11 DEF MergedRight
<1>. QED
  BY <1>12, <1>13, <1>14, <1>15 DEF Sound

\* After a merge where there were no pairs nothing more can be merged.
LEMMA MergedOnce ==
    ASSUME NEW h \in Heaps, NEW open, Sound(h, {}, open), CoalescedBut(h, {}),
           NEW b, NEW g, MergedRight(g, h, b), Sound(g, {}, open)
    PROVE  ~MergesRight(g, b)
<1>. SUFFICES ASSUME MergesRight(g, b) PROVE FALSE
  OBVIOUS
<1>1. PICK i \in Indices(h.list), j \in Indices(h.free) :
         /\ i < Len(h.list) /\ h.list[i] = b
         /\ Merged(g, h, b, h.list[i + 1], i + 1, j)
         /\ h.list[i + 1] \in DOMAIN h.block /\ h.list[i + 1] # b
         /\ ~h.block[h.list[i + 1]].used /\ Region(h.list[i + 1]) = Region(b)
  BY DEF MergedRight
<1>. DEFINE k == i + 1
            r == h.list[k]
<1>2. /\ h.list \in Seq(Addresses) /\ Len(h.list) \in Nat /\ Once(h.list)
      /\ \A x \in Indices(h.list) : h.list[x] \in DOMAIN h.block
  BY ListFacts DEF Sound, Tiled, ListExact
<1>3. /\ i \in Int /\ k \in Int /\ k = i + 1 /\ k \in Indices(h.list) /\ i \in 1 .. Len(h.list)
  BY <1>1, <1>2 DEF Indices
<1>4. Merged(g, h, b, r, k, j) /\ ~h.block[r].used /\ Region(r) = Region(b)
  BY <1>1
<1>5. g \in Heaps /\ g.list = RemoveAt(h.list, k) /\ DOMAIN g.block = DOMAIN h.block \ {r}
      /\ \A a \in DOMAIN g.block : g.block[a].used = h.block[a].used
  BY <1>4 DEF Merged
<1>. HIDE DEF k
<1>6. /\ Len(g.list) = Len(h.list) - 1
      /\ \A y \in Indices(g.list) : y < k => y \in Indices(h.list) /\ g.list[y] = h.list[y]
      /\ \A y \in Indices(g.list) : y >= k => y + 1 \in Indices(h.list) /\ g.list[y] = h.list[y + 1]
  <2>1. RemovedAt(g.list, h.list, k)
    BY <1>2, <1>3, <1>5, RemovedAtIs
  <2>. QED
    BY <2>1 DEF RemovedAt
<1>7. b \in DOMAIN g.block
  BY <1>1, <1>2, <1>3, <1>5 DEF Once
<1>8. PICK m \in Indices(g.list) : g.list[m] = b /\ Position(g, b) = m
  BY <1>5, <1>7, IndexOf
<1>9. m = i
  <2>1. m \in Int
    BY DEF Indices
  <2>2. CASE m < k
    BY <1>1, <1>2, <1>6, <1>8, <2>2 DEF Once
  <2>3. CASE m >= k
    <3>1. m + 1 \in Indices(h.list) /\ h.list[m + 1] = b
      BY <1>6, <1>8, <2>3
    <3>2. m + 1 = i
      BY <1>1, <1>2, <3>1 DEF Once
    <3>. QED
      BY <1>3, <2>1, <2>3, <3>2
  <2>. QED
    BY <1>3, <2>1, <2>2, <2>3
<1>10. k <= Len(g.list) /\ Mergeable(g, b, k)
  BY <1>3, <1>8, <1>9 DEF MergesRight
<1>11. k \in Indices(g.list) /\ k < Len(h.list)
  BY <1>2, <1>3, <1>6, <1>10 DEF Indices
<1>12. k + 1 \in Indices(h.list) /\ g.list[k] = h.list[k + 1]
  BY <1>3, <1>6, <1>11
<1>13. g.list[k] \in DOMAIN g.block
  BY <1>5, <1>11, ListFacts DEF Sound, Tiled
<1>14. Pair(h, k)
  BY <1>3, <1>4, <1>5, <1>10, <1>11, <1>12, <1>13 DEF Pair, Mergeable
<1>. QED
  BY <1>14, CoalescedIs

\* NewBlock's region, which is its thread's alone until it is marked used.
LEMMA NewRegionSound ==
    ASSUME NEW h \in Heaps, Sound(h, {}, {}), NEW b \in Addresses, Offset(b) = 0,
           b \notin DOMAIN h.block, NEW size \in Nat, size >= RegionSize,
           NEW g, NewRegion(g, h, b, size)
    PROVE  Sound(g, {b}, {b})
<1>1. g \in Heaps /\ Tiled(g) /\ NodesFit(g)
  BY NewRegionTiled DEF Sound, NewRegion, Added
<1>2. FreeExact(g, {b}, {b})
  <2>1. FreeExact(g, {} \cup {b}, {})
    BY NewRegionFree DEF Sound
  <2>2. {} \cup {b} = {b}
    OBVIOUS
  <2>. QED
    BY <2>1, <2>2, OpenFree
<1>3. FewFreeRegions(g, {b})
  <2>1. \A a \in DOMAIN g.block \ {b} :
           Solo(g, a) => a \in DOMAIN h.block \ {} /\ Solo(h, a)
    BY DEF Solo, NewRegion, Added
  <2>. QED
    BY <1>1, <2>1, FewerFreeRegions DEF Sound
<1>. QED
  BY <1>1, <1>2, <1>3 DEF Sound

\* Free's AddToFreeList: the block that MergeRightBlock starts from is open.
LEMMA ReleaseSound ==
    ASSUME NEW h \in Heaps, Sound(h, {}, {}), CoalescedBut(h, {}),
           NEW p \in DOMAIN h.block, h.block[p].used,
           NEW g, g = AddToFreeList(h, p)
    PROVE  /\ Marked(g, h, p, FALSE)
           /\ RunStarts(g, p, LeftmostUnused(g, p))
           /\ Sound(g, {}, {LeftmostUnused(g, p)})
<1>. DEFINE b == LeftmostUnused(g, p)
<1>1. \A i \in Indices(h.free) : h.free[i] \in DOMAIN h.block /\ h.free[i] # p
  BY FreeFacts DEF Sound
<1>2. Enlisted(g, h, p) /\ Marked(g, h, p, FALSE)
  BY <1>1, EnlistedIs DEF Enlisted
<1>3. PICK i \in Indices(h.list) : h.list[i] = p
  BY IndexOf
<1>4. RunStarts(g, p, b)
  BY <1>2, <1>3, FreedRun DEF Sound
<1>. HIDE DEF b
<1>5. g \in Heaps /\ Tiled(g) /\ NodesFit(g)
  BY <1>2, MarkedParts DEF Marked
<1>6. FreeExact(g, {}, {b})
  <2>1. ~Listed(h.free, p) /\ FreeExact(h, {}, {})
    BY <1>1 DEF Listed, Sound
  <2>2. FreeExact(g, {} \ {p}, {})
    BY <1>2, <2>1, EnlistFree
  <2>3. {} \ {p} = {}
    OBVIOUS
  <2>. QED
    BY <2>2, <2>3, OpenFree
<1>7. FewFreeRegions(g, {b})
  <2>1. \A a \in DOMAIN g.block \ {b} :
           Solo(g, a) => a \in DOMAIN h.block \ {} /\ Solo(h, a)
    <3>. SUFFICES ASSUME NEW a \in DOMAIN g.block \ {b}, Solo(g, a)
                  PROVE  a \in DOMAIN h.block /\ Solo(h, a)
      OBVIOUS
    <3>1. a # p
      BY <1>4 DEF RunStarts, Solo
    <3>. QED
      BY <1>2, <3>1 DEF Solo, Marked
  <2>. QED
    BY <1>5, <2>1, FewerFreeRegions DEF Sound
<1>. QED
  BY <1>2, <1>4, <1>5, <1>6, <1>7 DEF Sound, b

\* Resort puts b, the one open block, where its size belongs.
LEMMA ResortSound ==
    ASSUME NEW h \in Heaps, NEW b \in DOMAIN h.block, ~h.block[b].used,
           Sound(h, {}, {b}), NEW g, g = Resort(h, b)
    PROVE  Marked(g, h, b, FALSE) /\ Sound(g, {}, {b}) /\ FreeExact(g, {}, {})
<1>. DEFINE f == RemoveFromFreeList(h, b)
<1>1. Marked(f, h, b, TRUE) /\ Sound(f, {}, {b})
  BY TakeSound
<1>2. g = AddToFreeList(f, b)
  BY DEF Resort
<1>. HIDE DEF f
<1>3. f \in Heaps /\ b \in DOMAIN f.block /\ f.block[b].used /\ DOMAIN f.block = DOMAIN h.block
  BY <1>1 DEF Marked
<1>4. \A i \in Indices(f.free) : f.free[i] \in DOMAIN f.block /\ f.free[i] # b
  BY <1>1, <1>3, FreeFacts DEF Sound
<1>5. Enlisted(g, f, b) /\ Marked(g, f, b, FALSE)
  BY <1>2, <1>3, <1>4, EnlistedIs DEF Enlisted
<1>6. Marked(g, h, b, FALSE)
  BY <1>1, <1>5 DEF Marked
<1>7. g \in Heaps /\ Tiled(g) /\ NodesFit(g)
  BY <1>6, MarkedParts DEF Marked
<1>8. FreeExact(g, {}, {})
  <2>1. ~Listed(f.free, b) /\ FreeExact(f, {}, {b}) /\ \A a \in {b} : ~Listed(f.free, a)
    BY <1>1, <1>4 DEF Listed, Sound
  <2>2. FreeExact(g, {} \ {b}, {})
    BY <1>3, <1>5, <2>1, EnlistFree
  <2>3. {} \ {b} = {}
    OBVIOUS
  <2>. QED
    BY <2>2, <2>3
<1>9. FewFreeRegions(g, {b})
  <2>1. \A a \in DOMAIN g.block \ {b} :
           Solo(g, a) => a \in DOMAIN h.block \ {b} /\ Solo(h, a)
    BY <1>6 DEF Solo, Marked
  <2>. QED
    BY <1>7, <2>1, FewerFreeRegions DEF Sound
<1>. QED
  BY <1>6, <1>7, <1>8, <1>9, OpenFree DEF Sound

\* DeleteBlock unmaps a free region, unless there are few.
LEMMA DeleteSound ==
    ASSUME NEW h \in Heaps, NEW b \in DOMAIN h.block, Sound(h, {}, {b}),
           FreeExact(h, {}, {}), CoalescedBut(h, {}), IsBlockFree(h, b),
           NEW g, g = DeleteBlock(h, b)
    PROVE  /\ Sound(g, {}, {}) /\ CoalescedBut(g, {})
           /\ \E i, j : Deleted(g, h, b, i, j)
<1>1. PICK i \in Indices(h.list) : h.list[i] = b /\ Position(h, b) = i
  BY IndexOf
<1>2. ~h.block[b].used /\ Offset(b) = 0
  BY DEF IsBlockFree
<1>3. PICK j \in Indices(h.free) : h.free[j] = b
  BY <1>2, IndexOf
<1>4. ListsSound(h)
  BY ListsAreSound DEF Sound, Tiled
<1>5. Deleted(g, h, b, i, j)
  BY <1>1, <1>3, <1>4, DeleteBlockIs
<1>6. Alone(h, b, i)
  <2>1. i < Len(h.list) => Region(h.list[i + 1]) # Region(b)
    <3>1. i \in Int /\ Len(h.list) \in Nat
      BY ListFacts DEF Sound, Tiled, Indices
    <3>. QED
      BY <1>1, <3>1 DEF IsBlockFree
  <2>. QED
    BY <1>1, <1>2, <2>1, FreeRegionAlone DEF Sound
<1>7. g \in Heaps /\ Tiled(g) /\ NodesFit(g)
  <2>1. Tiled(g) /\ NodesFit(g)
    BY <1>1, <1>2, <1>5, <1>6, DeleteTiled DEF Sound
  <2>. QED
    BY <1>5, <2>1 DEF Deleted
<1>8. FreeExact(g, {}, {})
  BY <1>3, <1>5, DeleteFree
<1>9. CoalescedBut(g, {})
  BY <1>1, <1>5, <1>6, DeleteCoalesced DEF Sound
<1>10. FewFreeRegions(g, {})
  <2>1. \A a \in DOMAIN h.block : a # b => Region(a) # Region(b)
    <3>1. \A a \in DOMAIN h.block : \E x \in Indices(h.list) : h.list[x] = a
      BY ListFacts DEF Sound, Tiled
    <3>. QED
      BY <1>1, <1>6, <3>1 DEF Alone
  <2>2. \A a \in DOMAIN g.block \ {} :
           Solo(g, a) => a \in DOMAIN h.block \ {b} /\ Solo(h, a)
    BY <1>5, <2>1 DEF Solo, Deleted
  <2>. QED
    BY <1>7, <2>2, FewerFreeRegions DEF Sound
<1>. QED
  BY <1>5, <1>7, <1>8, <1>9, <1>10 DEF Sound

\* When the region of b is no surplus, b needs no exception.
LEMMA KeepSound ==
    ASSUME NEW h \in Heaps, NEW b \in DOMAIN h.block, Sound(h, {}, {b}),
           FreeExact(h, {}, {}), ~Surplus(h, b)
    PROVE  Sound(h, {}, {})
<1>1. FewFreeRegions(h, {})
  <2>1. CASE ~IsBlockFree(h, b)
    <3>1. FreeRegions(h) \ {b} = FreeRegions(h) \ {}
      BY <2>1 DEF FreeRegions
    <3>. QED
      BY <3>1 DEF Sound, FewFreeRegions
  <2>2. CASE h.region_count <= KeepRegions
    BY <2>2, FreeRegionsCounted DEF Sound
  <2>3. h.region_count \in Int /\ KeepRegions \in Nat
    BY HeapFields, AllocatorAssumption
  <2>. QED
    BY <2>1, <2>2, <2>3 DEF Surplus
<1>. QED
  BY <1>1 DEF Sound

-----------------------------------------------------------------------------
(* What is mapped.                                                         *)

\* A region with blocks is mapped up to where the last of them ends, and no other is.
Mapped(h, m) ==
    /\ \A b \in DOMAIN h.block : Region(b) \in DOMAIN m /\ End(h, b) <= m[Region(b)]
    /\ \A r \in DOMAIN m : \E b \in DOMAIN h.block : Region(b) = r /\ End(h, b) = m[r]

\* The blocks of g and of h reach equally far in each region.
ReachesAsFar(g, h) ==
    \A b \in DOMAIN h.block : \E a \in DOMAIN g.block : Region(a) = Region(b) /\ End(h, b) <= End(g, a)
SameEnds(g, h) == ReachesAsFar(g, h) /\ ReachesAsFar(h, g)

\* Where a block ends is a number.
LEMMA EndIs ==
    ASSUME NEW h \in Heaps, NEW b \in DOMAIN h.block
    PROVE  End(h, b) \in Nat \ {0} /\ Offset(b) \in Nat /\ h.block[b].size \in Nat \ {0}
<1>1. b \in Addresses /\ h.block[b].size \in Nat \ {0} /\ HeaderSize \in Nat \ {0}
  BY HeapFields, AllocatorAssumption
<1>2. Offset(b) \in Nat
  BY <1>1, AddressIs
<1>. QED
  BY <1>1, <1>2 DEF End

\* What is mapped is as the heap says when the blocks reach as far as before.
LEMMA MappedKept ==
    ASSUME NEW h \in Heaps, NEW g \in Heaps, NEW m, Mapped(h, m), SameEnds(g, h)
    PROVE  Mapped(g, m)
<1>1. ASSUME NEW a \in DOMAIN g.block
      PROVE  Region(a) \in DOMAIN m /\ End(g, a) <= m[Region(a)]
  <2>1. PICK b \in DOMAIN h.block : Region(b) = Region(a) /\ End(g, a) <= End(h, b)
    BY DEF SameEnds, ReachesAsFar
  <2>2. Region(b) \in DOMAIN m /\ End(h, b) <= m[Region(b)]
    BY DEF Mapped
  <2>3. PICK c \in DOMAIN h.block : End(h, c) = m[Region(b)]
    BY <2>2 DEF Mapped
  <2>4. End(g, a) \in Nat /\ End(h, b) \in Nat /\ End(h, c) \in Nat
    BY EndIs
  <2>. QED
    BY <2>1, <2>2, <2>3, <2>4
<1>2. ASSUME NEW r \in DOMAIN m
      PROVE  \E a \in DOMAIN g.block : Region(a) = r /\ End(g, a) = m[r]
  <2>1. PICK b \in DOMAIN h.block : Region(b) = r /\ End(h, b) = m[r]
    BY DEF Mapped
  <2>2. PICK a \in DOMAIN g.block : Region(a) = Region(b) /\ End(h, b) <= End(g, a)
    BY DEF SameEnds, ReachesAsFar
  <2>3. End(g, a) <= m[r]
    BY <1>1, <2>1, <2>2
  <2>4. End(g, a) \in Nat /\ End(h, b) \in Nat
    BY EndIs
  <2>. QED
    BY <2>1, <2>2, <2>3, <2>4
<1>. QED
  BY <1>1, <1>2 DEF Mapped

\* One operation after another.
LEMMA SameEndsTwice ==
    ASSUME NEW h \in Heaps, NEW f \in Heaps, NEW g \in Heaps, SameEnds(f, h), SameEnds(g, f)
    PROVE  SameEnds(g, h)
<1>1. ASSUME NEW x \in Heaps, NEW y \in Heaps, NEW z \in Heaps,
             ReachesAsFar(y, x), ReachesAsFar(z, y)
      PROVE  ReachesAsFar(z, x)
  <2>. SUFFICES ASSUME NEW b \in DOMAIN x.block
                PROVE  \E a \in DOMAIN z.block : Region(a) = Region(b) /\ End(x, b) <= End(z, a)
    BY DEF ReachesAsFar
  <2>1. PICK c \in DOMAIN y.block : Region(c) = Region(b) /\ End(x, b) <= End(y, c)
    BY <1>1 DEF ReachesAsFar
  <2>2. PICK a \in DOMAIN z.block : Region(a) = Region(c) /\ End(y, c) <= End(z, a)
    BY <1>1 DEF ReachesAsFar
  <2>3. End(x, b) \in Nat /\ End(y, c) \in Nat /\ End(z, a) \in Nat
    BY EndIs
  <2>. QED
    BY <2>1, <2>2, <2>3
<1>. QED
  BY <1>1 DEF SameEnds

\* A heap with the same blocks of the same sizes.
LEMMA SameSizesEnds ==
    ASSUME NEW h \in Heaps, NEW g \in Heaps, DOMAIN g.block = DOMAIN h.block,
           \A a \in DOMAIN h.block : g.block[a].size = h.block[a].size
    PROVE  SameEnds(g, h)
<1>1. \A a \in DOMAIN h.block : End(g, a) = End(h, a) /\ End(h, a) <= End(h, a)
  BY EndIs DEF End
<1>. QED
  BY <1>1 DEF SameEnds, ReachesAsFar

\* Whether a block is used does not matter.
LEMMA MarkedEnds ==
    ASSUME NEW h \in Heaps, NEW g, NEW b, NEW u, Marked(g, h, b, u)
    PROVE  SameEnds(g, h)
BY SameSizesEnds DEF Marked

\* A merged block ends where the right one of the two ended.
LEMMA MergedEnds ==
    ASSUME NEW h \in Heaps, Tiled(h), NEW b \in DOMAIN h.block, NEW g, MergedRight(g, h, b)
    PROVE  SameEnds(g, h)
<1>1. PICK i \in Indices(h.list), j \in Indices(h.free) :
         /\ i < Len(h.list) /\ h.list[i] = b
         /\ Merged(g, h, b, h.list[i + 1], i + 1, j)
         /\ h.list[i + 1] \in DOMAIN h.block /\ h.list[i + 1] # b
         /\ Region(h.list[i + 1]) = Region(b)
  BY DEF MergedRight
<1>. DEFINE r == h.list[i + 1]
<1>2. i \in Int /\ Len(h.list) \in Nat /\ i + 1 \in Indices(h.list) /\ i < i + 1 /\ i + 1 - 1 = i
  BY <1>1, ListFacts DEF Tiled, Indices
<1>3. Offset(r) = End(h, b)
  <2>1. End(h, b) <= Offset(r)
    BY <1>1, <1>2 DEF Tiled, InOrder
  <2>2. Offset(r) # 0
    BY <2>1, EndIs
  <2>3. End(h, h.list[i + 1 - 1]) = Offset(r)
    BY <1>2, <2>2 DEF Tiled, EndToEnd
  <2>. QED
    BY <1>1, <1>2, <2>3
<1>4. /\ g \in Heaps /\ DOMAIN g.block = DOMAIN h.block \ {r} /\ b \in DOMAIN g.block
      /\ \A a \in DOMAIN g.block :
            g.block[a].size = IF a = b THEN h.block[b].size + h.block[r].size + HeaderSize
                              ELSE h.block[a].size
      /\ r \in DOMAIN h.block /\ Region(r) = Region(b)
  BY <1>1 DEF Merged
<1>. HIDE DEF r
<1>5. End(g, b) = End(h, r)
  <2>1. g.block[b].size = h.block[b].size + h.block[r].size + HeaderSize
    BY <1>4
  <2>2. /\ h.block[b].size \in Nat /\ h.block[r].size \in Nat /\ HeaderSize \in Nat
        /\ Offset(b) \in Nat
    BY <1>4, EndIs, AllocatorAssumption
  <2>. QED
    BY <1>3, <2>1, <2>2 DEF End
<1>6. End(h, b) <= End(h, r) /\ End(h, r) <= End(h, r)
  <2>1. h.block[r].size \in Nat /\ HeaderSize \in Nat /\ End(h, b) \in Nat
    BY <1>4, EndIs, AllocatorAssumption
  <2>. QED
    BY <1>3, <2>1 DEF End
<1>7. \A a \in DOMAIN g.block : a # b => End(g, a) = End(h, a) /\ End(h, a) <= End(h, a)
  <2>. SUFFICES ASSUME NEW a \in DOMAIN g.block, a # b
                PROVE  End(g, a) = End(h, a) /\ End(h, a) <= End(h, a)
    OBVIOUS
  <2>1. g.block[a].size = h.block[a].size
    BY <1>4
  <2>2. End(h, a) \in Nat
    BY <1>4, EndIs
  <2>. QED
    BY <2>1, <2>2 DEF End
<1>8. ReachesAsFar(g, h)
  BY <1>4, <1>5, <1>6, <1>7 DEF ReachesAsFar
<1>9. ReachesAsFar(h, g)
  BY <1>4, <1>5, <1>6, <1>7 DEF ReachesAsFar
<1>. QED
  BY <1>8, <1>9 DEF SameEnds

\* What is cut off ends where the block it is cut from ended.
LEMMA CutEnds ==
    ASSUME NEW h \in Heaps, NEW b \in DOMAIN h.block, NEW n \in Nat \ {0}, NEW i, NEW g,
           CutOff(g, h, b, n, i)
    PROVE  SameEnds(g, h)
<1>. DEFINE r == Remainder(b, n)
<1>1. /\ g \in Heaps /\ DOMAIN g.block = DOMAIN h.block \cup {r} /\ r \notin DOMAIN h.block
      /\ \A a \in DOMAIN h.block : g.block[a].size = IF a = b THEN n ELSE h.block[a].size
      /\ g.block[r].size = h.block[b].size - n - HeaderSize /\ g.block[r].size \in Nat
  BY DEF CutOff
<1>2. Region(r) = Region(b) /\ Offset(r) = Offset(b) + HeaderSize + n
  BY DEF Remainder, Region, Offset
<1>. HIDE DEF r
<1>3. /\ h.block[b].size \in Nat /\ HeaderSize \in Nat \ {0} /\ Offset(b) \in Nat
  BY EndIs, AllocatorAssumption
<1>4. End(g, r) = End(h, b)
  BY <1>1, <1>2, <1>3 DEF End
<1>5. End(g, b) <= End(h, b) /\ End(h, b) <= End(h, b)
  <2>1. g.block[b].size = n
    BY <1>1
  <2>. QED
    BY <1>1, <1>3, <2>1 DEF End
<1>6. \A a \in DOMAIN h.block : a # b => End(g, a) = End(h, a) /\ End(h, a) <= End(h, a)
  <2>. SUFFICES ASSUME NEW a \in DOMAIN h.block, a # b
                PROVE  End(g, a) = End(h, a) /\ End(h, a) <= End(h, a)
    OBVIOUS
  <2>1. g.block[a].size = h.block[a].size
    BY <1>1
  <2>2. End(h, a) \in Nat
    BY EndIs
  <2>. QED
    BY <2>1, <2>2 DEF End
<1>7. ReachesAsFar(g, h)
  BY <1>1, <1>2, <1>4, <1>5, <1>6 DEF ReachesAsFar
<1>8. ReachesAsFar(h, g)
  BY <1>1, <1>2, <1>4, <1>5, <1>6 DEF ReachesAsFar
<1>. QED
  BY <1>7, <1>8 DEF SameEnds

\* A new region is mapped up to the end of its one block.
LEMMA NewRegionMapped ==
    ASSUME NEW h \in Heaps, Mapped(h, mapped), NEW r, r \notin DOMAIN mapped,
           NEW b, b = <<r, 0>>, NEW size \in Nat, NEW g, NewRegion(g, h, b, size)
    PROVE  Mapped(g, AllocMemory(r, size + HeaderSize))
<1>. DEFINE m == AllocMemory(r, size + HeaderSize)
<1>1. /\ DOMAIN m = DOMAIN mapped \cup {r} /\ m[r] = size + HeaderSize
      /\ \A q \in DOMAIN mapped : m[q] = mapped[q]
  BY DEF AllocMemory
<1>2. /\ DOMAIN g.block = DOMAIN h.block \cup {b} /\ g.block[b].size = size
      /\ \A a \in DOMAIN h.block : g.block[a] = h.block[a]
  BY DEF NewRegion, Added
<1>. HIDE DEF m
<1>3. Region(b) = r /\ End(g, b) = m[r] /\ m[r] <= m[r]
  <2>1. Region(b) = r /\ Offset(b) = 0 /\ HeaderSize \in Nat
    BY AllocatorAssumption DEF Region, Offset
  <2>. QED
    BY <1>1, <1>2, <2>1 DEF End
<1>4. \A a \in DOMAIN h.block : /\ Region(a) \in DOMAIN mapped /\ End(g, a) = End(h, a)
                                /\ End(h, a) <= mapped[Region(a)]
  BY <1>2 DEF Mapped, End
<1>5. \A a \in DOMAIN g.block : Region(a) \in DOMAIN m /\ End(g, a) <= m[Region(a)]
  BY <1>1, <1>2, <1>3, <1>4
<1>6. ASSUME NEW q \in DOMAIN m PROVE \E a \in DOMAIN g.block : Region(a) = q /\ End(g, a) = m[q]
  <2>1. CASE q = r
    BY <1>2, <1>3, <2>1
  <2>2. CASE q # r
    <3>1. PICK a \in DOMAIN h.block : Region(a) = q /\ End(h, a) = mapped[q]
      BY <1>1, <2>2 DEF Mapped
    <3>. QED
      BY <1>1, <1>2, <1>4, <2>2, <3>1
  <2>. QED
    BY <2>1, <2>2
<1>. QED
  BY <1>5, <1>6 DEF Mapped, m

\* The one block of a region is all of it, and DeleteBlock unmaps it all.
LEMMA DeleteMapped ==
    ASSUME NEW h \in Heaps, Tiled(h), Mapped(h, mapped),
           NEW b \in DOMAIN h.block, IsBlockFree(h, b),
           NEW g, NEW i, NEW j, Deleted(g, h, b, i, j)
    PROVE  Mapped(g, FreeMemory(Region(b), h.block[b].size + HeaderSize))
<1>. DEFINE r == Region(b)
            m == FreeMemory(r, h.block[b].size + HeaderSize)
<1>1. \A a \in DOMAIN h.block : a # b => Region(a) # Region(b)
  <2>1. PICK x \in Indices(h.list) : h.list[x] = b
    BY ListFacts DEF Tiled
  <2>2. Position(h, b) = x
    BY <2>1, ListFacts, PositionIs DEF Tiled, ListExact
  <2>3. Alone(h, b, x)
    <3>1. Offset(b) = 0
      BY DEF IsBlockFree
    <3>2. x < Len(h.list) => Region(h.list[x + 1]) # Region(b)
      <4>1. x \in Int /\ Len(h.list) \in Nat
        BY <2>1, ListFacts DEF Tiled, Indices
      <4>. QED
        BY <2>2, <4>1 DEF IsBlockFree
    <3>. QED
      BY <2>1, <3>1, <3>2, FreeRegionAlone
  <2>4. \A a \in DOMAIN h.block : \E y \in Indices(h.list) : h.list[y] = a
    BY ListFacts DEF Tiled
  <2>. QED
    BY <2>1, <2>3, <2>4 DEF Alone
<1>2. r \in DOMAIN mapped /\ mapped[r] = h.block[b].size + HeaderSize
  <2>1. r \in DOMAIN mapped
    BY DEF Mapped
  <2>2. PICK a \in DOMAIN h.block : Region(a) = r /\ End(h, a) = mapped[r]
    BY <2>1 DEF Mapped
  <2>3. End(h, b) = mapped[r]
    BY <1>1, <2>2
  <2>4. Offset(b) = 0 /\ h.block[b].size \in Nat /\ HeaderSize \in Nat
    BY EndIs, AllocatorAssumption DEF IsBlockFree
  <2>. QED
    BY <2>1, <2>3, <2>4 DEF End
<1>3. m = [q \in DOMAIN mapped \ {r} |-> mapped[q]]
  <2>1. ~(h.block[b].size + HeaderSize < mapped[r])
    <3>1. h.block[b].size \in Nat /\ HeaderSize \in Nat
      BY EndIs, AllocatorAssumption
    <3>. QED
      BY <1>2, <3>1
  <2>. QED
    BY <2>1 DEF FreeMemory
<1>4. DOMAIN m = DOMAIN mapped \ {r} /\ \A q \in DOMAIN m : m[q] = mapped[q]
  BY <1>3
<1>5. /\ DOMAIN g.block = DOMAIN h.block \ {b}
      /\ \A a \in DOMAIN g.block : End(g, a) = End(h, a)
  BY DEF Deleted, End
<1>. HIDE DEF m, r
<1>6. \A a \in DOMAIN g.block : Region(a) \in DOMAIN m /\ End(g, a) <= m[Region(a)]
  <2>. SUFFICES ASSUME NEW a \in DOMAIN g.block
                PROVE  Region(a) \in DOMAIN m /\ End(g, a) <= m[Region(a)]
    OBVIOUS
  <2>1. Region(a) \in DOMAIN mapped /\ End(h, a) <= mapped[Region(a)] /\ Region(a) # r
    BY <1>1, <1>5 DEF Mapped, r
  <2>. QED
    BY <1>4, <1>5, <2>1
<1>7. ASSUME NEW q \in DOMAIN m PROVE \E a \in DOMAIN g.block : Region(a) = q /\ End(g, a) = m[q]
  <2>1. q \in DOMAIN mapped /\ q # r
    BY <1>4
  <2>2. PICK a \in DOMAIN h.block : Region(a) = q /\ End(h, a) = mapped[q]
    BY <2>1 DEF Mapped
  <2>3. a \in DOMAIN g.block
    BY <1>5, <2>1, <2>2 DEF r
  <2>. QED
    BY <1>4, <1>5, <2>2, <2>3
<1>. QED
  BY <1>6, <1>7 DEF Mapped, m, r

-----------------------------------------------------------------------------
(* SplitBlock as a whole, and the search before it.                        *)

\* What SplitBlock does to a used block: it keeps at least n bytes, what is cut off is
\* unused, and no byte is lost.
Resettled(g, h, b, n) ==
    /\ b \in DOMAIN g.block /\ Used(g) = Used(h) /\ SizesKept(g, h, b)
    /\ g.block[b].size >= n /\ SameEnds(g, h)

\* SplitBlock of a used block that has no unused right neighbour.
LEMMA SplitSound ==
    ASSUME NEW h \in Heaps, Sound(h, {}, {}), CoalescedBut(h, {}),
           NEW b \in DOMAIN h.block, h.block[b].used, ~MergesRight(h, b),
           NEW n \in Nat \ {0}, h.block[b].size >= n,
           NEW g, g = SplitBlock(h, b, n)
    PROVE  Sound(g, {}, {}) /\ CoalescedBut(g, {}) /\ Resettled(g, h, b, n)
<1>1. CASE ~Splits(h, b, n)
  <2>1. g = h
    BY <1>1 DEF SplitBlock
  <2>2. SameEnds(h, h)
    BY SameSizesEnds
  <2>. QED
    BY <2>1, <2>2 DEF Resettled, SizesKept
<1>2. CASE Splits(h, b, n)
  <2>. DEFINE r == Remainder(b, n)
              k == SplitLink(h, b, n)
              c == Cut(h, b, n)
  <2>1. PICK i \in Indices(h.list) : h.list[i] = b
    BY IndexOf
  <2>2. r \notin DOMAIN h.block
    BY <1>2, RemainderIsNew DEF Sound
  <2>3. Added(k, h, r, h.block[b].size - n - HeaderSize, i + 1)
    BY <1>2, <2>1, <2>2, SplitLinkIs DEF Sound, Tiled, ListExact
  <2>4. PICK x \in Indices(h.list) : h.list[x] = b /\ CutOff(c, h, b, n, x)
    <3>1. CutOff(c, h, b, n, i)
      BY <1>2, <2>1, <2>2, CutIs DEF Sound, Tiled, ListExact
    <3>. QED
      BY <2>1, <3>1
  <2>5. Sound(c, {} \cup {r}, {})
    BY <1>2, CutSound
  <2>6. CoalescedBut(c, {})
    BY <2>4, CutCoalesced DEF Sound, Tiled
  <2>7. g = SplitShrink(AddToFreeList(k, r), b, n) /\ c = SplitShrink(k, b, n)
    BY <1>2 DEF SplitBlock, Cut
  <2>8. /\ k \in Heaps /\ b \in DOMAIN k.block /\ r \in DOMAIN k.block /\ b # r
        /\ \A y \in Indices(k.free) : k.free[y] \in DOMAIN k.block /\ k.free[y] # b
    <3>1. \A y \in Indices(h.free) : h.free[y] \in DOMAIN h.block /\ h.free[y] # b
      BY FreeFacts DEF Sound
    <3>. QED
      BY <2>2, <2>3, <3>1 DEF Added
  <2>. HIDE DEF k, c, r
  <2>9. Enlisted(g, c, r)
    BY <2>7, <2>8, EnlistThenShrink
  <2>10. c \in Heaps /\ r \in DOMAIN c.block /\ ~c.block[r].used /\ r \in {} \cup {r}
    BY <2>4 DEF CutOff, r
  <2>11. Sound(g, {}, {})
    <3>. DEFINE P == {} \cup {r}
    <3>1. Sound(c, P, {}) /\ r \in P /\ P \ {r} = {}
      BY <2>5
    <3>. HIDE DEF P
    <3>2. Sound(g, P \ {r}, {})
      BY <2>9, <2>10, <3>1, EnlistSound
    <3>. QED
      BY <3>1, <3>2
  <2>12. Marked(g, c, r, FALSE)
    BY <2>9 DEF Enlisted
  <2>13. CoalescedBut(g, {})
    <3>1. \A a \in DOMAIN c.block : c.block[a].used => g.block[a].used
      BY <2>10, <2>12 DEF Marked
    <3>2. g.list = c.list /\ ListExact(c)
      BY <2>5, <2>12 DEF Marked, Sound, Tiled
    <3>. QED
      BY <2>6, <2>10, <3>1, <3>2, CoalescedKept
  <2>14. Resettled(g, h, b, n)
    <3>1. /\ DOMAIN g.block = DOMAIN h.block \cup {r} /\ ~g.block[r].used /\ r \notin DOMAIN h.block
          /\ \A a \in DOMAIN h.block : /\ g.block[a].used = h.block[a].used
                                       /\ g.block[a].size = IF a = b THEN n ELSE h.block[a].size
      <4>1. /\ DOMAIN c.block = DOMAIN h.block \cup {r} /\ r \notin DOMAIN h.block
            /\ \A a \in DOMAIN h.block : /\ c.block[a].used = h.block[a].used
                                         /\ c.block[a].size = IF a = b THEN n ELSE h.block[a].size
        BY <2>4 DEF CutOff, r
      <4>. QED
        BY <2>12, <4>1 DEF Marked
    <3>2. Used(g) = Used(h)
      BY <3>1 DEF Used
    <3>3. SizesKept(g, h, b)
      BY <3>1 DEF SizesKept, Used
    <3>4. SameEnds(g, h)
      <4>1. SameEnds(c, h)
        BY <2>4, CutEnds
      <4>2. SameEnds(g, c)
        BY <2>10, <2>12, MarkedEnds
      <4>3. g \in Heaps
        BY <2>12 DEF Marked
      <4>. QED
        BY <2>10, <4>1, <4>2, <4>3, SameEndsTwice
    <3>. QED
      BY <3>1, <3>2, <3>3, <3>4 DEF Resettled
  <2>. QED
    BY <2>11, <2>13, <2>14
<1>. QED
  BY <1>1, <1>2

\* What FindFirstFit finds is in the free list and large enough.
LEMMA FirstFitIs ==
    ASSUME NEW h \in Heaps, NEW n, FindFirstFit(h, n) # None
    PROVE  \E i \in Indices(h.free) : /\ h.free[i] = FindFirstFit(h, n)
                                      /\ h.block[h.free[i]].size >= n
<1>. DEFINE I == {i \in 1 .. Len(h.free) : h.block[h.free[i]].size >= n}
            at == IF I # {} THEN Min(I) ELSE 0
<1>1. FindFirstFit(h, n) = IF at = 0 THEN None ELSE h.free[at]
  BY DEF FindFirstFit, SelectInSeq
<1>2. I # {} /\ FindFirstFit(h, n) = h.free[Min(I)]
  BY <1>1
<1>3. Min(I) \in I
  <2>1. I \in SUBSET Nat
    OBVIOUS
  <2>. QED
    BY <1>2, <2>1, MinIsLeast
<1>. QED
  BY <1>2, <1>3 DEF Indices

=============================================================================
