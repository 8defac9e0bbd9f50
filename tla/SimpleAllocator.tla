--------------------------- MODULE SimpleAllocator ---------------------------
(***************************************************************************)
(* gtl::SimpleMemoryAllocator (memory/simple_allocator.h, .cc), behind     *)
(* every container of the library: mapped regions cut into blocks, each    *)
(* block preceded by its header, one list of all blocks and one of the     *)
(* unused blocks sorted by size.                                           *)
(*                                                                         *)
(* A block is named by the address of its header, <<region, offset>>; its  *)
(* data starts HeaderSize bytes further.  Sizes are bytes.  Critical       *)
(* sections are one step, except Free's, cut where MergeBlock has read the *)
(* used flag of the left neighbours and not yet acted on it, and then at   *)
(* every turn of MergeRightBlock's loop.  Malloc works on a new region     *)
(* without mutex_: each of its list operations is a step.                  *)
(* A list operation is one step even where it runs unlocked, so no         *)
(* property is claimed once "raced" is set: from there on the code has a   *)
(* data race, of which the steps below show some outcomes and not all.     *)
(* Operators named Slip... are plausible mistakes in the definition that   *)
(* follows them, for the properties to notice.                             *)
(***************************************************************************)
EXTENDS Integers, Sequences, FiniteSets, SequencesExt

CONSTANTS Threads,     \* threads that call the allocator
          Sizes,       \* sizes they ask for
          None,        \* no thread, no pointer
          HeaderSize,  \* kBlockHeaderSize
          MinData,     \* kMinBlockMemorySize
          NameSize,    \* kMaxBlockNameSize: the name is what a header begins with
          NodeSize,    \* sizeof(ListNode): written into the data of an unused block
          RegionSize,  \* kAllocateBlockMemorySize
          KeepRegions, \* kMaxBlockCount
          MaxRegions,  \* bound: regions mapped at a time
          MaxHeld      \* bound: pointers the callers hold at a time

ASSUME AllocatorAssumption ==
    /\ None \notin Threads \cup ((1 .. MaxRegions) \X Nat)
    /\ MaxRegions \in Nat
    /\ Sizes \subseteq Nat \ {0}
    /\ {HeaderSize, MinData, NameSize, NodeSize, RegionSize, KeepRegions} \subseteq Nat \ {0}
    /\ NodeSize <= MinData /\ MinData <= NameSize
    /\ NameSize < HeaderSize /\ HeaderSize <= RegionSize

VARIABLES heap,   \* the allocator's own state, see TypeOK
          mapped, \* the system's: how many bytes of each region are mapped
          mutex,  \* the thread that holds mutex_ between two steps, or None
          call,   \* where each thread is, and the locals of its call
          held,   \* the callers' pointers, with the size each was promised
          raced,  \* history: a step touched the lists while an unlocked one did
          fault   \* "check": a GTL_CHECK failed; "null": a null pointer was followed

vars == <<heap, mapped, mutex, call, held, raced, fault>>

Idle == [at |-> "idle", size |-> 0, ptr |-> None, block |-> None]

Regions == 1 .. MaxRegions
Addresses == Regions \X Nat

TypeOK ==
    /\ DOMAIN heap = {"block", "list", "free", "region_count"}
    /\ DOMAIN heap.block \subseteq Addresses
    /\ \A b \in DOMAIN heap.block : heap.block[b].size \in Nat \ {0} /\ heap.block[b].used \in BOOLEAN
    /\ ToSet(heap.list) \subseteq DOMAIN heap.block
    /\ ToSet(heap.free) \subseteq DOMAIN heap.block
    /\ heap.region_count \in 0 .. MaxRegions
    /\ DOMAIN mapped \subseteq Regions /\ \A r \in DOMAIN mapped : mapped[r] \in Nat \ {0}
    /\ mutex \in Threads \cup {None}
    /\ \A t \in Threads :
          /\ call[t].at \in {"idle", "malloc", "new", "link", "enlist", "shrink", "mark",
                             "free", "merge", "realloc"}
          /\ call[t].size \in Sizes \cup {0}
          /\ {call[t].ptr, call[t].block} \subseteq Addresses \cup {None}
    /\ \A p \in DOMAIN held : p \in Addresses /\ held[p] \in Sizes
    /\ raced \in BOOLEAN /\ fault \in {"none", "check", "null"}

Init ==
    /\ heap = [block |-> <<>>, list |-> <<>>, free |-> <<>>, region_count |-> 0]
    /\ mapped = <<>>
    /\ mutex = None
    /\ call = [t \in Threads |-> Idle]
    /\ held = <<>>
    /\ raced = FALSE /\ fault = "none"

-----------------------------------------------------------------------------
(* The private operations, from one state of the heap to the next.         *)

Region(b) == b[1]
Offset(b) == b[2]
Position(h, b) == SelectInSeq(h.list, LAMBDA a : a = b)

SetUsed(h, b, used) == [h EXCEPT !.block[b].used = used]

RemoveFromFreeList(h, b) == SetUsed([h EXCEPT !.free = RemoveFirst(@, b)], b, TRUE)

\* Before the first block that is not smaller, or at the end.
AddToFreeList(h, b) ==
    LET at == SelectInSeq(h.free, LAMBDA a : h.block[a].size >= h.block[b].size)
    IN  SetUsed([h EXCEPT !.free = InsertAt(@, IF at = 0 THEN Len(@) + 1 ELSE at, b)], b, FALSE)

RemoveFromBlockList(h, b) ==
    [h EXCEPT !.list = RemoveFirst(@, b),
              !.block = [a \in DOMAIN @ \ {b} |-> @[a]]]

AddHeader(h, b, size) ==
    [h EXCEPT !.block = [a \in DOMAIN @ \cup {b} |->
                            IF a = b THEN [size |-> size, used |-> FALSE] ELSE @[a]]]

SlipSplits(h, b, n) == h.block[b].size - n >= HeaderSize  \* a remainder without data
SlipRemainder(b, n) == <<Region(b), Offset(b) + HeaderSize>>  \* overlaps b

\* SplitBlock, in the order of its statements.
Splits(h, b, n) == h.block[b].size - n >= HeaderSize + MinData
Remainder(b, n) == <<Region(b), Offset(b) + HeaderSize + n>>
SplitLink(h, b, n) ==
    LET r == Remainder(b, n)
    IN  [AddHeader(h, r, h.block[b].size - n - HeaderSize)
           EXCEPT !.list = InsertAt(@, Position(h, b) + 1, r)]
SplitShrink(h, b, n) == [h EXCEPT !.block[b].size = n]
SplitBlock(h, b, n) ==
    IF Splits(h, b, n)
    THEN SplitShrink(AddToFreeList(SplitLink(h, b, n), Remainder(b, n)), b, n)
    ELSE h

MergeTwoBlock(h, l, r) ==
    [RemoveFromBlockList(RemoveFromFreeList(h, r), r)
       EXCEPT !.block[l].size = @ + h.block[r].size + HeaderSize]

SlipMergeable(h, b, i) == Region(h.list[i]) = Region(b)  \* used blocks too

\* Both loops stop at a used block, at another region and at the list's head.
Mergeable(h, b, i) == ~h.block[h.list[i]].used /\ Region(h.list[i]) = Region(b)

SlipLeftmostUnused(h, b) == b  \* left neighbours are not merged

\* MergeBlock: the leftmost of the unused blocks that reach up to b.
LeftmostUnused(h, b) ==
    LET pos == Position(h, b)
    IN  h.list[CHOOSE i \in 1 .. pos : /\ \A j \in i .. pos - 1 : Mergeable(h, b, j)
                                       /\ i > 1 => ~Mergeable(h, b, i - 1)]

\* One turn of the loop of MergeRightBlock, and the re-sort that follows the loop.
MergesRight(h, b) ==
    LET next == Position(h, b) + 1
    IN  next <= Len(h.list) /\ Mergeable(h, b, next)
MergeNext(h, b) == MergeTwoBlock(h, b, h.list[Position(h, b) + 1])

SlipResort(h, b) == h  \* b keeps the place of its old size
Resort(h, b) == AddToFreeList(RemoveFromFreeList(h, b), b)

IsBlockFree(h, b) ==
    /\ ~h.block[b].used
    /\ Offset(b) = 0
    /\ LET next == Position(h, b) + 1
       IN  next <= Len(h.list) => Region(h.list[next]) # Region(b)

SlipSurplus(h, b) == h.region_count > KeepRegions + 1 /\ IsBlockFree(h, b)  \* one too many
Surplus(h, b) == h.region_count > KeepRegions /\ IsBlockFree(h, b)

DeleteBlock(h, b) ==
    [RemoveFromBlockList(RemoveFromFreeList(h, b), b) EXCEPT !.region_count = @ - 1]

\* mmap and munmap: what is mapped afterwards.  munmap is given the first n bytes of
\* region r, and what is beyond them stays mapped.
AllocMemory(r, n) == [q \in DOMAIN mapped \cup {r} |-> IF q = r THEN n ELSE mapped[q]]
SlipFreeMemory(r, n) == [mapped EXCEPT ![r] = HeaderSize]  \* the header is not counted
FreeMemory(r, n) == IF n < mapped[r] THEN [mapped EXCEPT ![r] = @ - n]
                    ELSE [q \in DOMAIN mapped \ {r} |-> mapped[q]]

FindFirstFit(h, n) ==
    LET i == SelectInSeq(h.free, LAMBDA a : h.block[a].size >= n)
    IN  IF i = 0 THEN None ELSE h.free[i]

-----------------------------------------------------------------------------
(* Steps.  Whoever touches the heap is inside it; "inside" is legal for    *)
(* one thread at a time, and mutex_ alone does not guarantee it.           *)

Inside(t) == mutex = t \/ call[t].at \in {"link", "enlist", "shrink", "mark"}

Touch(t) == /\ fault = "none"
            /\ raced' = (raced \/ \E u \in Threads \ {t} : Inside(u))

Locked(t) == mutex = None /\ Touch(t)

\* Malloc returns block b to its caller: a thread, or Realloc, which copies the
\* old data and goes on to free the old block.
MallocReturns(t, b) ==
    /\ held' = [p \in DOMAIN held \cup {b} |-> IF p = b THEN call[t].size ELSE held[p]]
    /\ call' = [call EXCEPT ![t] = IF call[t].ptr = None THEN Idle
                                   ELSE [Idle EXCEPT !.at = "free", !.ptr = call[t].ptr]]

\* Callers hold what they were given and pass each pointer to one call at a time.
Owned(p) == p \in DOMAIN held /\ \A t \in Threads : call[t].ptr # p

MallocCall(t, n) ==
    /\ fault = "none" /\ call[t] = Idle
    /\ Cardinality(DOMAIN held) + Cardinality({u \in Threads : call[u].size > 0}) < MaxHeld
    /\ call' = [call EXCEPT ![t] = [Idle EXCEPT !.at = "malloc", !.size = n]]
    /\ UNCHANGED <<heap, mapped, mutex, held, raced, fault>>

MallocHit(t) ==
    /\ call[t].at = "malloc" /\ Locked(t)
    /\ LET n == call[t].size
           b == FindFirstFit(heap, n)
       IN  /\ b # None
           /\ IF heap.block[b].used
              THEN fault' = "check" /\ UNCHANGED <<heap, call, held>>
              ELSE /\ heap' = SplitBlock(RemoveFromFreeList(heap, b), b, n)
                   /\ MallocReturns(t, b)
                   /\ UNCHANGED fault
    /\ UNCHANGED <<mapped, mutex>>

MallocMiss(t) ==
    /\ call[t].at = "malloc" /\ Locked(t)
    /\ FindFirstFit(heap, call[t].size) = None
    /\ call' = [call EXCEPT ![t].at = "new"]
    /\ UNCHANGED <<heap, mapped, mutex, held, fault>>

\* mmap fails: Malloc and Realloc return nullptr, and the old pointer stays good.
NewBlockFails(t) ==
    /\ fault = "none" /\ call[t].at = "new"
    /\ call' = [call EXCEPT ![t] = Idle]
    /\ UNCHANGED <<heap, mapped, mutex, held, raced, fault>>

NewBlock(t) ==
    /\ call[t].at = "new" /\ Touch(t)
    /\ \E r \in Regions :
          LET b    == <<r, 0>>
              n    == call[t].size
              size == IF n < RegionSize THEN RegionSize ELSE n
          IN  /\ r \notin DOMAIN mapped
              /\ mapped' = AllocMemory(r, size + HeaderSize)
              /\ heap' = [AddHeader(heap, b, size) EXCEPT !.list = Append(@, b),
                                                          !.region_count = @ + 1]
              /\ call' = [call EXCEPT ![t].block = b,
                                      ![t].at = IF Splits(heap', b, n) THEN "link" ELSE "mark"]
    /\ UNCHANGED <<mutex, held, fault>>

NewBlockLink(t) ==
    /\ call[t].at = "link" /\ Touch(t)
    /\ heap' = SplitLink(heap, call[t].block, call[t].size)
    /\ call' = [call EXCEPT ![t].at = "enlist"]
    /\ UNCHANGED <<mapped, mutex, held, fault>>

NewBlockEnlist(t) ==
    /\ call[t].at = "enlist" /\ Touch(t)
    /\ heap' = AddToFreeList(heap, Remainder(call[t].block, call[t].size))
    /\ call' = [call EXCEPT ![t].at = "shrink"]
    /\ UNCHANGED <<mapped, mutex, held, fault>>

NewBlockShrink(t) ==
    /\ call[t].at = "shrink" /\ Touch(t)
    /\ heap' = SplitShrink(heap, call[t].block, call[t].size)
    /\ call' = [call EXCEPT ![t].at = "mark"]
    /\ UNCHANGED <<mapped, mutex, held, fault>>

NewBlockMark(t) ==
    /\ call[t].at = "mark" /\ Touch(t)
    /\ heap' = SetUsed(heap, call[t].block, TRUE)
    /\ MallocReturns(t, call[t].block)
    /\ UNCHANGED <<mapped, mutex, fault>>

FreeCall(t, p) ==
    /\ fault = "none" /\ call[t] = Idle /\ Owned(p)
    /\ call' = [call EXCEPT ![t] = [Idle EXCEPT !.at = "free", !.ptr = p]]
    /\ UNCHANGED <<heap, mapped, mutex, held, raced, fault>>

\* Lock, AddToFreeList and MergeBlock up to its call of MergeRightBlock.
FreeEnlist(t) ==
    /\ call[t].at = "free" /\ Locked(t)
    /\ LET p == call[t].ptr
       IN  /\ heap' = AddToFreeList(heap, p)
           /\ held' = [q \in DOMAIN held \ {p} |-> held[q]]
           /\ call' = [call EXCEPT ![t] = [Idle EXCEPT !.at = "merge",
                                                       !.block = LeftmostUnused(heap', p)]]
    /\ mutex' = t
    /\ UNCHANGED <<mapped, fault>>

\* MergeRightBlock.  It checks that the block is unused before the loop and again
\* in its re-sort, and follows the block's free-list pointers: a block found used
\* ends in a failed check, here at the first step that sees it.
FreeMergeRight(t) ==
    /\ call[t].at = "merge" /\ Touch(t)
    /\ LET b == call[t].block
       IN  /\ ~heap.block[b].used /\ MergesRight(heap, b)
           /\ heap' = MergeNext(heap, b)
    /\ UNCHANGED <<mapped, mutex, call, held, fault>>

\* The end of MergeRightBlock, DeleteBlock of a surplus region, unlock.
FreeMerge(t) ==
    /\ call[t].at = "merge" /\ Touch(t)
    /\ LET b      == call[t].block
           sorted == Resort(heap, b)
       IN  /\ heap.block[b].used \/ ~MergesRight(heap, b)
           /\ IF heap.block[b].used
              THEN fault' = "check" /\ UNCHANGED <<heap, mapped>>
              ELSE IF b \notin ToSet(heap.free)
              THEN fault' = "null" /\ UNCHANGED <<heap, mapped>>
              ELSE /\ IF Surplus(sorted, b)
                      THEN /\ heap' = DeleteBlock(sorted, b)
                           /\ mapped' = FreeMemory(Region(b), sorted.block[b].size + HeaderSize)
                      ELSE heap' = sorted /\ UNCHANGED mapped
                   /\ UNCHANGED fault
    /\ call' = [call EXCEPT ![t] = Idle]
    /\ mutex' = None
    /\ UNCHANGED held

\* Realloc reads the size of the caller's own block without mutex_.
ReallocKeep(t, p, n) ==
    /\ fault = "none" /\ call[t] = Idle /\ Owned(p)
    /\ heap.block[p].size >= n
    /\ held' = [held EXCEPT ![p] = n]
    /\ UNCHANGED <<heap, mapped, mutex, call, raced, fault>>

ReallocCall(t, p, n) ==
    /\ fault = "none" /\ call[t] = Idle /\ Owned(p)
    /\ heap.block[p].size < n
    /\ Cardinality(DOMAIN held) + Cardinality({u \in Threads : call[u].size > 0}) < MaxHeld
    /\ call' = [call EXCEPT ![t] = [Idle EXCEPT !.at = "realloc", !.ptr = p, !.size = n]]
    /\ UNCHANGED <<heap, mapped, mutex, held, raced, fault>>

SlipExtends(h, p, n) == MergesRight(h, p)  \* the size is not compared

\* The next block can be merged into p to hold n bytes.
Extends(h, p, n) ==
    /\ MergesRight(h, p)
    /\ h.block[p].size + h.block[h.list[Position(h, p) + 1]].size + HeaderSize >= n

ReallocExtend(t) ==
    /\ call[t].at = "realloc" /\ Locked(t)
    /\ LET p == call[t].ptr
           n == call[t].size
       IN  /\ Extends(heap, p, n)
           /\ heap' = SplitBlock(MergeNext(heap, p), p, n)
           /\ held' = [held EXCEPT ![p] = n]
    /\ call' = [call EXCEPT ![t] = Idle]
    /\ UNCHANGED <<mapped, mutex, fault>>

ReallocMove(t) ==
    /\ call[t].at = "realloc" /\ Locked(t)
    /\ ~Extends(heap, call[t].ptr, call[t].size)
    /\ call' = [call EXCEPT ![t].at = "malloc"]
    /\ UNCHANGED <<heap, mapped, mutex, held, fault>>

-----------------------------------------------------------------------------

Next ==
    \E t \in Threads :
       \/ \E n \in Sizes : MallocCall(t, n)
       \/ MallocHit(t) \/ MallocMiss(t)
       \/ NewBlockFails(t) \/ NewBlock(t) \/ NewBlockLink(t) \/ NewBlockEnlist(t)
       \/ NewBlockShrink(t) \/ NewBlockMark(t)
       \/ \E p \in DOMAIN held : FreeCall(t, p)
       \/ FreeEnlist(t) \/ FreeMergeRight(t) \/ FreeMerge(t)
       \/ \E p \in DOMAIN held, n \in Sizes : ReallocKeep(t, p, n) \/ ReallocCall(t, p, n)
       \/ ReallocExtend(t) \/ ReallocMove(t)

Spec == Init /\ [][Next]_vars

-----------------------------------------------------------------------------
(* Properties                                                              *)

\* No thread is inside the heap, and the history has no data race.
Quiet == ~raced /\ \A t \in Threads : ~Inside(t)

Blocks == DOMAIN heap.block
Follows(a, b) == \E i \in 1 .. Len(heap.list) - 1 : heap.list[i] = a /\ heap.list[i + 1] = b

\* The blocks of a region lie end to end in the order of the block list, from the
\* start of the region to the end of what is mapped: what SplitBlock cuts MergeTwoBlock
\* can undo, and no byte is lost.  A region without blocks has nothing mapped: what
\* DeleteBlock unmaps, by the size of the one block left, is all that NewBlock mapped.
RegionsTiled ==
    Quiet =>
       /\ Cardinality(ToSet(heap.list)) = Len(heap.list) /\ ToSet(heap.list) = Blocks
       /\ heap.region_count = Cardinality({b \in Blocks : Offset(b) = 0})
       /\ DOMAIN mapped = {Region(b) : b \in Blocks}
       /\ \A b \in Blocks :
             /\ \/ Offset(b) = 0
                \/ \E a \in Blocks : /\ Follows(a, b) /\ Region(a) = Region(b)
                                     /\ Offset(a) + HeaderSize + heap.block[a].size = Offset(b)
             /\ \/ Offset(b) + HeaderSize + heap.block[b].size = mapped[Region(b)]
                \/ \E a \in Blocks : Follows(b, a) /\ Region(a) = Region(b)

\* The free list holds every unused block once, smallest first (which makes the
\* first fit the best fit).
FreeListExact ==
    Quiet =>
       /\ Cardinality(ToSet(heap.free)) = Len(heap.free)
       /\ ToSet(heap.free) = {b \in Blocks : ~heap.block[b].used}
       /\ \A i \in 1 .. Len(heap.free) - 1 :
             heap.block[heap.free[i]].size <= heap.block[heap.free[i + 1]].size

\* No two unused blocks of a region are neighbours: Free merges all it can, and no
\* other operation leaves two of them side by side.
Coalesced ==
    Quiet => \A a, b \in Blocks : /\ Follows(a, b) /\ Region(a) = Region(b)
                                  => heap.block[a].used \/ heap.block[b].used

\* The used blocks are those whose pointers callers hold, each large enough: no
\* block is lost, whichever way Realloc and a failing mmap go.
UsedIsHeld ==
    Quiet => /\ DOMAIN held = {b \in Blocks : heap.block[b].used}
             /\ \A p \in DOMAIN held : heap.block[p].size >= held[p]

\* A block may be smaller than the free-list node Free writes into its data; the
\* node then spills over the name of the next header and over nothing else.
FreeNodeFits ==
    Quiet => \A b \in ToSet(heap.free) :
                \/ heap.block[b].size >= NodeSize
                \/ /\ \E a \in Blocks : Follows(b, a) /\ Region(a) = Region(b)
                   /\ NodeSize - heap.block[b].size <= NameSize

\* At most kMaxBlockCount regions are kept although nothing in them is in use.
FreeRegionsBounded ==
    Quiet => Cardinality({b \in Blocks : IsBlockFree(heap, b)}) <= KeepRegions

\* Without a data race no GTL_CHECK fails and no list node is followed that is in
\* no list.
NoFault == ~raced => fault = "none"

\* The allocator implements Heap: it never hands out bytes that are in use.
Extent(p) == [region |-> Region(p),
              from   |-> Offset(p) + HeaderSize,
              to     |-> Offset(p) + HeaderSize + held[p]]
Extents == {Extent(p) : p \in DOMAIN held}
Abstract == INSTANCE Heap WITH live <- Extents
ImplementsHeap == Abstract!Init /\ [][~raced' => Abstract!Next \/ UNCHANGED Extents]_vars

\* The conditions the code asserts hold: MergeRightBlock is given an unused block
\* (GTL_CHECK, memory/simple_allocator.cc:213).
ChecksHold == fault # "check"

=============================================================================
