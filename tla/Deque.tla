------------------------------- MODULE Deque -------------------------------
(***************************************************************************)
(* gtl::Deque<T> (container/deque.h): blocks of block_capacity_ elements,  *)
(* found through a map of pointers to them (d_).                           *)
(*                                                                         *)
(* A position is the block's index in the map times block_capacity_ plus   *)
(* the offset in the block, so that the iterators, with their carries from *)
(* block to block, are integers.  cells covers all the map; the cells of a *)
(* block that is not allocated are NoBlock.  capacity is the map's: 0 for  *)
(* a deque without one, whose iterators are null.                          *)
(*                                                                         *)
(* An access to a block that is not there makes a cell Bad, and no call    *)
(* follows it.  As in Vector, the calls the code gets wrong are modelled   *)
(* as it does them, and each has a name under which the properties leave   *)
(* it out.                                                                 *)
(***************************************************************************)
EXTENDS Storage

CONSTANTS block_capacity_,  \* 16
          Values,           \* the elements
          MaxSize,          \* bound: elements
          MaxMap            \* bound: capacity of the map

VARIABLE deque

NoDeque == [capacity |-> 0, begin |-> 0, end |-> 0, cells |-> <<>>]

Init == deque = NoDeque

Block(p) == p \div block_capacity_
Offset(p) == p % block_capacity_

Size(d) == IF d.capacity = 0 THEN 0 ELSE d.end - d.begin
Empty(d) == Size(d) = 0
Elements(d) == Cells(d.cells, d.begin, d.begin + Size(d))

-----------------------------------------------------------------------------
(* The map and its blocks.                                                 *)

\* Construct and destroy the blocks first .. last of the map.
AllocateBlocks(m, first, last) == [p \in DOMAIN m |-> IF Block(p) \in first .. last THEN Raw ELSE m[p]]
DestroyBlocks(m, first, last) == [p \in DOMAIN m |-> IF Block(p) \in first .. last THEN NoBlock ELSE m[p]]

NewCapacity(d, count) == AllocatedFor(next2power(d.capacity + count))
UsedBlocks(d) == Block(d.end) - Block(d.begin) + 1

\* The unsigned difference behind mid_offset wraps around: the map has no
\* room left beside the blocks, as in a deque constructed with 240 elements.
MapUnderflows(d, count) == NewCapacity(d, count) - UsedBlocks(d) < count

reallocate_block_storage(d, count, add_at_front) ==
    LET capacity == NewCapacity(d, count)
        mid_offset == (capacity - UsedBlocks(d) - count) \div 2
        shift == (IF add_at_front THEN mid_offset + count ELSE mid_offset) * block_capacity_
        kept == Block(d.begin) .. Block(d.end)
        Cell(p) ==
            IF Empty(d) THEN IF Block(p) = Block(d.begin + shift) THEN Raw ELSE NoBlock
            ELSE IF Block(p - shift) \in kept THEN d.cells[p - shift] ELSE NoBlock
    IN  [capacity |-> capacity, begin |-> d.begin + shift, end |-> d.end + shift,
         cells |-> [p \in 0 .. capacity * block_capacity_ - 1 |-> Cell(p)]]

AddBlocksAtFront(d, blocks) ==
    [d EXCEPT !.cells = AllocateBlocks(@, Block(d.begin) - blocks, Block(d.begin) - 1)]

reserve_at_front(d, count) ==
    LET missing == IF count > d.begin THEN count - d.begin ELSE count
        blocks == missing \div block_capacity_
                  + IF missing % block_capacity_ /= 0 \/ Empty(d) THEN 1 ELSE 0
    IN  IF count <= Offset(d.begin) THEN d
        ELSE AddBlocksAtFront(IF count > d.begin THEN reallocate_block_storage(d, blocks, TRUE) ELSE d, blocks)

BackCapacity(d) == d.capacity * block_capacity_ - d.end

AddBlocksAtBack(d, blocks) ==
    LET more == IF Empty(d) THEN blocks - 1 ELSE blocks
    IN  [d EXCEPT !.cells = AllocateBlocks(@, Block(d.end) + 1, Block(d.end) + more)]

reserve_at_back(d, count) ==
    LET full == count >= BackCapacity(d)
        missing == IF full THEN count - BackCapacity(d) ELSE count
        blocks == missing \div block_capacity_ + 1
    IN  IF d.capacity /= 0 /\ count < block_capacity_ - Offset(d.end) THEN d
        ELSE AddBlocksAtBack(IF full THEN reallocate_block_storage(d, blocks, FALSE) ELSE d, blocks)

-----------------------------------------------------------------------------
(* insert_n and insert_range differ in how the elements right of the place *)
(* are transferred, by gtl::move or gtl::copy.                             *)

InsertAtBack(r, s) == [r EXCEPT !.cells = UninitializedCopy(@, r.end, s), !.end = @ + Len(s)]

InsertAtFront(r, s) == [r EXCEPT !.begin = @ - Len(s), !.cells = UninitializedCopy(@, r.begin - Len(s), s)]

\* The elements between the first count and the place stay where they were.
SlipInsertLeft(r, pos, s) ==
    LET count == Len(s)
        head == IF pos <= count THEN pos ELSE count
        moved == UninitializedMove(r.cells, r.begin, r.begin + head, r.begin - count)
    IN  [r EXCEPT !.begin = @ - count,
                  !.cells = Copy(UninitializedCopy(moved, r.begin - count + head, SubSeq(s, 1, count - head)),
                                 r.begin, SubSeq(s, count - head + 1, count))]

InsertLeft(r, pos, s) ==
    LET count == Len(s)
        new == r.begin - count
        cells ==
            IF pos <= count
            THEN Copy(UninitializedCopy(UninitializedMove(r.cells, r.begin, r.begin + pos, new),
                                        new + pos, SubSeq(s, 1, count - pos)),
                      r.begin, SubSeq(s, count - pos + 1, count))
            ELSE Copy(Move(UninitializedMove(r.cells, r.begin, r.begin + count, new),
                           r.begin + count, r.begin + pos, new + count),
                      r.begin + pos - count, s)
    IN  [r EXCEPT !.begin = new, !.cells = cells]

InsertRight(r, pos, s, moves) ==
    LET count == Len(s)
        right == Size(r) - pos
        before == r.end - right
        last == UninitializedMove(r.cells, r.end - count, r.end, r.end)
        cells ==
            IF right <= count
            THEN UninitializedCopy(Copy(UninitializedMove(r.cells, before, r.end, before + count),
                                        before, SubSeq(s, 1, right)),
                                   r.end, SubSeq(s, right + 1, count))
            ELSE Copy(IF moves THEN Move(last, before, r.end - count, before + count)
                               ELSE CopyRange(last, before, r.end - count, before + count),
                      before, s)
    IN  [r EXCEPT !.end = @ + count, !.cells = cells]

Inserted(d, pos, s, moves) ==
    IF s = <<>> THEN d
    ELSE IF pos = Size(d) THEN InsertAtBack(reserve_at_back(d, Len(s)), s)
    ELSE IF pos = 0 THEN InsertAtFront(reserve_at_front(d, Len(s)), s)
    ELSE IF pos <= Size(d) - pos THEN InsertLeft(reserve_at_front(d, Len(s)), pos, s)
    ELSE InsertRight(reserve_at_back(d, Len(s)), pos, s, moves)

insert_n(d, pos, count, x) == Inserted(d, pos, Times(count, x), TRUE)
insert_range(d, pos, s) == Inserted(d, pos, s, FALSE)

\* The forward loop overwrites elements it has yet to transfer.
InsertOverlaps(d, pos, count) ==
    LET right == Size(d) - pos IN count > 0 /\ pos > right /\ right > 2 * count

-----------------------------------------------------------------------------

\* In the middle one element too many is moved to the left, or none but the
\* last to the right.
EmplaceLeft(r, pos, x) ==
    LET moved == Move(MoveConstruct(r.cells, r.begin, r.begin - 1), r.begin + 1, r.begin + pos + 1, r.begin)
    IN  [r EXCEPT !.begin = @ - 1, !.cells = Assign(moved, r.begin - 1 + pos, x)]

EmplaceRight(r, pos, x) ==
    LET moved == MoveBackward(MoveConstruct(r.cells, r.end - 1, r.end), r.begin + pos, r.end - 1, r.end - 1)
    IN  [r EXCEPT !.end = @ + 1, !.cells = Assign(moved, r.begin + pos, x)]

emplace(d, pos, x) ==
    IF pos = Size(d) THEN InsertAtBack(reserve_at_back(d, 1), <<x>>)
    ELSE IF pos = 0 THEN InsertAtFront(reserve_at_front(d, 1), <<x>>)
    ELSE IF pos <= Size(d) - pos THEN EmplaceLeft(reserve_at_front(d, 1), pos, x)
    ELSE EmplaceRight(reserve_at_back(d, 1), pos, x)

EmplaceLoses(d, pos) == pos \in 1 .. Size(d) - 1 /\ (pos <= Size(d) - pos \/ pos < Size(d) - 1)

SlipEraseCells(d, first, last) ==
    LET b == d.begin + first
        e == d.begin + last
        left == MoveBackward(d.cells, d.begin, b, e)
        right == Move(d.cells, e, d.end, b)
        new == IF first <= Size(d) - last THEN [begin |-> e - first, end |-> d.end]
                                          ELSE [begin |-> d.begin, end |-> d.end - (last - first)]
    IN  [d EXCEPT !.begin = new.begin, !.end = new.end,
                  !.cells = IF first <= Size(d) - last
                            THEN DestroyBlocks(Destroy(left, d.begin, new.begin), Block(d.begin), Block(new.begin))
                            ELSE DestroyBlocks(Destroy(right, new.end, d.end), Block(new.end) + 1, Block(d.end))]

\* At the end, at the beginning, or in the middle, where the shorter part is
\* moved over the gap.
erase(d, first, last) ==
    LET b == d.begin + first
        e == d.begin + last
        gone == Destroy(d.cells, b, e)
        new_begin == e - first
        new_end == d.end - (last - first)
        left == Destroy(MoveBackward(d.cells, d.begin, b, e), d.begin, new_begin)
        right == Destroy(Move(d.cells, e, d.end, b), new_end, d.end)
    IN  IF first = last THEN d
        ELSE IF last = Size(d)
        THEN [d EXCEPT !.cells = DestroyBlocks(gone, IF first = 0 THEN Block(b) ELSE Block(b) + 1, Block(e)),
                       !.end = b]
        ELSE IF first = 0
        THEN [d EXCEPT !.cells = DestroyBlocks(gone, Block(b), Block(e) - 1), !.begin = e]
        ELSE IF first <= Size(d) - last
        THEN [d EXCEPT !.cells = DestroyBlocks(left, Block(d.begin), Block(new_begin) - 1), !.begin = new_begin]
        ELSE [d EXCEPT !.cells = DestroyBlocks(right, Block(new_end) + 1, Block(d.end)), !.end = new_end]

resize(d, n, x) == IF n <= Size(d) THEN erase(d, n, Size(d)) ELSE insert_n(d, Size(d), n - Size(d), x)

assign_range(d, s) ==
    IF Len(s) <= Size(d)
    THEN erase([d EXCEPT !.cells = Copy(@, d.begin, s)], Len(s), Size(d))
    ELSE insert_range([d EXCEPT !.cells = Copy(@, d.begin, SubSeq(s, 1, Size(d)))],
                      Size(d), SubSeq(s, Size(d) + 1, Len(s)))

assign_n(d, n, x) ==
    IF n <= Size(d)
    THEN erase([d EXCEPT !.cells = Copy(@, d.begin, Times(n, x))], n, Size(d))
    ELSE insert_n([d EXCEPT !.cells = Copy(@, d.begin, Times(Size(d), x))], Size(d), n - Size(d), x)

Constructed(s) == insert_range(NoDeque, 0, s)

-----------------------------------------------------------------------------
(* The deque.  Construction stands for every constructor, with the         *)
(* destruction of the deque before, and for a move from a temporary.  An   *)
(* insertion is of fewer than block_capacity_ elements: from a whole block *)
(* on, reserve_at_front and reserve_at_back may allocate a block too many  *)
(* or too few.                                                             *)

Sound(d) == \A p \in DOMAIN d.cells : d.cells[p] /= Bad

Construction ==
    \E s \in SeqsUpTo(Values, MaxSize) :
       ~MapUnderflows(NoDeque, Len(s) \div block_capacity_ + 1) /\ deque' = Constructed(s)
SelfMove == deque' = NoDeque
push_back == \E x \in Values : deque' = emplace(deque, Size(deque), x)
push_front == \E x \in Values : deque' = emplace(deque, 0, x)
pop_back == ~Empty(deque) /\ deque' = erase(deque, Size(deque) - 1, Size(deque))
pop_front == ~Empty(deque) /\ deque' = erase(deque, 0, 1)
EmplaceAt == \E pos \in 0 .. Size(deque), x \in Values : deque' = emplace(deque, pos, x)
InsertCount == \E pos \in 0 .. Size(deque), n \in 0 .. block_capacity_ - 1, x \in Values :
                  deque' = insert_n(deque, pos, n, x)
InsertElements == \E pos \in 0 .. Size(deque), s \in SeqsUpTo(Values, block_capacity_ - 1) :
                     deque' = insert_range(deque, pos, s)
EraseRange == \E r \in Ranges(Size(deque)) : deque' = erase(deque, r[1], r[2])
Resize == \E n \in 0 .. Size(deque) + block_capacity_ - 1, x \in Values : deque' = resize(deque, n, x)
AssignRange == \E s \in SeqsUpTo(Values, 2) : deque' = assign_range(deque, s)
AssignCount == \E n \in 0 .. 2, x \in Values : deque' = assign_n(deque, n, x)
clear == deque' = erase(deque, 0, Size(deque))

\* A deque that a call has emptied has lost the block its iterators point to
\* (deque.h:533); only release, in an assignment by move or the destructor,
\* puts it right.
Emptied(d) == d.capacity > 0 /\ Empty(d)

Next ==
    /\ \/ Construction \/ SelfMove
       \/ /\ ~Emptied(deque)
          /\ \/ push_back \/ push_front \/ pop_back \/ pop_front \/ EmplaceAt \/ InsertCount
             \/ InsertElements \/ EraseRange \/ Resize \/ AssignRange \/ AssignCount \/ clear
    /\ Size(deque') <= MaxSize /\ deque'.capacity <= MaxMap

Spec == Init /\ [][Next]_deque

-----------------------------------------------------------------------------
(* What holds.                                                             *)

\* The blocks from begin's to end's are allocated and no others, so none is
\* leaked or used without being there, and the objects are those of the
\* elements, whatever was pushed, popped, inserted and erased before.
BlocksExact ==
    ~Emptied(deque) =>
       \A p \in DOMAIN deque.cells :
          /\ (deque.cells[p] /= NoBlock) <=> Block(p) \in Block(deque.begin) .. Block(deque.end)
          /\ Live(deque.cells[p]) <=> p \in deque.begin .. deque.end - 1

Becomes(d, s) == Elements(d) = s

\* In every state, with the elements anywhere in their blocks and the blocks
\* anywhere in the map: an insertion of fewer than block_capacity_ elements
\* leaves the sequence the standard promises, except where elements are lost.
Insertions ==
    ~Emptied(deque) =>
       LET s == Elements(deque) IN
          /\ \A pos \in Positions(s) : \A x \in Values :
                /\ ~EmplaceLoses(deque, pos) => Becomes(emplace(deque, pos, x), Splice(s, pos, pos, <<x>>))
                /\ \A n \in 0 .. block_capacity_ - 1 :
                      ~InsertOverlaps(deque, pos, n) =>
                         Becomes(insert_n(deque, pos, n, x), Splice(s, pos, pos, Times(n, x)))
          /\ \A pos \in Positions(s) : \A t \in SeqsUpTo(Values, block_capacity_ - 1) :
                ~InsertOverlaps(deque, pos, Len(t)) =>
                   Becomes(insert_range(deque, pos, t), Splice(s, pos, pos, t))

\* The same of erase, at both ends and in the middle, resize and assign.
Removals ==
    ~Emptied(deque) =>
       LET s == Elements(deque) IN
          /\ \A r \in Ranges(Len(s)) : Becomes(erase(deque, r[1], r[2]), Splice(s, r[1], r[2], <<>>))
          /\ \A x \in Values : \A n \in 0 .. Len(s) + block_capacity_ - 1 :
                /\ Becomes(resize(deque, n, x), Resized(s, n, x))
                /\ Becomes(assign_n(deque, n, x), Times(n, x))
          /\ \A t \in SeqsUpTo(Values, 2) : Becomes(assign_range(deque, t), t)

\* The sequence is the standard's after every operation deque.h gets right.
ElementsKept == Insertions /\ Removals

=============================================================================
