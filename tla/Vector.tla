------------------------------- MODULE Vector -------------------------------
(***************************************************************************)
(* gtl::Vector<T> (container/vector.h) over Storage<T>.                    *)
(*                                                                         *)
(* Each operation is an operator from the storage d_ before the call to    *)
(* d_ after it; the actions apply the operators to a few vectors, for TLC  *)
(* to reach the states from which calls differ.  A call whose arguments    *)
(* refer to elements of the vector it changes is not modelled.  The calls  *)
(* the code gets wrong are modelled as it does them and left out of the    *)
(* properties, each under a name of its own.                               *)
(***************************************************************************)
EXTENDS Storage

CONSTANTS Vectors,   \* the vectors
          Values,    \* their elements
          MaxSize,   \* bound: elements in all the vectors together
          MaxRoom    \* bound: capacity asked for by reserve

ASSUME VectorAssumption ==
    /\ Values \cap {Raw, Moved, Bad, NoBlock} = {}
    /\ MaxSize \in Nat /\ MaxRoom \in Nat

VARIABLE d_    \* the storage of each vector

Init == d_ = [v \in Vectors |-> Unallocated]

-----------------------------------------------------------------------------
(* Operations on one storage.                                              *)

\* The constructors from a size, a range or a list, which allocate even for
\* no elements.
Constructed(s) == UnsafeAppend(Allocate(next2power(Len(s))), s)

grow(st, n) ==
    IF Capacity(st) >= n THEN st ELSE UnsafeAppend(Allocate(next2power(n)), Contents(st))

\* The other way to grow: s between the parts of the old storage, and all of
\* it in a new one.
Regrown(st, first, last, s) ==
    LET count == st.size - (last - first) + Len(s)
        head == UnsafeAppend(Allocate(next2power(count)), Cells(st.cells, 0, first))
    IN  UnsafeAppend(UnsafeAppend(head, s), Cells(st.cells, last, st.size))

SlipInsertFill(st, pos, count, x) ==
    IF count = 0 THEN st
    ELSE IF Full(st, count) THEN Regrown(st, pos, pos, Times(count, x))
    ELSE LET n == st.size - pos
             moved == UninitializedMove(st.cells, pos, st.size, st.size + count - n)
         IN  [cells |-> UninitializedCopy(Copy(moved, pos, Times(n, x)), st.size, Times(count - n, x)),
              size |-> st.size + count]

InsertFill(st, pos, count, x) ==
    LET n == st.size - pos
        InPlace ==
            IF count <= n
            THEN Copy(MoveBackward(UninitializedMove(st.cells, st.size - count, st.size, st.size),
                                   pos, pos + n - count, st.size),
                      pos, Times(count, x))
            ELSE UninitializedCopy(Copy(UninitializedMove(st.cells, pos, st.size, pos + count),
                                        pos, Times(n, x)),
                                   st.size, Times(count - n, x))
    IN  IF count = 0 THEN st
        ELSE IF Full(st, count) THEN Regrown(st, pos, pos, Times(count, x))
        ELSE [cells |-> InPlace, size |-> st.size + count]

\* The loop of move_backward has run past its range: pos > n - count.
InsertRunsOff(st, pos, count) ==
    count > 0 /\ ~Full(st, count) /\ count <= st.size - pos /\ pos + count > st.size - pos

\* The elements behind pos are moved onto themselves instead of up.
InsertRange(st, pos, s) ==
    LET n == st.size - pos
        count == Len(s)
        InPlace ==
            IF count <= n
            THEN Copy(MoveBackward(UninitializedMove(st.cells, st.size - count, st.size, st.size),
                                   pos, n - count, n - count),
                      pos, s)
            ELSE Copy(UninitializedCopy(UninitializedMove(st.cells, pos, st.size, pos + count),
                                        st.size, SubSeq(s, n + 1, count)),
                      pos, SubSeq(s, 1, n))
    IN  IF count = 0 THEN st
        ELSE IF Full(st, count) THEN Regrown(st, pos, pos, s)
        ELSE [cells |-> InPlace, size |-> st.size + count]

\* Not full and in the middle: only the last element is moved up.
Emplace(st, pos, x) ==
    LET moved == MoveBackward(UninitializedMove(st.cells, st.size - 1, st.size, st.size),
                              pos, st.size - 1, st.size - 1)
    IN  IF Full(st, 1) THEN Regrown(st, pos, pos, <<x>>)
        ELSE [cells |-> IF pos = st.size THEN Construct(st.cells, pos, x) ELSE Assign(moved, pos, x),
              size |-> st.size + 1]

SlipErase(st, first, last) ==
    [cells |-> Destroy(Move(st.cells, last, st.size, first), last, st.size),
     size |-> st.size - (last - first)]

Erase(st, first, last) ==
    IF first = last THEN st
    ELSE [cells |-> Destroy(Move(st.cells, last, st.size, first), first + st.size - last, st.size),
          size |-> st.size - (last - first)]

ReplaceOne(st, pos, x) ==
    IF pos = st.size THEN Emplace(st, pos, x) ELSE [st EXCEPT !.cells = Assign(@, pos, x)]

\* The elements of s over those behind pos, and past the end.
ReplaceRange(st, pos, s) ==
    LET n == st.size - pos
        count == Len(s)
    IN  IF count = 0 THEN st
        ELSE IF pos = st.size THEN InsertRange(st, pos, s)
        ELSE IF count <= n THEN [st EXCEPT !.cells = Copy(@, pos, s)]
        ELSE IF Full(st, count - n) THEN Regrown(st, pos, st.size, s)
        ELSE [cells |-> UninitializedCopy(Copy(st.cells, pos, SubSeq(s, 1, n)), st.size, SubSeq(s, n + 1, count)),
              size |-> st.size + count - n]

\* An empty range leaves the vector as it was.
AssignRange(st, s) ==
    IF s = <<>> THEN st
    ELSE ReplaceRange(IF Len(s) < st.size THEN Erase(st, Len(s), st.size) ELSE st, 0, s)

Resize(st, n, x) ==
    IF n > st.size THEN InsertFill(st, st.size, n - st.size, x) ELSE Erase(st, n, st.size)

-----------------------------------------------------------------------------
(* The vectors.                                                            *)

Set(v, st) == d_' = [d_ EXCEPT ![v] = st]

Construction(v) == \E s \in SeqsUpTo(Values, 2) : Set(v, Constructed(s))
CopyConstruction(v, w) == v /= w /\ Set(v, Constructed(Contents(d_[w])))
MoveConstruction(v, w) == v /= w /\ d_' = [d_ EXCEPT ![v] = d_[w], ![w] = Unallocated]

\* Also the three operator=.
AssignCopy(v, w) == v /= w /\ Set(v, AssignRange(d_[v], Contents(d_[w])))
AssignList(v) == \E s \in SeqsUpTo(Values, 2) : Set(v, AssignRange(d_[v], s))

\* Without a test for v = w: a vector assigned to itself is emptied.
AssignMove(v, w) == LET released == [d_ EXCEPT ![v] = Unallocated]
                    IN  d_' = [released EXCEPT ![v] = released[w], ![w] = released[v]]

InsertCount(v) == \E pos \in 0 .. d_[v].size, n \in 0 .. 2, x \in Values : Set(v, InsertFill(d_[v], pos, n, x))
InsertElements(v) ==
    \E pos \in 0 .. d_[v].size, s \in SeqsUpTo(Values, 2) :
       ~InsertRunsOff(d_[v], pos, Len(s)) /\ Set(v, InsertRange(d_[v], pos, s))
EmplaceAt(v) == \E pos \in 0 .. d_[v].size, x \in Values : Set(v, Emplace(d_[v], pos, x))
ReplaceAt1(v) == \E pos \in 0 .. d_[v].size, x \in Values : Set(v, ReplaceOne(d_[v], pos, x))
ReplaceFrom(v) == \E pos \in 0 .. d_[v].size, s \in SeqsUpTo(Values, 2) : Set(v, ReplaceRange(d_[v], pos, s))
EraseRange(v) == \E r \in Ranges(d_[v].size) : Set(v, Erase(d_[v], r[1], r[2]))
pop_back(v) == d_[v].size > 0 /\ Set(v, Erase(d_[v], d_[v].size - 1, d_[v].size))
ResizeTo(v) == \E n \in 0 .. MaxSize, x \in Values : Set(v, Resize(d_[v], n, x))
reserve(v) == \E n \in 0 .. MaxRoom : Set(v, grow(d_[v], n))
clear(v) == Set(v, Erase(d_[v], 0, d_[v].size))
swap(v, w) == d_' = [d_ EXCEPT ![v] = d_[w], ![w] = d_[v]]

Size(ds) == FoldFunction(LAMBDA st, n : st.size + n, 0, ds)

Next ==
    /\ \E v \in Vectors :
          \/ Construction(v) \/ AssignList(v) \/ InsertCount(v) \/ InsertElements(v)
          \/ EmplaceAt(v) \/ ReplaceAt1(v) \/ ReplaceFrom(v) \/ EraseRange(v) \/ pop_back(v)
          \/ ResizeTo(v) \/ reserve(v) \/ clear(v)
          \/ \E w \in Vectors : \/ CopyConstruction(v, w) \/ MoveConstruction(v, w)
                                \/ AssignCopy(v, w) \/ AssignMove(v, w) \/ swap(v, w)
    /\ Size(d_') <= MaxSize

Spec == Init /\ [][Next]_d_

-----------------------------------------------------------------------------
(* What holds.                                                             *)

\* The objects of a vector are the first size_ cells of its storage, and no
\* others: whatever the calls before, nothing was constructed twice, moved or
\* destroyed where nothing is, or left behind in a cell past the end.
SlotsExact ==
    \A v \in Vectors :
       /\ d_[v].size <= Capacity(d_[v])
       /\ \A i \in DOMAIN d_[v].cells : IF i < d_[v].size THEN Live(d_[v].cells[i]) ELSE d_[v].cells[i] = Raw

\* emplace in the middle and insert of a range before the end lose elements
\* unless they grow the storage (vector.h:293 and 263).
LosesElement(st, pos) == ~Full(st, 1) /\ pos < st.size - 1
LosesElements(st, pos, count) ==
    /\ ~Full(st, count) /\ count > 0 /\ count <= st.size - pos
    /\ (pos > 0 \/ count < st.size)

Becomes(st, s) == Contents(st) = s /\ Capacity(st) >= Len(s)

\* In every state, with room to spare or without: insert of a count, resize
\* and reserve leave the elements the standard promises, whichever of their
\* three ways through the storage they take.
CountsInserted ==
    \A v \in Vectors : \A x \in Values :
       LET st == d_[v]
           s == Contents(st)
       IN  /\ \A pos \in Positions(s), n \in 0 .. 3 :
                 Becomes(InsertFill(st, pos, n, x), Splice(s, pos, pos, Times(n, x)))
           /\ \A n \in 0 .. MaxSize + 1 : Becomes(Resize(st, n, x), Resized(s, n, x))
           /\ \A n \in 0 .. MaxRoom : Becomes(grow(st, n), s) /\ Capacity(grow(st, n)) >= n

\* The same of emplace and of insert of a range, except where they lose
\* elements.
RangesInserted ==
    \A v \in Vectors : LET st == d_[v]
                           s == Contents(st)
                       IN  \A pos \in Positions(s), t \in SeqsUpTo(Values, 3) :
        /\ ~LosesElements(st, pos, Len(t)) => Becomes(InsertRange(st, pos, t), Splice(s, pos, pos, t))
        /\ Len(t) = 1 /\ ~LosesElement(st, pos) => Becomes(Emplace(st, pos, t[1]), Splice(s, pos, pos, t))

\* The same of erase, of replace, which may run past the end, and of assign,
\* except that assign of an empty range changes nothing (vector.h:198).
RangesReplaced ==
    \A v \in Vectors : LET st == d_[v]
                           s == Contents(st)
                       IN
        /\ \A r \in Ranges(Len(s)) : Becomes(Erase(st, r[1], r[2]), Splice(s, r[1], r[2], <<>>))
        /\ \A pos \in Positions(s), t \in SeqsUpTo(Values, 3) :
              LET end == IF pos + Len(t) < Len(s) THEN pos + Len(t) ELSE Len(s)
              IN  /\ Becomes(ReplaceRange(st, pos, t), Splice(s, pos, end, t))
                  /\ pos = 0 /\ t /= <<>> => Becomes(AssignRange(st, t), t)
                  /\ Len(t) = 1 => Becomes(ReplaceOne(st, pos, t[1]), Splice(s, pos, end, t))

\* vector.h's own promise of each operation, whichever way it takes.
ElementsKept == CountsInserted /\ RangesInserted /\ RangesReplaced

=============================================================================
