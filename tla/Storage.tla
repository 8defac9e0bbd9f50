------------------------------ MODULE Storage ------------------------------
(***************************************************************************)
(* The memory under Vector and Deque: algorithm/memory_op.h, the copies    *)
(* and moves of algorithm/seq_op.h and container/storage.h.                *)
(*                                                                         *)
(* Memory is a function from indices to cells.  A cell is Raw until an     *)
(* object is constructed in it, and Raw again once that is destroyed;      *)
(* Moved is an object that was moved from.  A cell is Bad after an         *)
(* assignment to or a move from raw memory, the destruction of what is not *)
(* there, a construction over a live object, or any of these where no      *)
(* memory is (NoBlock).  Moving an object onto itself leaves it as it is.  *)
(***************************************************************************)
EXTENDS Sequence

CONSTANTS Raw, Moved, Bad, NoBlock,
          MinCapacity   \* UStorage::min_capacity_, 16

ASSUME StorageAssumption ==
    /\ Moved \notin {Raw, Bad, NoBlock} /\ Raw \notin {Bad, NoBlock}
    /\ MinCapacity \in Nat

Live(x) == x \notin {Raw, Bad, NoBlock}

Read(m, i) == IF i \in DOMAIN m /\ Live(m[i]) THEN m[i] ELSE Bad
Cells(m, first, last) == [k \in 1 .. last - first |-> Read(m, first + k - 1)]

Construct(m, i, x) == [m EXCEPT ![i] = IF @ = Raw THEN x ELSE Bad]
Assign(m, i, x) == [m EXCEPT ![i] = IF Live(@) THEN x ELSE Bad]

Destroy(m, first, last) ==
    [i \in DOMAIN m |-> IF i \in first .. last - 1 THEN IF Live(m[i]) THEN Raw ELSE Bad ELSE m[i]]

\* One element from s to d: its source is left Moved.
MoveConstruct(m, s, d) == Construct([m EXCEPT ![s] = IF Live(@) THEN Moved ELSE Bad], d, Read(m, s))
CopyAssign(m, s, d) == Assign(m, d, Read(m, s))
MoveAssign(m, s, d) ==
    IF s = d THEN m ELSE Assign([m EXCEPT ![s] = IF Live(@) THEN Moved ELSE Bad], d, Read(m, s))

\* The loops over a range, from the front and from the back.
Forward(Step(_, _, _), m, first, last, d) ==
    LET after[k \in 0 .. last - first] ==
            IF k = 0 THEN m ELSE Step(after[k - 1], first + k - 1, d + k - 1)
    IN  after[last - first]
Backward(Step(_, _, _), m, first, last, dlast) ==
    LET after[k \in 0 .. last - first] ==
            IF k = 0 THEN m ELSE Step(after[k - 1], last - k, dlast - k)
    IN  after[last - first]

UninitializedMove(m, first, last, d) == Forward(MoveConstruct, m, first, last, d)
Move(m, first, last, d) == Forward(MoveAssign, m, first, last, d)
CopyRange(m, first, last, d) == Forward(CopyAssign, m, first, last, d)
MoveBackward(m, first, last, dlast) == Backward(MoveAssign, m, first, last, dlast)

\* copy, fill and their uninitialized forms: the elements come from elsewhere.
Copy(m, i, s) == [j \in DOMAIN m |-> IF j \in i .. i + Len(s) - 1 THEN Assign(m, j, s[j - i + 1])[j] ELSE m[j]]
UninitializedCopy(m, i, s) ==
    [j \in DOMAIN m |-> IF j \in i .. i + Len(s) - 1 THEN Construct(m, j, s[j - i + 1])[j] ELSE m[j]]

-----------------------------------------------------------------------------
(* Storage<T>: its cells and size_.                                        *)

AllocatedFor(n) == IF n > MinCapacity THEN n ELSE MinCapacity

Unallocated == [cells |-> <<>>, size |-> 0]
Allocate(n) == [cells |-> [i \in 0 .. AllocatedFor(n) - 1 |-> Raw], size |-> 0]

Capacity(st) == Cardinality(DOMAIN st.cells)
Full(st, n) == st.size + n > Capacity(st)
Contents(st) == Cells(st.cells, 0, st.size)

\* unsafe_append_copy, _fill, _move and _value_construct.
UnsafeAppend(st, s) == [cells |-> UninitializedCopy(st.cells, st.size, s), size |-> st.size + Len(s)]

=============================================================================
