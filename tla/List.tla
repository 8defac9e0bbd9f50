-------------------------------- MODULE List --------------------------------
(***************************************************************************)
(* gtl::List<T> (container/list.h) over the ring of container/list_base.h. *)
(*                                                                         *)
(* m is all the memory there is: the next and prev of every node and every *)
(* dummy head, the value of every node, and the two fields of every List   *)
(* object (dummy_head_, size_), the temporary ones of a running call       *)
(* included.  Addresses are numbers; a fresh one is the least unused.  A   *)
(* node is addressed, never copied: an iterator is an address.             *)
(*                                                                         *)
(* Ranges that a call may not be given, a place to splice to inside the    *)
(* spliced range or a list's own elements to insert, are left out.         *)
(***************************************************************************)
EXTENDS Links

CONSTANTS Lists,    \* the lists
          Nodes,    \* addresses of nodes
          MaxNodes, \* bound: nodes in all the lists together
          MaxLong,  \* bound: nodes of the lists whose sorting is checked
          Heads,    \* addresses of dummy heads
          Values    \* values, which are numbers: sorting compares them

VARIABLE m

End(mem, l) == mem.head[l]
Begin(mem, l) == mem.next[End(mem, l)]
NodesOf(mem, l) == Span(mem, Begin(mem, l), End(mem, l))
\* The iterator pos steps after begin().
At(mem, l, pos) == Append(NodesOf(mem, l), End(mem, l))[pos + 1]
ValuesOf(mem, l) == LET s == NodesOf(mem, l) IN [i \in DOMAIN s |-> mem.val[s[i]]]

-----------------------------------------------------------------------------
(* Construction, elements in and out.                                      *)

NewList(mem, l) ==
    LET h == Fresh(mem, Heads)
    IN  [mem EXCEPT !.next = With(@, h, h), !.prev = With(@, h, h),
                    !.head = With(@, l, h), !.size = With(@, l, 0)]

new_node(mem, n, x) ==
    [mem EXCEPT !.next = With(@, n, Null), !.prev = With(@, n, Null), !.val = With(@, n, x)]

emplace(mem, l, before, x) ==
    LET n == Fresh(mem, Nodes)
    IN  [InsertBefore(new_node(mem, n, x), before, n) EXCEPT !.size[l] = @ + 1]

\* Each copy goes before the one inserted last.
insert_n(mem, l, before, n, x) ==
    FoldLeft(LAMBDA acc, k : LET e == emplace(acc.mem, l, acc.before, x)
                             IN  [mem |-> e, before |-> e.prev[acc.before]],
             [mem |-> mem, before |-> before], Times(n, x)).mem

insert_range(mem, l, before, s) == FoldLeft(LAMBDA acc, x : emplace(acc, l, before, x), mem, s)

SlipErase(mem, l, first, last) ==
    LET gone == ToSet(Span(mem, first, last))
        cut == [mem EXCEPT !.next[mem.prev[first]] = last]
    IN  IF first = last THEN mem
        ELSE [cut EXCEPT !.next = Forget(@, gone), !.prev = Forget(@, gone), !.val = Forget(@, gone),
                         !.size[l] = @ - Cardinality(gone)]

erase(mem, l, first, last) ==
    LET cut == RemoveRange(mem, first, mem.prev[last])
        gone == ToSet(Span(cut, first, Null))
    IN  IF first = last THEN mem
        ELSE [cut EXCEPT !.next = Forget(@, gone), !.prev = Forget(@, gone), !.val = Forget(@, gone),
                         !.size[l] = @ - Cardinality(gone)]

clear(mem, l) == erase(mem, l, Begin(mem, l), End(mem, l))

destroy_list(mem, l) ==
    LET c == clear(mem, l)
        h == {End(mem, l)}
    IN  [c EXCEPT !.next = Forget(@, h), !.prev = Forget(@, h),
                  !.head = Forget(@, {l}), !.size = Forget(@, {l})]

\* Element by element from the end.
resize(mem, l, n, x) ==
    IF n > mem.size[l] THEN insert_n(mem, l, End(mem, l), n - mem.size[l], x)
    ELSE FoldLeft(LAMBDA acc, k : erase(acc, l, acc.prev[End(acc, l)], End(acc, l)),
                  mem, Times(mem.size[l] - n, x))

\* Does not remove what was there.
assign(mem, l, n, x) == insert_n(mem, l, Begin(mem, l), n, x)

SlipAssignRange(mem, l, s) ==
    LET old == NodesOf(mem, l)
        common == DOMAIN s \cap DOMAIN old
        copied == [mem EXCEPT !.val = [n \in DOMAIN @ |->
                      IF \E i \in common : old[i] = n THEN s[CHOOSE i \in common : old[i] = n] ELSE @[n]]]
    IN  insert_range(copied, l, End(mem, l), SubSeq(s, Len(old) + 1, Len(s)))

\* An empty range leaves the list as it was.
assign_range(mem, l, s) ==
    LET old == NodesOf(mem, l)
        common == DOMAIN s \cap DOMAIN old
        copied == [mem EXCEPT !.val = [n \in DOMAIN @ |->
                      IF \E i \in common : old[i] = n THEN s[CHOOSE i \in common : old[i] = n] ELSE @[n]]]
    IN  IF s = <<>> THEN mem
        ELSE IF Len(s) <= mem.size[l] THEN erase(copied, l, At(mem, l, Len(s)), End(mem, l))
        ELSE insert_range(copied, l, End(mem, l), SubSeq(s, Len(old) + 1, Len(s)))

Exchange(f, x, y) == [f EXCEPT ![x] = f[y], ![y] = f[x]]
swap(mem, l, o) == [mem EXCEPT !.head = Exchange(@, l, o), !.size = Exchange(@, l, o)]

\* Without a test for l = o: a list assigned to itself is emptied.
assign_move(mem, l, o) == swap(clear(mem, l), l, o)

-----------------------------------------------------------------------------
(* Nodes from one list to another.                                         *)

transfer(mem, l, before, o, first, last) ==
    LET nodes == Span(mem, first, last)
        moved == FoldLeft(LAMBDA acc, n : InsertBefore(RemoveNode(acc, n), before, n), mem, nodes)
        sizes == IF l = o THEN mem.size ELSE [mem.size EXCEPT ![o] = @ - Len(nodes), ![l] = @ + Len(nodes)]
    IN  IF first = last \/ before = last THEN mem ELSE [moved EXCEPT !.size = sizes]

splice_all(mem, l, before, o) == transfer(mem, l, before, o, Begin(mem, o), End(mem, o))
splice_back(mem, l, o) == splice_all(mem, l, End(mem, l), o)
splice_one(mem, l, before, o, n) == IF before = n THEN mem ELSE transfer(mem, l, before, o, n, mem.next[n])

reverse(mem, l) ==
    IF mem.size[l] <= 1 THEN mem
    ELSE FoldLeft(LAMBDA acc, n : transfer(acc, l, Begin(acc, l), l, n, acc.next[n]), mem, Tail(NodesOf(mem, l)))

\* right is always the first of o.
SlipBefore(order, x, y) == Before(order, x, y) \/ x = y
Precedes(order, x, y) == Before(order, x, y)

RECURSIVE Merging(_, _, _, _, _)
Merging(mem, l, o, order, left) ==
    LET right == Begin(mem, o)
    IN  IF right = End(mem, o) THEN mem
        ELSE IF left = End(mem, l) THEN splice_all(mem, l, left, o)
        ELSE IF Precedes(order, mem.val[right], mem.val[left])
        THEN Merging(splice_one(mem, l, left, o, right), l, o, order, left)
        ELSE Merging(mem, l, o, order, mem.next[left])
merge(mem, l, o, order) == IF l = o THEN mem ELSE Merging(mem, l, o, order, Begin(mem, l))

\* The lists left and right of a call: their names are not those of any other.
Temporary(mem, side) == <<side, Cardinality(DOMAIN mem.head)>>

\* What follows first, to the empty list right.
SplitOff(mem, l, right, first) == transfer(mem, right, Begin(mem, right), l, first, End(mem, l))

\* The order asked for is lost: the halves are merged by std::less.
RECURSIVE merge_sort(_, _, _)
merge_sort(mem, l, order) ==
    LET right == Temporary(mem, "right")
        split == SplitOff(NewList(mem, right), l, right, At(mem, l, mem.size[l] \div 2))
        sorted == merge_sort(merge_sort(split, l, order), right, order)
    IN  IF mem.size[l] <= 1 THEN mem
        ELSE destroy_list(merge(sorted, l, right, "less"), right)

\* [it, it + i) and what follows up to last, merged in place, again by less.
MergeRuns(mem, l, left, right, it, i, last) ==
    LET mid == At(mem, l, it + i)
        end == At(mem, l, last)
        TakeLeft(m1) == transfer(m1, left, Begin(m1, left), l, At(mem, l, it), mid)
        TakeRight(m2) == transfer(m2, right, Begin(m2, right), l, mid, end)
    IN  splice_all(merge(TakeRight(TakeLeft(mem)), left, right, "less"), l, end, left)

SortPass(mem, l, left, right, i) ==
    LET c == 2 * i
        n == mem.size[l] - (mem.size[l] % c)
        pairs == FoldLeft(LAMBDA acc, j : MergeRuns(acc, l, left, right, (j - 1) * c, i, j * c),
                          mem, [j \in 1 .. n \div c |-> j])
    IN  IF mem.size[l] % c > i THEN MergeRuns(pairs, l, left, right, n, i, mem.size[l]) ELSE pairs

sort(mem, l, order) ==
    LET left == Temporary(mem, "left")
        right == Temporary(mem, "right")
        new == NewList(NewList(mem, left), right)
        passes == SelectSeq([k \in 1 .. mem.size[l] |-> 2 ^ (k - 1)], LAMBDA i : i < mem.size[l])
        sorted == FoldLeft(LAMBDA acc, i : SortPass(acc, l, left, right, i), new, passes)
    IN  IF mem.size[l] <= 1 THEN mem ELSE destroy_list(destroy_list(sorted, right), left)

Partition(mem, l, left, order, pivot) ==
    FoldLeft(LAMBDA acc, n : IF Before(order, acc.val[n], acc.val[pivot])
                             THEN transfer(acc, left, End(acc, left), l, n, acc.next[n]) ELSE acc,
             mem, Tail(NodesOf(mem, l)))

\* The result is assigned by move, which gives the list another dummy head.
RECURSIVE qsort(_, _, _)
qsort(mem, l, order) ==
    LET left == Temporary(mem, "left")
        right == Temporary(mem, "right")
        pivot == Begin(mem, l)
        Split(lower) == SplitOff(lower, l, right, lower.next[pivot])
        split == Split(Partition(NewList(NewList(mem, left), right), l, left, order, pivot))
        sorted == qsort(qsort(split, left, order), right, order)
        whole == splice_back(splice_back(sorted, left, l), left, right)
    IN  IF mem.size[l] <= 1 THEN mem
        ELSE destroy_list(destroy_list(assign_move(whole, l, left), right), left)

-----------------------------------------------------------------------------
(* The lists.                                                              *)

Nowhere == [next |-> <<>>, prev |-> <<>>, val |-> <<>>, head |-> <<>>, size |-> <<>>]
Init == m = FoldSet(LAMBDA l, mem : NewList(mem, l), Nowhere, Lists)

Used == Cardinality(DOMAIN m.val)
Places(l) == {At(m, l, pos) : pos \in 0 .. m.size[l]}
Spans(l) == {<<At(m, l, r[1]), At(m, l, r[2])>> : r \in Ranges(m.size[l])}
Room(n) == Used + n <= MaxNodes

Emplace(l) == \E p \in Places(l), x \in Values : Room(1) /\ m' = emplace(m, l, p, x)
InsertCount(l) == \E p \in Places(l), n \in 0 .. 2, x \in Values : Room(n) /\ m' = insert_n(m, l, p, n, x)
InsertRange(l) == \E p \in Places(l), s \in SeqsUpTo(Values, 2) : Room(Len(s)) /\ m' = insert_range(m, l, p, s)
Erase(l) == \E r \in Spans(l) : m' = erase(m, l, r[1], r[2])
Resize(l) == \E n \in 0 .. m.size[l] + 1, x \in Values : Room(1) /\ m' = resize(m, l, n, x)
AssignCount(l) == \E n \in 0 .. 2, x \in Values : Room(n) /\ m' = assign(m, l, n, x)
AssignRange(l) == \E s \in SeqsUpTo(Values, 2) : Room(Len(s)) /\ m' = assign_range(m, l, s)
AssignMove(l, o) == m' = assign_move(m, l, o)
MoveConstruct(l, o) ==
    l /= o /\ LET d == destroy_list(m, l) IN m' = swap(NewList(d, l), l, o)
Splice1(l, o) == \E p \in Places(l), n \in ToSet(NodesOf(m, o)) : m' = splice_one(m, l, p, o, n)
SpliceRange(l, o) == \E p \in Places(l), r \in Spans(o) :
                        p \notin ToSet(Span(m, r[1], r[2])) /\ m' = transfer(m, l, p, o, r[1], r[2])
SpliceAll(l, o) == l /= o /\ \E p \in Places(l) : m' = splice_all(m, l, p, o)
ReverseAll(l) == m' = reverse(m, l)
Merge(l, o) == \E order \in Orders : m' = merge(m, l, o, order)
MergeSort(l) == \E order \in Orders : m' = merge_sort(m, l, order)
Sort(l) == \E order \in Orders : m' = sort(m, l, order)
QSort(l) == \E order \in Orders : m' = qsort(m, l, order)

Next ==
    \E l \in Lists :
       \/ Emplace(l) \/ InsertCount(l) \/ InsertRange(l) \/ Erase(l) \/ Resize(l) \/ AssignCount(l)
       \/ AssignRange(l) \/ ReverseAll(l) \/ MergeSort(l) \/ Sort(l) \/ QSort(l)
       \/ \E o \in Lists : \/ AssignMove(l, o) \/ MoveConstruct(l, o) \/ Splice1(l, o)
                           \/ SpliceRange(l, o) \/ SpliceAll(l, o) \/ Merge(l, o)

Spec == Init /\ [][Next]_m

-----------------------------------------------------------------------------
(* What holds.                                                             *)

\* Every list is a ring through its dummy head that prev runs backwards, of
\* size_ nodes; every node that is allocated is in one list, and the dummy
\* heads are those of the lists: whatever is spliced, merged and sorted, no
\* node is lost, shared or leaked, and no size_ is off.
Linked ==
    LET chain == [l \in Lists |-> NodesOf(m, l)] IN
    /\ \A l \in Lists :
          /\ Len(chain[l]) = m.size[l]
          /\ \A n \in ToSet(chain[l]) \cup {End(m, l)} : m.next[n] /= Null /\ m.prev[m.next[n]] = n
    /\ DOMAIN m.val = UNION {ToSet(chain[l]) : l \in Lists}
    /\ Used = FoldFunction(LAMBDA s, n : Len(s) + n, 0, chain)
    /\ DOMAIN m.next = DOMAIN m.val \cup {End(m, l) : l \in Lists} /\ DOMAIN m.prev = DOMAIN m.next

\* mem is the memory after a call on l that may only change what l contains:
\* the nodes it keeps are the same, so the iterators to them stay valid.
Leaves(mem, l, kept, values) ==
    /\ ValuesOf(mem, l) = values
    /\ \A n \in kept : n \in DOMAIN mem.val /\ mem.val[n] = m.val[n]
    /\ \A o \in Lists \ {l} : NodesOf(mem, o) = NodesOf(m, o)
    /\ mem.head = m.head

\* Insertions, erasures, resize and assign of a range leave the sequence of
\* the standard, except that assign of nothing changes nothing (list.h:413),
\* and keep the nodes they do not erase.
Contents ==
    \A l \in Lists : LET s == ValuesOf(m, l)
                         nodes == NodesOf(m, l)
                     IN
       /\ \A pos \in Positions(s), t \in SeqsUpTo(Values, 2) : Room(Len(t)) =>
             /\ Leaves(insert_range(m, l, At(m, l, pos), t), l, ToSet(nodes), Splice(s, pos, pos, t))
             /\ \A x \in Values :
                   Leaves(insert_n(m, l, At(m, l, pos), Len(t), x), l, ToSet(nodes),
                          Splice(s, pos, pos, Times(Len(t), x)))
             /\ t /= <<>> => Leaves(assign_range(m, l, t), l, {}, t)
       /\ \A r \in Ranges(Len(s)) :
             Leaves(erase(m, l, At(m, l, r[1]), At(m, l, r[2])), l,
                    ToSet(Splice(nodes, r[1], r[2], <<>>)), Splice(s, r[1], r[2], <<>>))
       /\ \A n \in 0 .. Len(s) + 1, x \in Values : Room(1) =>
             Leaves(resize(m, l, n, x), l, {nodes[i] : i \in DOMAIN nodes \cap (1 .. n)}, Resized(s, n, x))

\* What a call that moves nodes makes of mem: these nodes in l, behind the
\* same dummy heads, with their values.
Moves(mem, after, l, nodes) ==
    NodesOf(after, l) = nodes /\ after.val = mem.val /\ after.head = mem.head

SortsOnly(mem, l) ==
    LET nodes == NodesOf(mem, l)
        Key(n) == mem.val[n]
    IN  /\ Moves(mem, sort(mem, l, "less"), l, Sorted(nodes, "less", Key))
        /\ Moves(mem, merge_sort(mem, l, "less"), l, Sorted(nodes, "less", Key))
        /\ \A order \in Orders :
              LET sorted == qsort(mem, l, order)
              IN  sorted.val = mem.val /\ NodesOf(sorted, l) = Sorted(nodes, order, Key)

\* The three sorts, from every state and from longer lists, leave the nodes
\* in order and equal ones as they were.  sort and merge_sort do so only by
\* std::less (list.h:347 and 366), and qsort alone puts the list behind
\* another dummy head (list.h:408), so that end() is another iterator.
SortsStable ==
    \A l \in Lists :
       /\ SortsOnly(m, l)
       /\ Used = 0 => \A s \in SeqsUpTo(Values, MaxLong) : SortsOnly(insert_range(m, l, End(m, l), s), l)

\* splice, reverse and merge move the nodes the standard says to the places
\* it says, between two lists and within one.
MovesExact ==
    LET Key(n) == m.val[n] IN
    \A l \in Lists : LET nodes == NodesOf(m, l) IN
       /\ Moves(m, reverse(m, l), l, Reverse(nodes))
       /\ \A pos \in Positions(nodes), r \in Ranges(Len(nodes)) : pos \notin r[1] .. r[2] - 1 =>
             LET span == SubSeq(nodes, r[1] + 1, r[2])
                 to == IF pos < r[1] THEN pos ELSE pos - Len(span)
             IN  Moves(m, transfer(m, l, At(m, l, pos), l, At(m, l, r[1]), At(m, l, r[2])), l,
                       Splice(Splice(nodes, r[1], r[2], <<>>), to, to, span))
       /\ \A o \in Lists \ {l} : LET others == NodesOf(m, o) IN
             /\ \A order \in Orders :
                   nodes = Sorted(nodes, order, Key) /\ others = Sorted(others, order, Key) =>
                      Moves(m, merge(m, l, o, order), l, Sorted(nodes \o others, order, Key))
             /\ \A pos \in Positions(nodes), r \in Ranges(Len(others)) :
                   LET after == transfer(m, l, At(m, l, pos), o, At(m, o, r[1]), At(m, o, r[2]))
                   IN  /\ Moves(m, after, l, Splice(nodes, pos, pos, SubSeq(others, r[1] + 1, r[2])))
                       /\ Moves(m, after, o, Splice(others, r[1], r[2], <<>>))

\* No operation that only reorders loses, copies or misplaces a node.
NodesMoved == SortsStable /\ MovesExact

=============================================================================
