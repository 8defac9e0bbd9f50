------------------------------- MODULE SList -------------------------------
(***************************************************************************)
(* gtl::SList<T> (container/slist.h) over the chain of                     *)
(* container/slist_base.h.                                                 *)
(*                                                                         *)
(* m is all the memory there is, as in List: the next of every node and    *)
(* every head, the tail kept beside each head, the value of every node and *)
(* the two fields of every SList (slist_head_, size_).  An iterator is an  *)
(* address; before_begin() is the head's own.                              *)
(*                                                                         *)
(* pop_back reads the node behind the last one, which is null, whatever    *)
(* the list (slist.h:233): it is not among the actions.                    *)
(***************************************************************************)
EXTENDS Links

CONSTANTS Lists,    \* the lists
          Nodes,    \* addresses of nodes
          MaxNodes, \* bound: nodes in all the lists together
          MaxLong,  \* bound: nodes of the lists whose sorting is checked
          Heads,    \* addresses of heads
          Values    \* values, which are numbers: sorting compares them

VARIABLE m

BeforeBegin(mem, l) == mem.head[l]
BeforeEnd(mem, l) == mem.tail[mem.head[l]]
Begin(mem, l) == mem.next[BeforeBegin(mem, l)]
NodesOf(mem, l) == Span(mem, Begin(mem, l), Null)
\* The iterator pos steps after before_begin().
At(mem, l, pos) == (<<BeforeBegin(mem, l)>> \o NodesOf(mem, l) \o <<Null>>)[pos + 1]
ValuesOf(mem, l) == LET s == NodesOf(mem, l) IN [i \in DOMAIN s |-> mem.val[s[i]]]

-----------------------------------------------------------------------------
(* slist_base.h; h is the head of the list prev or after is in.            *)

SlipRemoveAfter(mem, h, prev) ==
    LET n == mem.next[prev] IN [mem EXCEPT !.next = [@ EXCEPT ![prev] = mem.next[n], ![n] = Null]]

RemoveAfter(mem, h, prev) ==
    LET n == mem.next[prev]
    IN  [mem EXCEPT !.tail[h] = IF n = @ THEN prev ELSE @,
                    !.next = [@ EXCEPT ![prev] = mem.next[n], ![n] = Null]]

\* In place of the head's own test for an empty list, after = tail: an empty
\* list's tail is its head.
InsertAfter(mem, h, after, n) ==
    [mem EXCEPT !.tail[h] = IF (after = h /\ mem.next[h] = Null) \/ (after /= h /\ after = @) THEN n ELSE @,
                !.next = [@ EXCEPT ![n] = mem.next[after], ![after] = n]]

-----------------------------------------------------------------------------
(* Construction, elements in and out.                                      *)

NewList(mem, l) ==
    LET h == Fresh(mem, Heads)
    IN  [mem EXCEPT !.next = With(@, h, Null), !.tail = With(@, h, h),
                    !.head = With(@, l, h), !.size = With(@, l, 0)]

emplace_after(mem, l, after, x) ==
    LET n == Fresh(mem, Nodes)
        new == [mem EXCEPT !.next = With(@, n, Null), !.val = With(@, n, x)]
    IN  [InsertAfter(new, mem.head[l], after, n) EXCEPT !.size[l] = @ + 1]

SlipInsertAfter(mem, l, after, s) == FoldLeft(LAMBDA acc, x : emplace_after(acc, l, after, x), mem, s)

\* Each goes after the one before, its copies as the elements of a range.
insert_after(mem, l, after, s) ==
    FoldLeft(LAMBDA acc, x : LET e == emplace_after(acc.mem, l, acc.after, x)
                             IN  [mem |-> e, after |-> e.next[acc.after]],
             [mem |-> mem, after |-> after], s).mem

\* The nodes behind first and before last.
erase_after(mem, l, first, last) ==
    LET gone == Span(mem, mem.next[first], last)
        cut == FoldLeft(LAMBDA acc, n : RemoveAfter(acc, mem.head[l], first), mem, gone)
    IN  [cut EXCEPT !.next = Forget(@, ToSet(gone)), !.val = Forget(@, ToSet(gone)),
                    !.size[l] = @ - Len(gone)]

clear(mem, l) == erase_after(mem, l, BeforeBegin(mem, l), Null)

destroy_list(mem, l) ==
    LET c == clear(mem, l)
        h == {mem.head[l]}
    IN  [c EXCEPT !.next = Forget(@, h), !.tail = Forget(@, h),
                  !.head = Forget(@, {l}), !.size = Forget(@, {l})]

resize(mem, l, n, x) ==
    IF n > mem.size[l] THEN insert_after(mem, l, BeforeEnd(mem, l), Times(n - mem.size[l], x))
    ELSE IF n < mem.size[l] THEN erase_after(mem, l, At(mem, l, n), Null)
    ELSE mem

\* Does not remove what was there.
assign(mem, l, n, x) == insert_after(mem, l, BeforeBegin(mem, l), Times(n, x))

\* An empty range leaves the list as it was.
assign_range(mem, l, s) ==
    LET old == NodesOf(mem, l)
        common == DOMAIN s \cap DOMAIN old
        copied == [mem EXCEPT !.val = [n \in DOMAIN @ |->
                      IF \E i \in common : old[i] = n THEN s[CHOOSE i \in common : old[i] = n] ELSE @[n]]]
    IN  IF s = <<>> THEN mem
        ELSE IF Len(s) <= mem.size[l] THEN erase_after(copied, l, At(mem, l, Len(s)), Null)
        ELSE insert_after(copied, l, BeforeEnd(mem, l), SubSeq(s, Len(old) + 1, Len(s)))

Exchange(f, x, y) == [f EXCEPT ![x] = f[y], ![y] = f[x]]
swap(mem, l, o) == [mem EXCEPT !.head = Exchange(@, l, o), !.size = Exchange(@, l, o)]
assign_move(mem, l, o) == IF l = o THEN mem ELSE swap(clear(mem, l), l, o)

-----------------------------------------------------------------------------
(* Nodes from one list to another.                                         *)

SlipTransferAfter(mem, l, after, o, first, last) ==
    LET nodes == Span(mem, mem.next[first], last)
        moved == FoldLeft(LAMBDA acc, n : InsertAfter(RemoveAfter(acc, mem.head[o], first), mem.head[l], after, n),
                          mem, nodes)
        sizes == IF l = o THEN mem.size ELSE [mem.size EXCEPT ![o] = @ - Len(nodes), ![l] = @ + Len(nodes)]
    IN  IF first = last \/ after = first \/ mem.next[first] = after THEN mem
        ELSE [moved EXCEPT !.size = sizes]

\* The nodes behind first and before last.
transfer_after(mem, l, after, o, first, last) ==
    LET nodes == Span(mem, mem.next[first], last)
        moved == FoldLeft(LAMBDA acc, n :
                             [mem |-> InsertAfter(RemoveAfter(acc.mem, mem.head[o], first), mem.head[l], acc.after, n),
                              after |-> n],
                          [mem |-> mem, after |-> after], nodes).mem
        sizes == IF l = o THEN mem.size ELSE [mem.size EXCEPT ![o] = @ - Len(nodes), ![l] = @ + Len(nodes)]
    IN  IF first = last \/ after = first \/ mem.next[first] = after THEN mem
        ELSE [moved EXCEPT !.size = sizes]

splice_all(mem, l, after, o) == transfer_after(mem, l, after, o, BeforeBegin(mem, o), Null)
splice_back(mem, l, o) == splice_all(mem, l, BeforeEnd(mem, l), o)
splice_one(mem, l, after, o, prev) ==
    IF after \in {prev, mem.next[prev]} \/ mem.next[prev] = Null THEN mem
    ELSE transfer_after(mem, l, after, o, prev, mem.next[mem.next[prev]])

\* The node behind the one that was first, time and again, to the front.
reverse(mem, l) ==
    IF mem.size[l] <= 1 THEN mem
    ELSE FoldLeft(LAMBDA acc, n : splice_one(acc, l, BeforeBegin(mem, l), l, Begin(mem, l)),
                  mem, Tail(NodesOf(mem, l)))

\* right is always the first of o, left the node behind prev.
RECURSIVE Merging(_, _, _, _, _)
Merging(mem, l, o, order, prev) ==
    LET left == mem.next[prev]
        right == Begin(mem, o)
    IN  IF right = Null THEN mem
        ELSE IF left = Null THEN splice_all(mem, l, prev, o)
        ELSE IF Before(order, mem.val[right], mem.val[left])
        THEN Merging(splice_one(mem, l, prev, o, BeforeBegin(mem, o)), l, o, order, right)
        ELSE Merging(mem, l, o, order, left)
merge(mem, l, o, order) == IF l = o THEN mem ELSE Merging(mem, l, o, order, BeforeBegin(mem, l))

\* The lists left and right of a call: their names are not those of any other.
Temporary(mem, side) == <<side, Cardinality(DOMAIN mem.head)>>

\* What follows first, to the empty list right.
SplitOff(mem, l, right, first) == transfer_after(mem, right, BeforeBegin(mem, right), l, first, Null)

RECURSIVE merge_sort(_, _, _)
merge_sort(mem, l, order) ==
    LET right == Temporary(mem, "right")
        split == SplitOff(NewList(mem, right), l, right, At(mem, l, mem.size[l] \div 2))
        sorted == merge_sort(merge_sort(split, l, order), right, order)
    IN  IF mem.size[l] <= 1 THEN mem ELSE destroy_list(merge(sorted, l, right, order), right)

\* The i nodes behind it and what follows up to last, merged in place, by
\* std::less whatever the order asked for.
MergeRuns(mem, l, left, right, it, i, last) ==
    LET place == At(mem, l, it)
        TakeLeft(m1) == transfer_after(m1, left, BeforeBegin(m1, left), l, place, At(m1, l, it + i + 1))
        TakeRight(m2) == transfer_after(m2, right, BeforeBegin(m2, right), l, place, At(m2, l, last - i + 1))
    IN  splice_all(merge(TakeRight(TakeLeft(mem)), left, right, "less"), l, place, left)

SortPass(mem, l, left, right, i) ==
    LET c == 2 * i
        n == mem.size[l] - (mem.size[l] % c)
        pairs == FoldLeft(LAMBDA acc, j : MergeRuns(acc, l, left, right, (j - 1) * c, i, j * c),
                          mem, [j \in 1 .. n \div c |-> j])
    IN  IF mem.size[l] % c > i THEN MergeRuns(pairs, l, left, right, n, i, mem.size[l]) ELSE pairs

sort(mem, l, order) ==
    LET left == Temporary(mem, "left")
        right == Temporary(mem, "right")
        new == NewList(NewList(mem, left), right)
        passes == SelectSeq([k \in 1 .. mem.size[l] |-> 2 ^ (k - 1)], LAMBDA i : i < mem.size[l])
        sorted == FoldLeft(LAMBDA acc, i : SortPass(acc, l, left, right, i), new, passes)
    IN  IF mem.size[l] <= 1 THEN mem ELSE destroy_list(destroy_list(sorted, right), left)

\* prev stays where it is when the node behind it leaves.
Partition(mem, l, left, order) ==
    LET pivot == Begin(mem, l)
        Step(acc, n) ==
            IF Before(order, mem.val[n], mem.val[pivot])
            THEN [acc EXCEPT !.mem = splice_one(@, left, BeforeEnd(@, left), l, acc.prev)]
            ELSE [acc EXCEPT !.prev = n]
    IN  FoldLeft(Step, [mem |-> mem, prev |-> pivot], Tail(NodesOf(mem, l))).mem

\* The result is assigned by move, which gives the list another head.
RECURSIVE qsort(_, _, _)
qsort(mem, l, order) ==
    LET left == Temporary(mem, "left")
        right == Temporary(mem, "right")
        lower == Partition(NewList(NewList(mem, left), right), l, left, order)
        split == SplitOff(lower, l, right, Begin(mem, l))
        sorted == qsort(qsort(split, left, order), right, order)
        whole == splice_back(splice_back(sorted, left, l), left, right)
    IN  IF mem.size[l] <= 1 THEN mem
        ELSE destroy_list(destroy_list(assign_move(whole, l, left), right), left)

-----------------------------------------------------------------------------
(* The lists.                                                              *)

Nowhere == [next |-> <<>>, tail |-> <<>>, val |-> <<>>, head |-> <<>>, size |-> <<>>]
Init == m = FoldSet(LAMBDA l, mem : NewList(mem, l), Nowhere, Lists)

Used == Cardinality(DOMAIN m.val)
Room(n) == Used + n <= MaxNodes
Places(l) == {At(m, l, pos) : pos \in 0 .. m.size[l]}
\* What is behind the first and before the second.
Spans(l) == {<<At(m, l, r[1]), At(m, l, r[2] + 1)>> : r \in Ranges(m.size[l])}

InsertAfterPlace(l) ==
    \E p \in Places(l), s \in SeqsUpTo(Values, 2) : Room(Len(s)) /\ m' = insert_after(m, l, p, s)
EraseAfter(l) == \E r \in Spans(l) : m' = erase_after(m, l, r[1], r[2])
Resize(l) == \E n \in 0 .. m.size[l] + 1, x \in Values : Room(1) /\ m' = resize(m, l, n, x)
AssignCount(l) == \E n \in 0 .. 2, x \in Values : Room(n) /\ m' = assign(m, l, n, x)
AssignRange(l) == \E s \in SeqsUpTo(Values, 2) : Room(Len(s)) /\ m' = assign_range(m, l, s)
AssignMove(l, o) == m' = assign_move(m, l, o)
Swap(l, o) == m' = swap(m, l, o)
SpliceOne(l, o) == \E p \in Places(l), q \in Places(o) : m' = splice_one(m, l, p, o, q)
SpliceRange(l, o) ==
    \E p \in Places(l), r \in Spans(o) :
       p \notin ToSet(Span(m, m.next[r[1]], r[2])) /\ m' = transfer_after(m, l, p, o, r[1], r[2])
ReverseAll(l) == m' = reverse(m, l)
Merge(l, o) == \E order \in Orders : m' = merge(m, l, o, order)
MergeSort(l) == \E order \in Orders : m' = merge_sort(m, l, order)
Sort(l) == \E order \in Orders : m' = sort(m, l, order)
QSort(l) == \E order \in Orders : m' = qsort(m, l, order)

Next ==
    \E l \in Lists :
       \/ InsertAfterPlace(l) \/ EraseAfter(l) \/ Resize(l) \/ AssignCount(l) \/ AssignRange(l)
       \/ ReverseAll(l) \/ MergeSort(l) \/ Sort(l) \/ QSort(l)
       \/ \E o \in Lists : AssignMove(l, o) \/ Swap(l, o) \/ SpliceOne(l, o) \/ SpliceRange(l, o) \/ Merge(l, o)

Spec == Init /\ [][Next]_m

-----------------------------------------------------------------------------
(* What holds.                                                             *)

\* Every list is a chain of size_ nodes from its head to null, its tail is
\* the last of them, or the head of an empty list, and every node allocated
\* is in one list: the tail, which no iterator shows and every push_back
\* uses, follows each removal, splice, merge and sort.
Linked ==
    LET chain == [l \in Lists |-> NodesOf(m, l)] IN
    /\ \A l \in Lists :
          /\ Len(chain[l]) = m.size[l]
          /\ BeforeEnd(m, l) = At(m, l, m.size[l])
    /\ DOMAIN m.val = UNION {ToSet(chain[l]) : l \in Lists}
    /\ Used = FoldFunction(LAMBDA s, n : Len(s) + n, 0, chain)
    /\ DOMAIN m.next = DOMAIN m.val \cup {m.head[l] : l \in Lists}
    /\ DOMAIN m.tail = {m.head[l] : l \in Lists}

\* mem is the memory after a call on l that may only change what l contains:
\* the nodes it keeps are the same, so the iterators to them stay valid.
Leaves(mem, l, kept, values) ==
    /\ ValuesOf(mem, l) = values
    /\ \A n \in kept : n \in DOMAIN mem.val /\ mem.val[n] = m.val[n]
    /\ \A o \in Lists \ {l} : NodesOf(mem, o) = NodesOf(m, o)
    /\ mem.head = m.head

\* Insertions, erasures, resize and assign of a range leave the sequence of
\* the standard, except that assign of nothing changes nothing (slist.h:378),
\* and keep the nodes they do not erase.
Contents ==
    \A l \in Lists : LET s == ValuesOf(m, l)
                         nodes == NodesOf(m, l)
                     IN
       /\ \A pos \in Positions(s), t \in SeqsUpTo(Values, 2) : Room(Len(t)) =>
             /\ Leaves(insert_after(m, l, At(m, l, pos), t), l, ToSet(nodes), Splice(s, pos, pos, t))
             /\ t /= <<>> => Leaves(assign_range(m, l, t), l, {}, t)
       /\ \A r \in Ranges(Len(s)) :
             Leaves(erase_after(m, l, At(m, l, r[1]), At(m, l, r[2] + 1)), l,
                    ToSet(Splice(nodes, r[1], r[2], <<>>)), Splice(s, r[1], r[2], <<>>))
       /\ \A n \in 0 .. Len(s) + 1, x \in Values : Room(1) =>
             Leaves(resize(m, l, n, x), l, {nodes[i] : i \in DOMAIN nodes \cap (1 .. n)}, Resized(s, n, x))

\* What a call that moves nodes makes of mem: these nodes in l, with their
\* values, and a tail that is the last of them.
Moves(mem, after, l, nodes) ==
    /\ NodesOf(after, l) = nodes /\ after.val = mem.val
    /\ BeforeEnd(after, l) = At(after, l, Len(nodes))

SortsOnly(mem, l) ==
    LET nodes == NodesOf(mem, l)
        Key(n) == mem.val[n]
    IN  /\ Moves(mem, sort(mem, l, "less"), l, Sorted(nodes, "less", Key))
        /\ \A order \in Orders :
              /\ Moves(mem, merge_sort(mem, l, order), l, Sorted(nodes, order, Key))
              /\ Moves(mem, qsort(mem, l, order), l, Sorted(nodes, order, Key))

\* The three sorts, from every state and from longer lists, leave the nodes
\* in order, equal ones as they were, and the tail at the last; sort does so
\* only by std::less (slist.h:329).
SortsStable ==
    \A l \in Lists :
       /\ SortsOnly(m, l)
       /\ Used = 0 => \A s \in SeqsUpTo(Values, MaxLong) : SortsOnly(insert_after(m, l, BeforeEnd(m, l), s), l)

\* splice_after, reverse and merge move the nodes the standard says to the
\* places it says, between two lists and within one.
MovesExact ==
    LET Key(n) == m.val[n] IN
    \A l \in Lists : LET nodes == NodesOf(m, l) IN
       /\ Moves(m, reverse(m, l), l, Reverse(nodes))
       /\ \A pos \in Positions(nodes), r \in Ranges(Len(nodes)) : pos \notin r[1] + 1 .. r[2] =>
             LET span == SubSeq(nodes, r[1] + 1, r[2])
                 to == IF pos <= r[1] THEN pos ELSE pos - Len(span)
             IN  Moves(m, transfer_after(m, l, At(m, l, pos), l, At(m, l, r[1]), At(m, l, r[2] + 1)), l,
                       Splice(Splice(nodes, r[1], r[2], <<>>), to, to, span))
       /\ \A o \in Lists \ {l} : LET others == NodesOf(m, o) IN
             /\ \A order \in Orders :
                   nodes = Sorted(nodes, order, Key) /\ others = Sorted(others, order, Key) =>
                      Moves(m, merge(m, l, o, order), l, Sorted(nodes \o others, order, Key))
             /\ \A pos \in Positions(nodes), r \in Ranges(Len(others)) :
                   LET after == transfer_after(m, l, At(m, l, pos), o, At(m, o, r[1]), At(m, o, r[2] + 1))
                   IN  /\ Moves(m, after, l, Splice(nodes, pos, pos, SubSeq(others, r[1] + 1, r[2])))
                       /\ Moves(m, after, o, Splice(others, r[1], r[2], <<>>))

\* No operation that only reorders loses, copies or misplaces a node.
NodesMoved == SortsStable /\ MovesExact

=============================================================================
