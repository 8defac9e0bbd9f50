--------------------------- MODULE PriorityQueue ---------------------------
(***************************************************************************)
(* gtl::PriorityQueue<T, Compare> (container/priority_queue.h) over the    *)
(* heaps of algorithm/heap_op.h.  Elements are numbers, Compare is one of  *)
(* Orders, and an index is counted from 0.                                 *)
(***************************************************************************)
EXTENDS Sequence

CONSTANTS Values,    \* the elements
          MaxSize,   \* bound: elements
          MaxLong    \* bound: elements of the ranges whose sorting is checked

VARIABLES c_,        \* the elements
          compare_   \* never changes

-----------------------------------------------------------------------------
(* heap_op.h.  order says whether the first of two elements is less.       *)

iter_swap(s, i, j) == [s EXCEPT ![i + 1] = s[j + 1], ![j + 1] = s[i + 1]]

\* The least index of an element that its parent is less than.
is_heap_until(s, order) ==
    LET wrong == {i \in 1 .. Len(s) - 1 : Before(order, s[(i - 1) \div 2 + 1], s[i + 1])}
    IN  IF wrong = {} THEN Len(s) ELSE CHOOSE i \in wrong : \A j \in wrong : i <= j
is_heap(s, order) == is_heap_until(s, order) = Len(s)

SlipSiftDown(s, n, i, order) ==
    LET l == 2 * i + 1
    IN  IF i >= n \div 2 \/ ~Before(order, s[i + 1], s[l + 1]) THEN s ELSE iter_swap(s, i, l)

\* Of the first n elements.
RECURSIVE sift_down(_, _, _, _)
sift_down(s, n, i, order) ==
    LET l == 2 * i + 1
        child == IF l + 1 < n /\ Before(order, s[l + 1], s[l + 2]) THEN l + 1 ELSE l
    IN  IF i >= n \div 2 \/ ~Before(order, s[i + 1], s[child + 1]) THEN s
        ELSE sift_down(iter_swap(s, i, child), n, child, order)

RECURSIVE sift_up(_, _, _)
sift_up(s, i, order) ==
    LET parent == (i - 1) \div 2
    IN  IF i > 0 /\ Before(order, s[parent + 1], s[i + 1]) THEN sift_up(iter_swap(s, i, parent), parent, order) ELSE s

make_heap(s, order) ==
    FoldLeft(LAMBDA t, k : sift_down(t, Len(s), Len(s) \div 2 - k, order), s, [k \in 1 .. Len(s) \div 2 |-> k])

push_heap(s, order) == IF s = <<>> THEN s ELSE sift_up(s, Len(s) - 1, order)

\* The first of n elements goes to their end.
pop_heap(s, n, order) == IF n = 0 THEN s ELSE sift_down(iter_swap(s, 0, n - 1), n - 1, 0, order)

sort_heap(s, order) == FoldLeft(LAMBDA t, k : pop_heap(t, Len(s) + 1 - k, order), s, [k \in DOMAIN s |-> k])

-----------------------------------------------------------------------------
(* The queue.                                                              *)

Init == compare_ \in Orders /\ c_ = <<>>

pushed(s, x) == push_heap(Append(s, x), compare_)
\* Always by std::less.
popped(s) == Front(pop_heap(s, Len(s), "less"))

construct == \E s \in SeqsUpTo(Values, MaxSize) : c_' = make_heap(s, compare_)
push == \E x \in Values : Len(c_) < MaxSize /\ c_' = pushed(c_, x)
push_range == \E s \in SeqsUpTo(Values, MaxSize - Len(c_)) : c_' = FoldLeft(pushed, c_, s)
pop == Len(c_) > 0 /\ c_' = popped(c_)

Next == (construct \/ push \/ push_range \/ pop) /\ UNCHANGED compare_

Spec == Init /\ [][Next]_<<c_, compare_>>

-----------------------------------------------------------------------------
(* What holds.                                                             *)

Amount(s, x) == Cardinality({i \in DOMAIN s : s[i] = x})
Rearranged(s, t) == \A x \in Values : Amount(s, x) = Amount(t, x)
InOrder(s, order) == \A i \in 1 .. Len(s) - 1 : ~Before(order, s[i + 1], s[i])

\* By std::less the elements are a heap, whose first is the greatest and the
\* one that pop removes, after every push and pop and for every range; by
\* another order only until the first pop (priority_queue.h:69).  make_heap
\* and sort_heap sort every range by either.
Heaps ==
    /\ compare_ = "less" => is_heap(c_, "less")
    /\ compare_ = "less" /\ Len(c_) > 0 =>
          /\ \A i \in DOMAIN c_ : c_[i] <= c_[1]
          /\ Rearranged(Append(popped(c_), c_[1]), c_)
    /\ is_heap(c_, compare_) => \A x \in Values : LET more == pushed(c_, x)
                                                  IN  is_heap(more, compare_) /\ Rearranged(more, Append(c_, x))
    /\ c_ = <<>> => \A s \in SeqsUpTo(Values, MaxLong) :
          LET heap == make_heap(s, compare_)
              sorted == sort_heap(heap, compare_)
          IN  is_heap(heap, compare_) /\ InOrder(sorted, compare_) /\ Rearranged(sorted, s)

=============================================================================
