------------------------------- MODULE Links -------------------------------
(***************************************************************************)
(* Nodes and the pointers between them: container/list_base.h, and what    *)
(* every linked structure of the library needs of its memory.              *)
(*                                                                         *)
(* mem is a record of functions from addresses: next, for the ring of      *)
(* list_base.h also prev, and the fields of the module that uses it.       *)
(***************************************************************************)
EXTENDS Sequence, TLC

CONSTANT Null      \* nullptr

Least(S) == CHOOSE x \in S : \A y \in S : x <= y
Fresh(mem, pool) == Least(pool \ DOMAIN mem.next)
Forget(f, S) == Restrict(f, DOMAIN f \ S)
With(f, x, y) == [z \in DOMAIN f \cup {x} |-> IF z = x THEN y ELSE f[z]]

\* The nodes from first up to last, in at most as many steps as there are
\* nodes.
Span(mem, first, last) ==
    LET n == Cardinality(DOMAIN mem.next)
        at[i \in 0 .. n] ==
            IF i = 0 THEN first ELSE LET node == at[i - 1] IN IF node \in {last, Null} THEN node ELSE mem.next[node]
        passed == {i \in 1 .. n : at[i - 1] \notin {last, Null}}
    IN  [i \in passed |-> at[i - 1]]

RemoveNode(mem, n) ==
    [mem EXCEPT !.next = [@ EXCEPT ![mem.prev[n]] = mem.next[n], ![n] = Null],
                !.prev = [@ EXCEPT ![mem.next[n]] = mem.prev[n], ![n] = Null]]

InsertBefore(mem, before, n) ==
    [mem EXCEPT !.next = [@ EXCEPT ![n] = before, ![mem.prev[before]] = n],
                !.prev = [@ EXCEPT ![n] = mem.prev[before], ![before] = n]]

RemoveRange(mem, first, last) ==
    [mem EXCEPT !.next = [@ EXCEPT ![mem.prev[first]] = mem.next[last], ![last] = Null],
                !.prev = [@ EXCEPT ![mem.next[last]] = mem.prev[first], ![first] = Null]]

AddToHead(mem, head, n) == InsertBefore(mem, mem.next[head], n)

=============================================================================
