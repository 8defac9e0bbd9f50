------------------------------- MODULE Queue -------------------------------
(***************************************************************************)
(* gtl::Queue<T> (container/queue.h) over its Deque, as ThreadPool keeps   *)
(* its tasks: the operations of Deque that remain, in any order, on a      *)
(* deque that only they have touched.                                      *)
(***************************************************************************)
EXTENDS Deque

\* Nothing is done with a deque after an access outside its blocks, and none
\* is made larger than the bounds.
Usable == Sound(deque) /\ Size(deque') <= MaxSize /\ deque'.capacity <= MaxMap

push == push_back /\ Usable
pop == pop_front /\ Usable

QueueNext == push \/ pop
QueueSpec == Init /\ [][QueueNext]_deque

\* What docs/deque.md says of pushing and popping at the ends: it inserts an
\* element, so it finds the block it is to be put into.
PushesArePossible == Sound(deque)

\* What docs/deque.md says of the map: it grows and shrinks as it is needed
\* and wastes little.  A queue of at most two elements in blocks of three
\* lies in two blocks, and four times the least map has room to spare.
LittleIsWasted == deque.capacity <= 4 * MinCapacity

=============================================================================
