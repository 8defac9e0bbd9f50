---------------------------- MODULE MCSequences ----------------------------
(***************************************************************************)
(* The sequential containers and algorithms for TLC, each by itself: kind  *)
(* says which of them a behaviour is about, the others stay as they are.   *)
(* Those of Vector keep their names, the others have that of an instance.  *)
(***************************************************************************)
EXTENDS Vector

CONSTANTS Null, Lists,
          Keys,                 \* elements that are sorted or searched
          block_capacity_, MaxDeque, MaxMap,
          Nodes, Heads, MaxNodes, MaxLong, MaxLen

VARIABLES kind, deque, list, slist, c_, compare_, range

D == INSTANCE Deque WITH MaxSize <- MaxDeque
L == INSTANCE List WITH m <- list
S == INSTANCE SList WITH m <- slist
P == INSTANCE PriorityQueue WITH Values <- Keys
A == INSTANCE SeqAlgorithms WITH Values <- Keys

MCInit ==
    /\ kind \in {"vector", "deque", "list", "slist", "queue", "range"}
    /\ Init /\ D!Init /\ L!Init /\ S!Init /\ P!Init /\ A!Init
    /\ kind /= "queue" => compare_ = "less"

MCNext ==
    /\ \/ kind = "vector" /\ Next /\ UNCHANGED <<deque, list, slist, c_, compare_, range>>
       \/ kind = "deque" /\ D!Next /\ UNCHANGED <<d_, list, slist, c_, compare_, range>>
       \/ kind = "list" /\ L!Next /\ UNCHANGED <<d_, deque, slist, c_, compare_, range>>
       \/ kind = "slist" /\ S!Next /\ UNCHANGED <<d_, deque, list, c_, compare_, range>>
       \/ kind = "queue" /\ P!Next /\ UNCHANGED <<d_, deque, list, slist, range>>
       \/ kind = "range" /\ A!Next /\ UNCHANGED <<d_, deque, list, slist, c_, compare_>>
    /\ UNCHANGED kind

MCSpec == MCInit /\ [][MCNext]_<<kind, d_, deque, list, slist, c_, compare_, range>>

-----------------------------------------------------------------------------
(* The properties of the modules, each where it is about the behaviour.    *)

\* The blocks of a deque are those between its iterators, and its objects
\* those of its elements.
DequeBlocks == kind = "deque" => D!BlocksExact

\* Each operation of a deque leaves the sequence of the standard, wherever
\* its elements lie in the map.
DequeElements == kind = "deque" => D!ElementsKept

\* Lists are rings of size_ nodes that share none and leak none.
ListLinked == kind = "list" => L!Linked

\* Insertion and erasure leave the sequence of the standard and the other
\* nodes where they are.
ListElements == kind = "list" => L!Contents

\* splice, merge, reverse and the sorts only move nodes, and to the places
\* of the standard.
ListNodesMoved == kind = "list" => L!NodesMoved

\* Singly linked lists are chains of size_ nodes, with the tail at the last.
SListLinked == kind = "slist" => S!Linked

\* Their insertion and erasure leave the sequence of the standard.
SListElements == kind = "slist" => S!Contents

\* Their splice_after, merge, reverse and sorts move nodes to the places of
\* the standard, and the tail with them.
SListNodesMoved == kind = "slist" => S!NodesMoved

\* A priority queue is a heap, and the heap algorithms sort.
QueueHeaps == kind = "queue" => P!Heaps

\* The loops of seq_op.h compute what the standard says, but for the exceptions
\* that SeqAlgorithms names (reverse, unique, unique_copy with a predicate) and the
\* two functions it leaves out (rotate, replace_copy_if_n).
AlgorithmsRight == kind = "range" => A!AlgorithmsRight

=============================================================================
