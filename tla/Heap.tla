-------------------------------- MODULE Heap --------------------------------
(***************************************************************************)
(* What a MemoryAllocator promises: the memory it hands out belongs to one *)
(* caller until that caller gives it back.  An extent is a range of bytes  *)
(* of one mapped region.                                                   *)
(***************************************************************************)
EXTENDS Naturals

VARIABLE live  \* the extents callers own

Overlap(e, f) == /\ e.region = f.region
                 /\ e.from < f.to /\ f.from < e.to

Fresh(e, others) == e.from < e.to /\ \A f \in others : ~Overlap(e, f)

Init == live = {}

Alloc == \E e \in live' : /\ e \notin live
                          /\ live' = live \cup {e}
                          /\ Fresh(e, live)

Release == \E e \in live : live' = live \ {e}

\* The owner of an extent makes it larger or smaller where it is.
Resize == \E e \in live, f \in live' :
             /\ e.region = f.region /\ e.from = f.from
             /\ live' = (live \ {e}) \cup {f}
             /\ Fresh(f, live \ {e})

Next == Alloc \/ Release \/ Resize

Spec == Init /\ [][Next]_live

=============================================================================
