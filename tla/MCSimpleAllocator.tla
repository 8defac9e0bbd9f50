-------------------------- MODULE MCSimpleAllocator --------------------------
(***************************************************************************)
(* Instances of SimpleAllocator for TLC.                                   *)
(***************************************************************************)
EXTENDS SimpleAllocator, TLC

\* Threads are interchangeable.
Symmetry == Permutations(Threads)

=============================================================================
