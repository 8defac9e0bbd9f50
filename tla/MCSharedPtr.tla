---------------------------- MODULE MCSharedPtr ----------------------------
(***************************************************************************)
(* Instances of SharedPtr for TLC.                                         *)
(***************************************************************************)
EXTENDS SharedPtr, TLC

\* SharedPtr objects are interchangeable, and so are WeakPtr objects.
Symmetry == Permutations(Shareds) \cup Permutations(Weaks)

=============================================================================
