---------------------------- MODULE MCThreadPool ----------------------------
(***************************************************************************)
(* Instances of ThreadPool for TLC.                                        *)
(***************************************************************************)
EXTENDS ThreadPool, TLC

\* Threads and tasks are interchangeable: no action or invariant orders them.
Symmetry == Permutations(Workers) \cup Permutations(Tasks)

=============================================================================
