--------------------------- MODULE MCEventHandler ---------------------------
(***************************************************************************)
(* Instances of EventHandler for TLC.                                      *)
(***************************************************************************)
EXTENDS EventHandler, TLC

\* Handlers are interchangeable.
Symmetry == Permutations(Handlers)

=============================================================================
