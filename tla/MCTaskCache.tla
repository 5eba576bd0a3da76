---------------------------- MODULE MCTaskCache ----------------------------
(* Instances of TaskCache for TLC. *)
EXTENDS TaskCache, TLC

\* Processes are interchangeable.
Symmetry == Permutations(Proc)
=============================================================================
