--------------------------- MODULE MCCollabSession ---------------------------
(* Instances of CollabSession for TLC. *)
EXTENDS CollabSession, TLC

CONSTANTS u1, u2, j1, j2, notes, draft

\* The jobs are interchangeable.
Symmetry == Permutations(Job)
=============================================================================
