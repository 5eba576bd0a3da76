--------------------------- MODULE MCCollabStream ----------------------------
(* Instances of CollabStream for TLC. *)
EXTENDS CollabStream

CONSTANTS u1, u2, j1, notes
=============================================================================
