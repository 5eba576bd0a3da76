---------------------------- MODULE MCSharedDoc ----------------------------
(* Instances of SharedDoc for TLC. *)
EXTENDS SharedDoc, TLC

\* A document that is created empty, and one that is not.
MCEmpty == <<>>
MCText  == <<101>>

\* The clients are interchangeable.
Symmetry == Permutations(Client)
=============================================================================
