------------------------------ MODULE MCOtLaws ------------------------------
(* Instances of OtLaws for TLC. *)
EXTENDS OtLaws

\* Two characters each, so that an insert can be consumed in part.
MCTextsA == {<<101, 102>>}
MCTextsB == {<<201, 202>>}
=============================================================================
