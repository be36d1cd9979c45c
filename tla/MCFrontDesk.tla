------------------------------ MODULE MCFrontDesk ------------------------------
(* Two customers that may share a number; submissions of one address but one. *)
EXTENDS FrontDesk, TLC

CONSTANT Other

Addresses == [p \in Posts |-> IF p = Other THEN "b" ELSE "a"]

Symmetry == Permutations(Workers)
=============================================================================
