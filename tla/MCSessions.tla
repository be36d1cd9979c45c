----------------------------- MODULE MCSessions -----------------------------
(* Sessions for TLC: ids are interchangeable. *)
EXTENDS Sessions, TLC

Symmetry == Permutations(Sessions) \union Permutations(Workers)
=============================================================================
