----------------------------- MODULE MCBillables -----------------------------
(* Billables for TLC: ids are interchangeable. *)
EXTENDS Billables, TLC

Symmetry ==
  Permutations(Lines) \union Permutations(Invoices) \union Permutations(Tokens)
    \union Permutations(Workers)
=============================================================================
