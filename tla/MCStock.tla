------------------------------- MODULE MCStock -------------------------------
(* Stock for TLC: two orders of the same two items in both orders, a line of *)
(* two units, and deliveries that are whole, partial, split or too large. *)
EXTENDS Stock

CONSTANTS a, b

Want(i, n) == [item |-> i, ordered |-> n]

Get(k, n) == [line |-> k, qty |-> n]

MCItems == {a, b}

MCBaskets == {<<Want(a, 2), Want(b, 1)>>, <<Want(b, 1), Want(a, 1)>>}

MCDeliveries ==
  {<<Get(1, 1), Get(2, 1)>>, <<Get(1, 1), Get(1, 1)>>, <<Get(1, 1)>>}
=============================================================================
