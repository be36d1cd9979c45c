------------------------------ MODULE MCBilling ------------------------------
(* Billing for TLC: payments and workers are numbers. *)
EXTENDS Billing
=============================================================================
