------------------------------- MODULE MCOutbox -------------------------------
(* Outbox for TLC: events are numbers, in the order they were begun. *)
EXTENDS Outbox
=============================================================================
