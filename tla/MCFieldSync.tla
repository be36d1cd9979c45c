---------------------------- MODULE MCFieldSync ----------------------------
(* FieldSync for TLC. *)
EXTENDS FieldSync
=============================================================================
