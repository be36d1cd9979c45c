--------------------------- MODULE MCInvoiceLedger ---------------------------
(* InvoiceLedger for TLC. *)
EXTENDS InvoiceLedger
=============================================================================
