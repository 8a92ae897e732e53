----------------------------- MODULE MCInvoices -----------------------------
(***************************************************************************)
(* The job and two requests for one invoice.                               *)
(***************************************************************************)
EXTENDS Invoices
=============================================================================
