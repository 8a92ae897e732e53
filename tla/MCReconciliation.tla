-------------------------- MODULE MCReconciliation --------------------------
(***************************************************************************)
(* Two Stripe payments and one of Cashfree between them; a run looks at    *)
(* one payment per gateway.                                                *)
(***************************************************************************)
EXTENDS Reconciliation

MCGatewayOf == <<"CASHFREE", "STRIPE", "STRIPE">>
=============================================================================
