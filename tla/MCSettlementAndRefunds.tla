----------------------- MODULE MCSettlementAndRefunds -----------------------
(***************************************************************************)
(* One payment of 2 cents, reported paid by one event, and refunds of it:  *)
(* r1 asks for a cent, r2 leaves the amount out.                           *)
(***************************************************************************)
EXTENDS SettlementAndRefunds

CONSTANTS e1, x1, r1, r2

MCKind == [e \in Events |-> "SUCCEEDED"]
MCPaymentOf == [e \in Events |-> x1]
MCAsked == [r \in Requests |-> IF r = r1 THEN 10 ELSE 0]
MCClientKey == [r \in Requests |-> r]
MCReasonOf == [r \in Requests |-> "default"]
=============================================================================
