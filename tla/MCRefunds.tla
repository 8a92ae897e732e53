----------------------------- MODULE MCRefunds -----------------------------
(***************************************************************************)
(* Up to three refunds of one payment of 3 cents: of a cent, of 1.6 cents  *)
(* (with a key of its own), and of what is left, without an amount.        *)
(***************************************************************************)
EXTENDS Refunds

CONSTANTS r1, r2, r3, k2

MCAsked == [r \in Requests |-> CASE r = r1 -> 10 [] r = r2 -> 16 [] OTHER -> 0]
MCClientKey == [r \in Requests |-> IF r = r2 THEN k2 ELSE NoKey]
MCReasonOf == [r \in Requests |-> "default"]
=============================================================================
