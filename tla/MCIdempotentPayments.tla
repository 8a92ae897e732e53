------------------------ MODULE MCIdempotentPayments ------------------------
(***************************************************************************)
(* Three requests with one key: r1 and r2 choose Stripe and differ only in *)
(* what their metadata says, r3 asks for another amount at Cashfree.       *)
(***************************************************************************)
EXTENDS IdempotentPayments, TLC

CONSTANTS r1, r2, r3, k1

MCKeyOf == [r \in Requests |-> k1]
MCBodyOf ==
  [r \in Requests |->
     CASE r = r1 -> [amount |-> 1, metadata |-> [cart |-> 1, amount |-> 5]]
       [] r = r2 -> [amount |-> 1, metadata |-> [cart |-> 2, amount |-> 5]]
       [] OTHER  -> [amount |-> 2, gateway |-> "CASHFREE"]]

\* r1 and r2 have the same key, fingerprint and gateway.
RequestSymmetry == Permutations({r1, r2})
=============================================================================
