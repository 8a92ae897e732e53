--------------------------- MODULE RefundAmounts ---------------------------
(***************************************************************************)
(* The refunds of one payment and their sum, in whole cents, and how finer *)
(* amounts are rounded to them.                                            *)
(***************************************************************************)
EXTENDS Integers, FiniteSets

CONSTANTS
  Requests,         \* POST /api/v1/refunds requests for the payment
  Amount            \* the payment's amount

ASSUME AmountsAssumption == IsFiniteSet(Requests) /\ Amount \in Nat \ {0}

\* The sum of amounts, as the number of cents in all of them.
Units(amounts) == {x \in Requests \X (1..Amount) : x[2] <= amounts[x[1]]}
Sum(amounts) == Cardinality(Units(amounts))

\* Tenths of a cent to cents, half up: as the amount sent to Stripe is rounded
\* (toDecimalPlaces(0)), and what a Decimal(12,2) column stores.
Rounded(tenths) == (tenths + 5) \div 10
=============================================================================
