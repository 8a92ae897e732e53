------------------------ MODULE PaymentStateMachine ------------------------
(***************************************************************************)
(* The payment life cycle of src/services/paymentStateMachine.js: the      *)
(* statuses, the transition table and the order status that transition()   *)
(* writes after the payment.  Modules that run transition() split it into  *)
(* its three database calls, because every caller passes no transaction.   *)
(***************************************************************************)

\* "ABSENT" stands for the row that createPayment() has not committed yet.
PaymentStatus == {"ABSENT", "PENDING", "SUCCESS", "FAILED", "PARTIALLY_REFUNDED", "REFUNDED"}
OrderStatus   == {"ABSENT", "PENDING", "PAID", "FAILED", "CANCELLED"}

ALLOWED_TRANSITIONS ==
  [s \in PaymentStatus |->
     CASE s = "PENDING"            -> {"SUCCESS", "FAILED"}
       [] s = "SUCCESS"            -> {"PARTIALLY_REFUNDED", "REFUNDED"}
       [] s = "PARTIALLY_REFUNDED" -> {"PARTIALLY_REFUNDED", "REFUNDED"}
       [] OTHER                    -> {}]

\* canTransition(): a status may always "move" to itself.
CanTransition(from, to) == from = to \/ to \in ALLOWED_TRANSITIONS[from]

\* Faulty variant: the payment's status is written to the order as it is.
CopiedOrder(target, current) == target

\* The order status transition() writes for a payment status; a partial
\* refund leaves the order as it is.
SyncedOrder(target, current) ==
  IF target = "SUCCESS" THEN "PAID"
  ELSE IF target = "FAILED" THEN "FAILED"
  ELSE IF target = "REFUNDED" THEN "CANCELLED"
  ELSE current
=============================================================================
