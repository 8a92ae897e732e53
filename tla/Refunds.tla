------------------------------ MODULE Refunds ------------------------------
(***************************************************************************)
(* createRefund(): the checks on the payment and on what has been refunded *)
(* so far, the refund at Stripe, the Refund row, the payment's transition  *)
(* and the ledger debit.  All requests concern one payment: payments share *)
(* nothing here.  One action is one awaited call together with the         *)
(* synchronous code up to the next.                                        *)
(*                                                                         *)
(* The payment, the rows, the ledger and Stripe count whole cents.  What a *)
(* request asks for may be finer and is counted in tenths of a cent, which *)
(* stand for any finer part: it is compared as it is and rounded where it  *)
(* is stored or sent.  Requests that the validation or the ownership check *)
(* rejects change nothing and are left out.                                *)
(***************************************************************************)
EXTENDS PaymentStateMachine, RefundAmounts

CONSTANTS
  Asked,            \* the tenths of a cent a request asks for, 0 if it leaves it out
  ClientKey, NoKey, \* its idempotencyKey, NoKey if it leaves it out
  ReasonOf,         \* its reason
  MaxRetries,       \* of saving the row when refund numbers collide: 3
  MaxFailures       \* bound of the model

ASSUME RefundsAssumption ==
  /\ Asked \in [Requests -> Nat]
  /\ MaxRetries \in Nat \ {0}
  /\ MaxFailures \in Nat

VARIABLES
  payment, order,          \* status of the Payment and of its Order row
  pc,                      \* stage of each request
  seen,                    \* totalRefunded, as the request has read it
  wanted,                  \* its refundAmount, in tenths of a cent
  answer,                  \* the status in Stripe's answer to it
  collisions,              \* its retryCount
  stripe, given,           \* the refund it made at Stripe: status, money given back
  rowStatus, rowAmount,    \* the Refund row with that refund's stripeRefundId
  debited,                 \* refunds with a DEBIT entry in the ledger
  failures,                \* failed calls, lost answers and crashes so far
  overlapped               \* history: two requests have been in progress at once

stateVars   == <<payment, order>>
requestVars == <<seen, wanted, answer, collisions>>
stripeVars  == <<stripe, given>>
rowVars     == <<rowStatus, rowAmount>>
vars == <<payment, order, pc, seen, wanted, answer, collisions, stripe, given, rowStatus, rowAmount,
          debited, failures, overlapped>>

\* "NONE": there is no refund, or no row.  A canceled refund is like a failed one.
RefundStatus == {"NONE", "PENDING", "SUCCEEDED", "FAILED"}
Stage == {"new", "total", "refund", "save", "transition", "writePayment", "writeOrder",
          "debit", "done"}

\* Faulty variant: the rows with the other status are added up.
CountedPending == [r \in Requests |-> IF rowStatus[r] = "PENDING" THEN rowAmount[r] ELSE 0]

\* _getTotalRefundedAmount(): what the SUCCEEDED rows add up to.
Counted == [r \in Requests |-> IF rowStatus[r] = "SUCCEEDED" THEN rowAmount[r] ELSE 0]
TotalRefunded == Sum(Counted)

\* What Stripe can still give back; pending refunds count, failed ones do not.
Left == Amount - Sum([r \in Requests |-> IF stripe[r] \in {"PENDING", "SUCCEEDED"} THEN given[r] ELSE 0])

NothingRefunded ==
  /\ pc = [r \in Requests |-> "new"]
  /\ seen = [r \in Requests |-> 0] /\ wanted = [r \in Requests |-> 0]
  /\ answer = [r \in Requests |-> "NONE"]
  /\ collisions = [r \in Requests |-> 0]
  /\ stripe = [r \in Requests |-> "NONE"] /\ given = [r \in Requests |-> 0]
  /\ rowStatus = [r \in Requests |-> "NONE"] /\ rowAmount = [r \in Requests |-> 0]
  /\ debited = {}
  /\ failures = 0
  /\ overlapped = FALSE

Init ==
  /\ payment = "SUCCESS" /\ order = "PAID"
  /\ NothingRefunded

Goto(r, stage) == pc' = [pc EXCEPT ![r] = stage]
InProgress(r) == pc[r] \notin {"new", "done"}

----------------------------------------------------------------------------
(* Checks.                                                                 *)

\* The payment is read and its status judged; the status is not kept.
ReadPayment(r) ==
  /\ pc[r] = "new"
  /\ Goto(r, IF payment \in {"SUCCESS", "PARTIALLY_REFUNDED"} THEN "total" ELSE "done")
  /\ overlapped' = (overlapped \/ \E q \in Requests : InProgress(q))
  /\ UNCHANGED <<stateVars, requestVars, stripeVars, rowVars, debited, failures>>

\* Faulty variant: any row counts as refunded, whatever its status.
ReadTotalOfAllRows(r) ==
  LET total == Sum(rowAmount)
      amount == IF Asked[r] = 0 THEN 10 * (Amount - total) ELSE Asked[r]
  IN
  /\ pc[r] = "total"
  /\ IF total >= Amount \/ amount > 10 * (Amount - total)
       THEN Goto(r, "done") /\ UNCHANGED <<seen, wanted>>
       ELSE /\ seen' = [seen EXCEPT ![r] = total]
            /\ wanted' = [wanted EXCEPT ![r] = amount]
            /\ Goto(r, "refund")
  /\ UNCHANGED <<stateVars, answer, collisions, stripeVars, rowVars, debited, failures, overlapped>>

\* The total is read here and used again after every call that follows.
ReadTotal(r) ==
  LET total == TotalRefunded
      amount == IF Asked[r] = 0 THEN 10 * (Amount - total) ELSE Asked[r]
  IN
  /\ pc[r] = "total"
  /\ IF total >= Amount \/ amount > 10 * (Amount - total)
       THEN Goto(r, "done") /\ UNCHANGED <<seen, wanted>>
       ELSE /\ seen' = [seen EXCEPT ![r] = total]
            /\ wanted' = [wanted EXCEPT ![r] = amount]
            /\ Goto(r, "refund")
  /\ UNCHANGED <<stateVars, answer, collisions, stripeVars, rowVars, debited, failures, overlapped>>

----------------------------------------------------------------------------
(* Stripe.                                                                 *)

\* Both requests reach Stripe with the same stableIdempotencyKey.
SameKey(q, r) ==
  /\ ClientKey[q] = ClientKey[r]
  /\ ClientKey[r] = NoKey => wanted[q] = wanted[r] /\ ReasonOf[q] = ReasonOf[r]

\* Stripe refuses a key it knows with other parameters, and the refund number
\* in the metadata is another one for each request.
KeyIsKnown(r) == \E q \in Requests : stripe[q] # "NONE" /\ SameKey(q, r)

\* A refund of the whole payment is sent without an amount: Stripe gives back
\* all that is left.
Payout(r) == IF wanted[r] = 10 * Amount THEN Left ELSE Rounded(wanted[r])

\* Stripe makes the refund of r.
Refunded(r, result) ==
  /\ Payout(r) \in 1..Left /\ ~KeyIsKnown(r)
  /\ stripe' = [stripe EXCEPT ![r] = result]
  /\ given' = [given EXCEPT ![r] = Payout(r)]

\* Faulty variant: only a refund that has succeeded is saved.
CreateRefundAndSaveSuccess(r) ==
  /\ pc[r] = "refund"
  /\ \/ \E s \in RefundStatus \ {"NONE"} :
          /\ Refunded(r, s)
          /\ answer' = [answer EXCEPT ![r] = s]
          /\ Goto(r, IF s = "SUCCEEDED" THEN "save" ELSE "done")
     \/ /\ ~(Payout(r) \in 1..Left /\ ~KeyIsKnown(r)) /\ Goto(r, "done")
        /\ UNCHANGED <<stripeVars, answer>>
  /\ UNCHANGED <<stateVars, seen, wanted, collisions, rowVars, debited, failures, overlapped>>

CreateRefund(r) ==
  /\ pc[r] = "refund"
  /\ \/ \E s \in RefundStatus \ {"NONE"} :
          /\ Refunded(r, s)
          /\ answer' = [answer EXCEPT ![r] = s]
          /\ Goto(r, "save")
     \/ /\ ~(Payout(r) \in 1..Left /\ ~KeyIsKnown(r)) /\ Goto(r, "done")
        /\ UNCHANGED <<stripeVars, answer>>
  /\ UNCHANGED <<stateVars, seen, wanted, collisions, rowVars, debited, failures, overlapped>>

\* A pending refund is decided at Stripe; no reachable code takes notice.
Decide(q) ==
  /\ stripe[q] = "PENDING"
  /\ \E s \in {"SUCCEEDED", "FAILED"} : stripe' = [stripe EXCEPT ![q] = s]
  /\ UNCHANGED <<stateVars, pc, requestVars, given, rowVars, debited, failures, overlapped>>

----------------------------------------------------------------------------
(* The row, the payment and the ledger.                                    *)

\* Faulty variant: the row gets the amount of the request.
SaveAskedAmount(r) ==
  /\ pc[r] = "save"
  /\ rowStatus' = [rowStatus EXCEPT ![r] = answer[r]]
  /\ rowAmount' = [rowAmount EXCEPT ![r] = Rounded(Asked[r])]
  /\ Goto(r, IF answer[r] = "SUCCEEDED" THEN "transition" ELSE "done")
  /\ UNCHANGED <<stateVars, requestVars, stripeVars, debited, failures, overlapped>>

\* The row gets the status of Stripe's answer, which nothing updates later.
SaveRefund(r) ==
  /\ pc[r] = "save"
  /\ rowStatus' = [rowStatus EXCEPT ![r] = answer[r]]
  /\ rowAmount' = [rowAmount EXCEPT ![r] = Rounded(wanted[r])]
  /\ Goto(r, IF answer[r] = "SUCCEEDED" THEN "transition" ELSE "done")
  /\ UNCHANGED <<stateVars, requestVars, stripeVars, debited, failures, overlapped>>

\* Faulty variant: the last attempt does not count as one.
NumberCollisionOffByOne(r) ==
  /\ pc[r] = "save"
  /\ collisions' = [collisions EXCEPT ![r] = @ + 1]
  /\ Goto(r, IF collisions[r] + 1 > MaxRetries THEN "done" ELSE "save")
  /\ UNCHANGED <<stateVars, seen, wanted, answer, stripeVars, rowVars, debited, failures, overlapped>>

\* Another refund has the number: the row is tried again with a new one.
NumberCollision(r) ==
  /\ pc[r] = "save"
  /\ collisions' = [collisions EXCEPT ![r] = @ + 1]
  /\ Goto(r, IF collisions[r] + 1 >= MaxRetries THEN "done" ELSE "save")
  /\ UNCHANGED <<stateVars, seen, wanted, answer, stripeVars, rowVars, debited, failures, overlapped>>

\* Judged on what was asked for, not on what Stripe and the row were given.
IsFull(r) == 10 * seen[r] + wanted[r] >= 10 * Amount

\* Faulty variant: the refund that completes the amount is taken for partial.
TargetOffByOne(r) == IF 10 * seen[r] + wanted[r] > 10 * Amount THEN "REFUNDED" ELSE "PARTIALLY_REFUNDED"

Target(r) == IF IsFull(r) THEN "REFUNDED" ELSE "PARTIALLY_REFUNDED"

\* transition(): read and validate.  When it throws, the debit is not made.
ReadStatus(r) ==
  /\ pc[r] = "transition"
  /\ Goto(r, IF payment = Target(r) THEN "debit"
             ELSE IF CanTransition(payment, Target(r)) THEN "writePayment"
             ELSE "done")
  /\ UNCHANGED <<stateVars, requestVars, stripeVars, rowVars, debited, failures, overlapped>>

WritePayment(r) ==
  /\ pc[r] = "writePayment"
  /\ payment' = Target(r)
  /\ Goto(r, IF Target(r) = "REFUNDED" THEN "writeOrder" ELSE "debit")
  /\ UNCHANGED <<order, requestVars, stripeVars, rowVars, debited, failures, overlapped>>

WriteOrder(r) ==
  /\ pc[r] = "writeOrder"
  /\ order' = SyncedOrder(Target(r), order)
  /\ Goto(r, "debit")
  /\ UNCHANGED <<payment, requestVars, stripeVars, rowVars, debited, failures, overlapped>>

\* recordRefundDebit(): its reference is the Refund row's id, which no other
\* request knows, so that finding and creating the entry cannot race.
RecordRefundDebit(r) ==
  /\ pc[r] = "debit"
  /\ debited' = debited \cup {r}
  /\ Goto(r, "done")
  /\ UNCHANGED <<stateVars, requestVars, stripeVars, rowVars, failures, overlapped>>

----------------------------------------------------------------------------
(* What goes wrong.                                                        *)

\* A call fails or the process dies; nothing is undone or retried.  A call that
\* takes effect and fails for its caller is that call, and then this.
Fail(r) ==
  /\ InProgress(r) /\ failures < MaxFailures
  /\ failures' = failures + 1
  /\ Goto(r, "done")
  /\ UNCHANGED <<stateVars, requestVars, stripeVars, rowVars, debited, overlapped>>

----------------------------------------------------------------------------
Step(r) ==
  \/ ReadTotal(r) \/ CreateRefund(r) \/ SaveRefund(r) \/ NumberCollision(r)
  \/ ReadStatus(r) \/ WritePayment(r) \/ WriteOrder(r) \/ RecordRefundDebit(r)

Next ==
  \/ \E r \in Requests : ReadPayment(r) \/ Step(r) \/ Fail(r)
  \/ \E q \in Requests : Decide(q)

Spec == Init /\ [][Next]_vars

----------------------------------------------------------------------------
TypeOK ==
  /\ payment \in PaymentStatus /\ order \in OrderStatus
  /\ pc \in [Requests -> Stage]
  /\ seen \in [Requests -> 0..Amount] /\ wanted \in [Requests -> 0..10 * Amount]
  /\ answer \in [Requests -> RefundStatus]
  /\ collisions \in [Requests -> 0..MaxRetries]
  /\ \A r \in Requests : collisions[r] = MaxRetries => pc[r] = "done"
  /\ stripe \in [Requests -> RefundStatus] /\ given \in [Requests -> 0..Amount]
  /\ rowStatus \in [Requests -> RefundStatus] /\ rowAmount \in [Requests -> 0..Amount]
  /\ debited \subseteq Requests
  /\ failures \in Nat
  /\ overlapped \in BOOLEAN

\* A payment is REFUNDED, and its order CANCELLED, only when its SUCCEEDED
\* refunds cover it: though the total is stale by the time it is used, it can
\* only have grown (refund.service.js:166 and :368).
RefundedIsEarned ==
  payment = "REFUNDED" \/ order = "CANCELLED" => TotalRefunded >= Amount

\* A row stands for a refund at Stripe and never understates it; it overstates
\* only a refund of the whole payment, which is sent without an amount
\* (refund.service.js:244).  Only SUCCEEDED rows are debited.
RowsMatchStripe ==
  /\ \A r \in Requests : rowStatus[r] # "NONE" =>
       /\ stripe[r] # "NONE"
       /\ given[r] <= rowAmount[r]
       /\ given[r] = rowAmount[r] \/ rowAmount[r] = Amount
  /\ \A r \in debited : rowStatus[r] = "SUCCEEDED"

GaveUp == {r \in Requests : collisions[r] = MaxRetries}

\* Money leaves Stripe without a row only as often as a call fails, a process
\* dies or the refund numbers run out (refund.service.js:338 and :360).
UnrecordedIsPaidFor ==
  Cardinality({r \in Requests : stripe[r] # "NONE" /\ rowStatus[r] = "NONE" /\ pc[r] = "done"})
    <= failures + Cardinality(GaveUp)

\* All went well and is over: one request at a time, no failure, none pending.
Orderly ==
  /\ ~overlapped /\ failures = 0 /\ GaveUp = {}
  /\ \A r \in Requests : ~InProgress(r) /\ rowStatus[r] # "PENDING"

\* A refund that covers the rest of the payment once rounded, but not as it was asked for.
ShortOfFull(r) == ~IsFull(r) /\ seen[r] + Rounded(wanted[r]) = Amount

\* Then rows, payment, order and ledger agree with each other and with Stripe
\* (the sequence of partial refunds in README.md:556), except that a payment whose
\* refunds "equal the initial credit" (docs/transaction-ledger.md:73) stays
\* PARTIALLY_REFUNDED when the last one was rounded up to do so.
BooksAgree ==
  Orderly =>
    /\ \A r \in Requests : rowStatus[r] = stripe[r] /\ rowAmount[r] = given[r]
    /\ debited = {r \in Requests : rowStatus[r] = "SUCCEEDED"}
    /\ TotalRefunded <= Amount
    /\ payment = IF TotalRefunded = 0 THEN "SUCCESS"
                 ELSE IF TotalRefunded < Amount \/ \E r \in debited : ShortOfFull(r)
                   THEN "PARTIALLY_REFUNDED" ELSE "REFUNDED"
    /\ order = IF payment = "REFUNDED" THEN "CANCELLED" ELSE "PAID"

\* "The system prevents refunds from exceeding the remaining refundable amount."
\* (README.md:568): the ledger never debits more than the payment.
RefundsWithinPayment ==
  Sum([r \in Requests |-> IF r \in debited THEN rowAmount[r] ELSE 0]) <= Amount

\* What does hold of it, whatever fails and whatever is pending: partial refunds
\* keep to it however they overlap, because Stripe knows what is left, and one of
\* the whole payment, which is sent without an amount (refund.service.js:244),
\* breaks it only beside another request.
DebitsWithinPayment ==
  ~overlapped \/ (\A r \in debited : rowAmount[r] < Amount) => RefundsWithinPayment
=============================================================================
