--------------------- MODULE SettlementAndRefundsProofs ---------------------
(***************************************************************************)
(* For any number of events, runs and refunds of a payment of any amount,  *)
(* and any failures and crashes of either: what the webhook path promises  *)
(* of money still holds when refunds write the same rows, no refund is     *)
(* undone, and no debit is without its credit unless the event rows show   *)
(* it.  What Refunds promises is proved again here for its instance.       *)
(***************************************************************************)
EXTENDS SettlementAndRefunds, WebhookPipelineProofs, RefundAmountsProofs

RefundAction(r) == Refund!ReadPayment(r) \/ Refund!Step(r) \/ Refund!Fail(r) \/ Refund!Decide(r)

LEMMA RefundHasActor ==
  ASSUME RefundStep
  PROVE  \E r \in Requests : RefundAction(r)
BY DEF RefundStep, Refund!Next, RefundAction

----------------------------------------------------------------------------
(* The types of the refund's variables.                                    *)

LEMMA SumIsSum ==
  ASSUME NEW f
  PROVE  Refund!Sum(f) = Sum(f)
BY Zenon DEF Refund!Sum, Refund!Units, Refund!Cardinality, Sum, Units, Cardinality

LEMMA TotalIsNat ==
  ASSUME Refund!TypeOK
  PROVE  /\ Refund!Counted \in Amounts /\ Refund!TotalRefunded \in Nat
         /\ Refund!TotalRefunded = Sum(Refund!Counted)
<1>1. Refund!Counted \in Amounts
  BY AmountsAssumption DEF Refund!TypeOK, Refund!Counted, Amounts
<1>2. Refund!TotalRefunded = Sum(Refund!Counted)
  BY SumIsSum DEF Refund!TotalRefunded
<1> QED
  BY <1>1, <1>2, SumType

LEMMA LeftIsInt ==
  ASSUME Refund!TypeOK
  PROVE  Refund!Left \in Int /\ Refund!Left <= Amount
<1> DEFINE out == [r \in Requests |-> IF stripe[r] \in {"PENDING", "SUCCEEDED"} THEN given[r] ELSE 0]
<1>1. out \in Amounts
  BY AmountsAssumption DEF Refund!TypeOK, Amounts
<1>2. Sum(out) \in Nat
  BY <1>1, SumType
<1>3. Refund!Left = Amount - Sum(out)
  BY SumIsSum DEF Refund!Left
<1> QED
  BY <1>2, <1>3, AmountsAssumption

\* What a request is worth in cents.
LEMMA RoundedIsRounded ==
  ASSUME NEW w
  PROVE  Refund!Rounded(w) = Rounded(w)
BY Zenon DEF Refund!Rounded, Rounded

LEMMA CentsType ==
  ASSUME Refund!TypeOK
  PROVE  \A r \in Requests : Rounded(wanted[r]) \in 0..Amount
<1> SUFFICES ASSUME NEW r \in Requests
             PROVE  Rounded(wanted[r]) \in 0..Amount
  OBVIOUS
<1>1. wanted[r] \in Nat /\ wanted[r] <= 10 * Amount /\ Amount \in Nat
  BY AmountsAssumption DEF Refund!TypeOK
<1> QED
  BY <1>1, RoundedBounds

LEMMA RefundTypes ==
  ASSUME Refund!TypeOK, NEW r \in Requests, RefundAction(r)
  PROVE  Refund!TypeOK'
<1> USE AmountsAssumption, PaidAssumption DEF Refund!TypeOK, Refund!Stage, Refund!Goto,
        Refund!stateVars, Refund!requestVars, Refund!stripeVars, Refund!rowVars
<1>1. CASE Refund!ReadPayment(r)
  BY <1>1 DEF Refund!ReadPayment
<1>2. CASE Refund!ReadTotal(r)
  BY <1>2, TotalIsNat DEF Refund!ReadTotal
<1>3. CASE Refund!CreateRefund(r)
  <2>1. CASE \E s \in Refund!RefundStatus \ {"NONE"} :
               Refund!Refunded(r, s) /\ answer' = [answer EXCEPT ![r] = s] /\ Refund!Goto(r, "save")
    <3>1. Refund!Payout(r) \in 0..Amount
      BY <2>1, LeftIsInt DEF Refund!Refunded
    <3> QED
      BY <1>3, <2>1, <3>1 DEF Refund!CreateRefund, Refund!Refunded
  <2>2. CASE Refund!Goto(r, "done") /\ UNCHANGED <<Refund!stripeVars, answer>>
    BY <1>3, <2>2 DEF Refund!CreateRefund
  <2> QED
    BY <1>3, <2>1, <2>2 DEF Refund!CreateRefund
<1>4. CASE Refund!SaveRefund(r)
  <2>1. Refund!Rounded(wanted[r]) \in 0..Amount
    BY CentsType, RoundedIsRounded
  <2> QED
    BY <1>4, <2>1 DEF Refund!SaveRefund
<1>5. CASE Refund!NumberCollision(r)
  BY <1>5 DEF Refund!NumberCollision
<1>6. CASE Refund!ReadStatus(r)
  BY <1>6 DEF Refund!ReadStatus
<1>7. CASE Refund!WritePayment(r)
  BY <1>7 DEF Refund!WritePayment, Refund!Target, Refund!PaymentStatus
<1>8. CASE Refund!WriteOrder(r)
  BY <1>8 DEF Refund!WriteOrder, Refund!SyncedOrder, Refund!OrderStatus
<1>9. CASE Refund!RecordRefundDebit(r)
  BY <1>9 DEF Refund!RecordRefundDebit
<1>10. CASE Refund!Fail(r)
  BY <1>10 DEF Refund!Fail
<1>11. CASE Refund!Decide(r)
  BY <1>11 DEF Refund!Decide, Refund!RefundStatus
<1> QED
  BY <1>1, <1>2, <1>3, <1>4, <1>5, <1>6, <1>7, <1>8, <1>9, <1>10, <1>11 DEF RefundAction, Refund!Step

----------------------------------------------------------------------------
(* What a refund's step can do to the rows the webhook path works on.      *)

\* It changes the status of the one payment and of its order, nothing else.
LEMMA RefundFrame ==
  ASSUME TypeOK, RefundStep
  PROVE  /\ TypeOK'
         /\ UNCHANGED <<eventVars, credits, downVars, jobVars, ingestVars, pc, runVars, bounds, dismissed>>
         /\ \A x \in Payments \ {Paid} : payment'[x] = payment[x] /\ order'[x] = order[x]
<1> USE PaidAssumption DEF TypeOK
<1>1. PICK s \in {payment[Paid], "PARTIALLY_REFUNDED", "REFUNDED"} : payment' = [payment EXCEPT ![Paid] = s]
  BY DEF RefundStep
<1>2. PICK t \in {order[Paid], SyncedOrder("REFUNDED", order[Paid])} : order' = [order EXCEPT ![Paid] = t]
  BY DEF RefundStep
<1>3. UNCHANGED <<eventVars, credits, downVars, jobVars, ingestVars, pc, runVars, bounds, dismissed>>
  BY DEF RefundStep
<1>4. payment' \in [Payments -> PaymentStatus] /\ order' \in [Payments -> OrderStatus]
  BY <1>1, <1>2 DEF PaymentStatus, OrderStatus, SyncedOrder
<1>5. TypeOK'
  BY <1>3, <1>4 DEF eventVars, downVars, jobVars, ingestVars, runVars, bounds
<1> QED
  BY <1>1, <1>2, <1>3, <1>5

\* A refund starts from a settled payment, is alone as long as overlapped says
\* so, writes its target where it has read it may, and debits at its end.
RefundMove(r) ==
  /\ \A q \in Requests \ {r} : rpc'[q] = rpc[q] /\ seen'[q] = seen[q] /\ wanted'[q] = wanted[q]
  /\ \/ payment'[Paid] = payment[Paid]
     \/ rpc[r] = "writePayment" /\ payment'[Paid] = Refund!Target(r)
  /\ \/ order'[Paid] = order[Paid]
     \/ rpc[r] = "writeOrder" /\ order'[Paid] = "CANCELLED"
  /\ Refund!InProgress(r)' /\ ~Refund!InProgress(r) =>
       /\ payment[Paid] \in {"SUCCESS", "PARTIALLY_REFUNDED"}
       /\ ~overlapped' => \A q \in Requests : ~Refund!InProgress(q)
  /\ rpc'[r] = "writePayment" =>
       /\ rpc[r] = "writePayment" \/ CanTransition(payment[Paid], Refund!Target(r))
       /\ payment'[Paid] = payment[Paid] /\ seen'[r] = seen[r] /\ wanted'[r] = wanted[r]
  /\ debited' = debited \/ Refund!InProgress(r)
  /\ overlapped => overlapped'

LEMMA RefundMoves ==
  ASSUME Refund!TypeOK, NEW r \in Requests, RefundAction(r)
  PROVE  RefundMove(r)
<1> USE PaidAssumption DEF RefundMove, Refund!TypeOK, Refund!Goto, Refund!InProgress,
        Refund!stateVars, Refund!requestVars, Refund!stripeVars, Refund!rowVars
<1>1. CASE Refund!ReadPayment(r)
  BY <1>1 DEF Refund!ReadPayment
<1>2. CASE Refund!ReadTotal(r) \/ Refund!CreateRefund(r)
  BY <1>2 DEF Refund!ReadTotal, Refund!CreateRefund
<1>3. CASE Refund!SaveRefund(r) \/ Refund!NumberCollision(r)
  BY <1>3 DEF Refund!SaveRefund, Refund!NumberCollision
<1>4. CASE Refund!ReadStatus(r)
  <2>1. Refund!CanTransition(payment[Paid], Refund!Target(r)) <=> CanTransition(payment[Paid], Refund!Target(r))
    BY DEF Refund!CanTransition, CanTransition, Refund!ALLOWED_TRANSITIONS, ALLOWED_TRANSITIONS,
       Refund!PaymentStatus, PaymentStatus
  <2> QED
    BY <1>4, <2>1 DEF Refund!ReadStatus
<1>5. CASE Refund!WritePayment(r)
  BY <1>5 DEF Refund!WritePayment
<1>6. CASE Refund!WriteOrder(r)
  <2>1. order'[Paid] \in {order[Paid], "CANCELLED"}
    BY <1>6 DEF Refund!WriteOrder, Refund!SyncedOrder, Refund!Target
  <2> QED
    BY <1>6, <2>1 DEF Refund!WriteOrder
<1>7. CASE Refund!RecordRefundDebit(r)
  BY <1>7 DEF Refund!RecordRefundDebit
<1>8. CASE Refund!Fail(r) \/ Refund!Decide(r)
  BY <1>8 DEF Refund!Fail, Refund!Decide
<1> QED
  BY <1>1, <1>2, <1>3, <1>4, <1>5, <1>6, <1>7, <1>8 DEF RefundAction, Refund!Step

\* What a step of the webhook path can do to the payment and its order.
WebhookMove ==
  /\ \/ payment'[Paid] = payment[Paid]
     \/ payment[Paid] = "ABSENT" /\ payment'[Paid] = "PENDING"
     \/ \E p \in RunsOfPaid : pc[p] = "writePayment" /\ payment'[Paid] = Target(ev[p])
  /\ \/ order'[Paid] = order[Paid]
     \/ payment[Paid] = "ABSENT" /\ order'[Paid] = "PENDING"
     \/ \E p \in RunsOfPaid : pc[p] = "writeOrder" /\ order'[Paid] \in {"PAID", "FAILED"}

LEMMA WebhookMoves ==
  ASSUME TypeOK, [Next]_vars
  PROVE  WebhookMove
<1> USE ConstantsAssumption, PaidAssumption DEF WebhookMove, TypeOK
<1>1. CASE UNCHANGED paymentVars
  BY <1>1 DEF paymentVars
<1>2. ASSUME NEW x \in Payments, CreatePaymentRow(x)
      PROVE  WebhookMove
  BY <1>2 DEF CreatePaymentRow
<1>3. ASSUME NEW p \in Procs, WritePayment(p) \/ WriteOrder(p)
      PROVE  WebhookMove
  <2>1. pc[p] # "idle" /\ ev[p] \in Events
    BY <1>3 DEF WritePayment, WriteOrder, At
  <2>2. CASE PaymentOf[ev[p]] = Paid
    BY <1>3, <2>1, <2>2 DEF WritePayment, WriteOrder, At, RunsOfPaid, SyncedOrder, Target
  <2>3. CASE PaymentOf[ev[p]] # Paid
    BY <1>3, <2>1, <2>3 DEF WritePayment, WriteOrder
  <2> QED
    BY <2>2, <2>3
<1>4. ASSUME NEW h \in Handlers,
             (\E e \in Events : Deliver(h, e)) \/ HandlerStep(h) \/ HandlerFault(h) \/ HandlerCrash(h)
      PROVE  UNCHANGED paymentVars
  BY <1>4 DEF Deliver, HandlerStep, FindEvent, CreateEvent, Enqueue, HandlerFault, HandlerCrash
<1>5. ASSUME NEW e \in Events,
             Evict(e) \/ \E p \in Procs : StartJob(p, e) \/ ReprocessWebhook(p, e)
      PROVE  UNCHANGED paymentVars
  BY <1>5 DEF Evict, StartJob, ReprocessWebhook
<1>6. ASSUME NEW p \in Procs, RunStep(p) \/ DbFault(p) \/ Crash(p), ~WritePayment(p), ~WriteOrder(p)
      PROVE  UNCHANGED paymentVars
  BY <1>6 DEF RunStep, LoadRecord, MarkProcessing, FindPayment, ReadPayment, FindEntry, CreateEntry,
     AddInvoiceJob, AddNotificationJob, MarkProcessed, RecordFailure, Return, Throw, DbFault, Crash
<1>7. CASE UNCHANGED vars
  BY <1>1, <1>7 DEF vars, paymentVars
<1> QED
  BY <1>1, <1>2, <1>3, <1>4, <1>5, <1>6, <1>7 DEF Next, Procs

----------------------------------------------------------------------------
(* What holds of either side still holds of both: the types, the money of  *)
(* the webhook path, and that nothing is refunded before it was paid.      *)

NoRefundBefore ==
  payment[Paid] \in {"ABSENT", "PENDING"} => debited = {} /\ ~Refunding

BaseInv == TypeOK /\ Refund!TypeOK /\ NoRefundBefore /\ MoneyInv /\ KnownInv

LEMMA BaseWebhookStep ==
  ASSUME BaseInv, [Next]_vars, UNCHANGED refundVars
  PROVE  BaseInv'
<1>1. TypeOK' /\ MoneyInv' /\ KnownInv'
  BY TypeStep, MoneyStep, KnownStep DEF BaseInv
<1>2. Refund!TypeOK'
  <2>1. payment'[Paid] \in PaymentStatus /\ order'[Paid] \in OrderStatus
    BY <1>1, PaidAssumption DEF TypeOK
  <2> QED
    BY <2>1 DEF BaseInv, Refund!TypeOK, refundVars, PaymentStatus, OrderStatus, Refund!PaymentStatus,
       Refund!OrderStatus
<1>3. NoRefundBefore'
  <2>1. WebhookMove
    BY WebhookMoves DEF BaseInv
  <2>2. payment'[Paid] \in {"ABSENT", "PENDING"} => payment[Paid] \in {"ABSENT", "PENDING"}
    BY <2>1 DEF WebhookMove, Target
  <2> QED
    BY <2>2 DEF BaseInv, NoRefundBefore, Refunding, Refund!InProgress, refundVars
<1> QED
  BY <1>1, <1>2, <1>3 DEF BaseInv

LEMMA BaseRefundStep ==
  ASSUME BaseInv, RefundStep
  PROVE  BaseInv'
<1>1. PICK r \in Requests : RefundAction(r)
  BY RefundHasActor
<1>2. RefundMove(r) /\ Refund!TypeOK'
  BY <1>1, RefundMoves, RefundTypes DEF BaseInv
<1>3. /\ TypeOK'
      /\ UNCHANGED <<eventVars, credits, downVars, jobVars, ingestVars, pc, runVars, bounds, dismissed>>
      /\ \A x \in Payments \ {Paid} : payment'[x] = payment[x] /\ order'[x] = order[x]
  BY RefundFrame DEF BaseInv
<1>4. payment'[Paid] = payment[Paid] \/ payment'[Paid] \in {"PARTIALLY_REFUNDED", "REFUNDED"}
  BY <1>2 DEF RefundMove, Refund!Target
<1>5. order'[Paid] = order[Paid] \/ payment[Paid] \notin {"ABSENT", "PENDING"}
  BY <1>2 DEF RefundMove, BaseInv, NoRefundBefore, Refunding, Refund!InProgress
<1>6. NoRefundBefore'
  <2> SUFFICES ASSUME payment'[Paid] \in {"ABSENT", "PENDING"}
               PROVE  debited' = {} /\ ~Refunding'
    BY DEF NoRefundBefore
  <2>1. payment[Paid] \in {"ABSENT", "PENDING"} /\ debited = {} /\ \A q \in Requests : ~Refund!InProgress(q)
    BY <1>4 DEF BaseInv, NoRefundBefore, Refunding
  <2>2. debited' = {} /\ ~Refund!InProgress(r)'
    BY <1>2, <2>1 DEF RefundMove
  <2>3. \A q \in Requests : ~Refund!InProgress(q)'
    BY <1>2, <2>1, <2>2 DEF RefundMove, Refund!InProgress
  <2> QED
    BY <2>2, <2>3 DEF Refunding
<1>7. KnownInv'
  BY <1>3 DEF BaseInv, KnownInv, eventVars, jobVars, ingestVars, runVars
<1>8. MoneyInv'
  <2>1. \A x \in Payments : payment[x] \notin {"ABSENT", "PENDING"} => payment'[x] \notin {"ABSENT", "PENDING"}
    BY <1>3, <1>4
  <2>2. StageInv'
    BY <1>3, <2>1, ConstantsAssumption DEF BaseInv, TypeOK, MoneyInv, StageInv, runVars
  <2>3. CreditsFollowTransition'
    BY <1>3, <1>5, <2>1, ConstantsAssumption DEF BaseInv, TypeOK, MoneyInv, CreditsFollowTransition
  <2> QED
    BY <1>3, <2>2, <2>3 DEF BaseInv, MoneyInv, CreditAtMostOnce, ProcessedHasEffect, DownstreamFollowsCredit,
       eventVars, downVars
<1> QED
  BY <1>2, <1>3, <1>6, <1>7, <1>8 DEF BaseInv

LEMMA BaseStep ==
  ASSUME BaseInv, [JointNext]_jointVars
  PROVE  BaseInv'
<1>1. CASE WebhookStep
  BY <1>1, BaseWebhookStep DEF WebhookStep
<1>2. CASE RefundStep
  BY <1>2, BaseRefundStep
<1>3. CASE UNCHANGED jointVars
  BY <1>3, BaseWebhookStep DEF jointVars
<1> QED
  BY <1>1, <1>2, <1>3 DEF JointNext

LEMMA BaseInit == JointInit => BaseInv
<1> SUFFICES ASSUME JointInit
             PROVE  BaseInv
  OBVIOUS
<1>1. TypeOK /\ MoneyInv /\ KnownInv
  BY TypeInit, MoneyInit DEF JointInit, Init, KnownInv
<1>2. payment[Paid] = "ABSENT" /\ order[Paid] = "ABSENT"
  BY PaidAssumption DEF JointInit, Init
<1>3. 0 \in 0..Amount /\ 0 \in 0..10 * Amount /\ 0 \in 0..MaxRetries /\ MaxRetries # 0
  BY AmountsAssumption, PaidAssumption
<1>4. Refund!TypeOK
  BY <1>2, <1>3 DEF JointInit, Refund!NothingRefunded, Refund!TypeOK, Refund!PaymentStatus, Refund!OrderStatus,
     Refund!Stage, Refund!RefundStatus
<1>5. NoRefundBefore
  BY DEF JointInit, Refund!NothingRefunded, NoRefundBefore, Refunding, Refund!InProgress
<1> QED
  BY <1>1, <1>4, <1>5 DEF BaseInv

LEMMA BaseInvariant == JointSpec => []BaseInv
<1>1. BaseInv /\ [JointNext]_jointVars => BaseInv'
  BY BaseStep
<1> QED
  BY <1>1, BaseInit, PTL DEF JointSpec

\* However refunds interleave with them, runs credit only payments that were
\* settled, and send invoices and receipts only for what they credited.
THEOREM EffectsAreOrderedDespiteRefunds == JointSpec => []EffectsFollowTransition
<1>1. BaseInv => EffectsFollowTransition
  BY DEF BaseInv, MoneyInv, EffectsFollowTransition
<1> QED
  BY <1>1, BaseInvariant, PTL

\* The webhook path keeps its whole promise next to refunds: a step of a refund
\* is a stutter of SettlementOnce, and a step of a run is what it was without.
THEOREM SettlementSurvivesRefunds == JointSpec => ImplementsSettlementOnce
<1>1. JointInit => Settlement!AInit
  BY DEF JointInit, Init, Settlement!AInit
<1>2. BaseInv /\ [JointNext]_jointVars => [Settlement!ANext]_(Settlement!avars)
  <2> SUFFICES ASSUME BaseInv, [JointNext]_jointVars
               PROVE  [Settlement!ANext]_(Settlement!avars)
    OBVIOUS
  <2>1. CASE WebhookStep \/ UNCHANGED jointVars
    BY <2>1, StepRefines DEF BaseInv, WebhookStep, jointVars
  <2>2. CASE RefundStep
    BY <2>2, Stutters DEF RefundStep, eventVars
  <2> QED
    BY <2>1, <2>2 DEF JointNext
<1> QED
  BY <1>1, <1>2, BaseInvariant, PTL DEF JointSpec, ImplementsSettlementOnce, Settlement!ASpec

----------------------------------------------------------------------------
(* The rows of the refunds and what they add up to.  The total a refund    *)
(* has read can only have grown, and is exact while refunds are in turn.   *)

Booking == {"transition", "writePayment", "writeOrder", "debit"}

RowInv ==
  /\ \A r \in Requests :
       /\ rpc[r] \in {"new", "total", "refund", "save"} => rowStatus[r] = "NONE"
       /\ rpc[r] \in Booking => rowStatus[r] = "SUCCEEDED"
  /\ \A r \in debited : rowStatus[r] = "SUCCEEDED"

SeenInv ==
  \A r \in Requests :
    /\ rpc[r] \in {"refund", "save"} => seen[r] <= Refund!TotalRefunded
    /\ rpc[r] \in Booking => seen[r] + Rounded(wanted[r]) <= Refund!TotalRefunded
    /\ rpc[r] = "writeOrder" => Refund!TotalRefunded >= Amount

InTurnInv ==
  ~overlapped =>
    /\ \A q, r \in Requests : Refund!InProgress(q) /\ Refund!InProgress(r) => q = r
    /\ Refund!TotalRefunded <= Amount
    /\ \A r \in Requests : rpc[r] \in {"refund", "save"} =>
         seen[r] = Refund!TotalRefunded /\ wanted[r] <= 10 * (Amount - seen[r])

TotalsInv == RowInv /\ SeenInv /\ Refund!RefundedIsEarned /\ InTurnInv

LEMMA RowStep ==
  ASSUME Refund!TypeOK, RowInv, NEW r \in Requests, RefundAction(r)
  PROVE  RowInv'
<1> USE AmountsAssumption, PaidAssumption DEF Refund!TypeOK, RowInv, Booking, Refund!Goto,
        Refund!stateVars, Refund!requestVars, Refund!stripeVars, Refund!rowVars
<1>1. CASE Refund!ReadPayment(r)
  BY <1>1 DEF Refund!ReadPayment
<1>2. CASE Refund!ReadTotal(r) \/ Refund!CreateRefund(r)
  BY <1>2 DEF Refund!ReadTotal, Refund!CreateRefund
<1>3. CASE Refund!SaveRefund(r)
  BY <1>3 DEF Refund!SaveRefund
<1>4. CASE Refund!NumberCollision(r)
  BY <1>4 DEF Refund!NumberCollision
<1>5. CASE Refund!ReadStatus(r)
  BY <1>5 DEF Refund!ReadStatus
<1>6. CASE Refund!WritePayment(r) \/ Refund!WriteOrder(r)
  BY <1>6 DEF Refund!WritePayment, Refund!WriteOrder
<1>7. CASE Refund!RecordRefundDebit(r)
  BY <1>7 DEF Refund!RecordRefundDebit
<1>8. CASE Refund!Fail(r) \/ Refund!Decide(r)
  BY <1>8 DEF Refund!Fail, Refund!Decide
<1> QED
  BY <1>1, <1>2, <1>3, <1>4, <1>5, <1>6, <1>7, <1>8 DEF RefundAction, Refund!Step

\* Only the save of a SUCCEEDED refund adds to the total, and it adds its amount.
LEMMA TotalStep ==
  ASSUME Refund!TypeOK, RowInv, NEW r \in Requests, RefundAction(r)
  PROVE  /\ Refund!TotalRefunded \in Nat
         /\ IF Refund!SaveRefund(r) /\ answer[r] = "SUCCEEDED"
              THEN Refund!TotalRefunded' = Refund!TotalRefunded + Rounded(wanted[r])
              ELSE Refund!TotalRefunded' = Refund!TotalRefunded
<1>1. Refund!Counted \in Amounts /\ Refund!TotalRefunded \in Nat /\ Refund!TotalRefunded = Sum(Refund!Counted)
  BY TotalIsNat
<1>2. Refund!TotalRefunded' = Sum(Refund!Counted')
  <2>1. Refund!TotalRefunded' = Refund!Sum(Refund!Counted')
    BY DEF Refund!TotalRefunded, Refund!Sum, Refund!Units
  <2> QED
    BY <2>1, SumIsSum
<1>3. CASE Refund!SaveRefund(r) /\ answer[r] = "SUCCEEDED"
  <2>1. Refund!Counted[r] = 0 /\ Rounded(wanted[r]) \in 0..Amount
    BY <1>3, CentsType DEF Refund!SaveRefund, RowInv, Refund!Counted, Refund!TypeOK
  <2>2. Refund!Counted' = [Refund!Counted EXCEPT ![r] = Rounded(wanted[r])]
    BY <1>3, RoundedIsRounded DEF Refund!SaveRefund, Refund!Counted, Refund!TypeOK
  <2>3. Sum([Refund!Counted EXCEPT ![r] = Rounded(wanted[r])]) = Sum(Refund!Counted) + Rounded(wanted[r])
    BY <1>1, <2>1, SumAdds
  <2> QED
    BY <1>1, <1>2, <1>3, <2>2, <2>3
<1>4. CASE ~(Refund!SaveRefund(r) /\ answer[r] = "SUCCEEDED")
  <2>1. Refund!Counted' = Refund!Counted
    <3>1. CASE Refund!SaveRefund(r)
      BY <1>4, <3>1 DEF Refund!SaveRefund, Refund!Counted, Refund!TypeOK, RowInv
    <3>2. CASE ~Refund!SaveRefund(r)
      <4>1. UNCHANGED Refund!rowVars
        BY <3>2 DEF RefundAction, Refund!Step, Refund!ReadPayment, Refund!ReadTotal, Refund!CreateRefund,
           Refund!NumberCollision, Refund!ReadStatus, Refund!WritePayment, Refund!WriteOrder,
           Refund!RecordRefundDebit, Refund!Fail, Refund!Decide
      <4> QED
        BY <4>1 DEF Refund!rowVars, Refund!Counted
    <3> QED
      BY <3>1, <3>2
  <2> QED
    BY <1>1, <1>2, <1>4, <2>1
<1> QED
  BY <1>3, <1>4

LEMMA TotalsRefundStep ==
  ASSUME Refund!TypeOK, TotalsInv, NEW r \in Requests, RefundAction(r)
  PROVE  TotalsInv'
<1> DEFINE T == Refund!TotalRefunded
<1>0. RowInv' /\ RefundMove(r)
  BY RowStep, RefundMoves DEF TotalsInv
<1>t. /\ T \in Nat
      /\ IF Refund!SaveRefund(r) /\ answer[r] = "SUCCEEDED" THEN T' = T + Rounded(wanted[r]) ELSE T' = T
  BY TotalStep DEF TotalsInv
<1>w. \A q \in Requests : Rounded(wanted[q]) \in 0..Amount
  BY CentsType
<1>g. T' \in Nat /\ T' >= T
  BY <1>t, <1>w, AmountsAssumption
<1>s. RowInv /\ SeenInv /\ Refund!RefundedIsEarned /\ InTurnInv
  BY DEF TotalsInv
<1>a. \A q, p \in Requests : ~overlapped' /\ Refund!InProgress(q)' /\ Refund!InProgress(p)' => q = p
  BY <1>0, <1>s DEF RefundMove, InTurnInv, Refund!InProgress
<1> SUFFICES /\ SeenInv' /\ Refund!RefundedIsEarned'
             /\ ~overlapped' => /\ T' <= Amount
                                /\ \A q \in Requests : rpc'[q] \in {"refund", "save"} =>
                                     seen'[q] = T' /\ wanted'[q] <= 10 * (Amount - seen'[q])
  BY <1>0, <1>a DEF TotalsInv, InTurnInv
<1>i. ~overlapped' => /\ ~overlapped /\ T <= Amount
                      /\ \A q \in Requests : rpc[q] \in {"refund", "save"} =>
                           seen[q] = T /\ wanted[q] <= 10 * (Amount - seen[q])
  BY <1>0, <1>s DEF RefundMove, InTurnInv
<1> HIDE DEF T
<1>e. SeenInv /\ (payment[Paid] = "REFUNDED" \/ order[Paid] = "CANCELLED" => T >= Amount)
  BY <1>s DEF Refund!RefundedIsEarned, T
<1> SUFFICES /\ \A q \in Requests :
                  /\ rpc'[q] \in {"refund", "save"} => seen'[q] <= T'
                  /\ rpc'[q] \in Booking => seen'[q] + Rounded(wanted'[q]) <= T'
                  /\ rpc'[q] = "writeOrder" => T' >= Amount
             /\ payment'[Paid] = "REFUNDED" \/ order'[Paid] = "CANCELLED" => T' >= Amount
             /\ ~overlapped' => /\ T' <= Amount
                                /\ \A q \in Requests : rpc'[q] \in {"refund", "save"} =>
                                     seen'[q] = T' /\ wanted'[q] <= 10 * (Amount - seen'[q])
  BY DEF SeenInv, Refund!RefundedIsEarned, T
<1>q. \A q \in Requests :
        /\ rpc[q] \in {"refund", "save"} => seen[q] <= T
        /\ rpc[q] \in Booking => seen[q] + Rounded(wanted[q]) <= T
        /\ rpc[q] = "writeOrder" => T >= Amount
  BY <1>e DEF SeenInv, T
<1> USE AmountsAssumption, PaidAssumption DEF Booking, Refund!TypeOK, Refund!Goto,
        Refund!stateVars, Refund!requestVars, Refund!stripeVars, Refund!rowVars
<1>1. CASE Refund!ReadPayment(r)
  <2>1. T' = T /\ rpc'[r] \in {"total", "done"} /\ UNCHANGED <<payment[Paid], order[Paid], seen, wanted>>
    BY <1>1, <1>t DEF Refund!ReadPayment, Refund!SaveRefund
  <2> QED
    BY <1>0, <1>e, <1>w, <1>q, <1>i, <2>1 DEF RefundMove
<1>2. CASE Refund!ReadTotal(r)
  <2>1. T' = T /\ UNCHANGED <<payment[Paid], order[Paid]>>
    BY <1>2, <1>t DEF Refund!ReadTotal, Refund!SaveRefund
  <2>2. \/ rpc' = [rpc EXCEPT ![r] = "done"] /\ UNCHANGED <<seen, wanted>>
        \/ \E a \in Int : /\ a <= 10 * (Amount - T)
                          /\ rpc' = [rpc EXCEPT ![r] = "refund"]
                          /\ seen' = [seen EXCEPT ![r] = T]
                          /\ wanted' = [wanted EXCEPT ![r] = a]
    BY <1>2, <1>t DEF Refund!ReadTotal, T
  <2> QED
    BY <1>t, <1>w, <1>e, <1>q, <1>i, <2>1, <2>2
<1>3. CASE Refund!CreateRefund(r)
  <2>1. T' = T /\ rpc[r] = "refund" /\ UNCHANGED <<payment[Paid], order[Paid], seen, wanted>>
    BY <1>3, <1>t DEF Refund!CreateRefund, Refund!SaveRefund
  <2>2. rpc' \in {[rpc EXCEPT ![r] = "save"], [rpc EXCEPT ![r] = "done"]}
    BY <1>3 DEF Refund!CreateRefund
  <2> QED
    BY <1>e, <1>w, <1>q, <1>i, <2>1, <2>2
<1>4. CASE Refund!SaveRefund(r)
  <2>1. /\ rpc[r] = "save" /\ UNCHANGED <<payment[Paid], order[Paid], seen, wanted>>
        /\ rpc' = [rpc EXCEPT ![r] = IF answer[r] = "SUCCEEDED" THEN "transition" ELSE "done"]
    BY <1>4 DEF Refund!SaveRefund
  <2>2. \A q \in Requests \ {r} : ~overlapped' => rpc[q] \notin {"refund", "save"}
    BY <1>s, <1>i, <2>1 DEF InTurnInv, Refund!InProgress
  <2>3. ~overlapped' => Rounded(wanted[r]) <= Amount - T
    <3>1. ~overlapped' => wanted[r] \in Nat /\ wanted[r] <= 10 * (Amount - T) /\ Amount - T \in Nat
      BY <1>t, <1>i, <2>1
    <3> QED
      BY <3>1, RoundedBounds
  <2> QED
    BY <1>t, <1>g, <1>w, <1>e, <1>q, <1>i, <1>4, <2>1, <2>2, <2>3
<1>5. CASE Refund!NumberCollision(r)
  <2>1. T' = T /\ rpc[r] = "save" /\ UNCHANGED <<payment[Paid], order[Paid], seen, wanted>>
    BY <1>5, <1>t DEF Refund!NumberCollision, Refund!SaveRefund
  <2>2. rpc' \in {[rpc EXCEPT ![r] = "save"], [rpc EXCEPT ![r] = "done"]}
    BY <1>5 DEF Refund!NumberCollision
  <2> QED
    BY <1>e, <1>w, <1>q, <1>i, <2>1, <2>2
<1>6. CASE Refund!ReadStatus(r)
  <2>1. T' = T /\ UNCHANGED <<payment[Paid], order[Paid], seen, wanted>> /\ rpc[r] = "transition"
        /\ rpc' \in {[rpc EXCEPT ![r] = p] : p \in {"debit", "writePayment", "done"}}
    BY <1>6, <1>t DEF Refund!ReadStatus, Refund!SaveRefund
  <2> QED
    BY <1>e, <1>w, <1>q, <1>i, <2>1
<1>7. CASE Refund!WritePayment(r)
  <2>1. /\ T' = T /\ UNCHANGED <<order[Paid], seen, wanted>> /\ rpc[r] = "writePayment"
        /\ payment'[Paid] = Refund!Target(r)
        /\ rpc' = [rpc EXCEPT ![r] = IF Refund!Target(r) = "REFUNDED" THEN "writeOrder" ELSE "debit"]
    BY <1>7, <1>t DEF Refund!WritePayment, Refund!SaveRefund
  <2>2. Refund!Target(r) = "REFUNDED" => T >= Amount
    <3>1. seen[r] \in 0..Amount /\ wanted[r] \in Nat /\ Amount - seen[r] \in Nat
      OBVIOUS
    <3>2. Refund!IsFull(r) => seen[r] + Rounded(wanted[r]) >= Amount
      BY <1>w, <3>1, RoundedBounds DEF Refund!IsFull
    <3> QED
      BY <1>t, <1>q, <1>w, <2>1, <3>1, <3>2 DEF Refund!Target
  <2> QED
    BY <1>e, <1>w, <1>q, <1>i, <2>1, <2>2
<1>8. CASE Refund!WriteOrder(r) \/ Refund!RecordRefundDebit(r)
  <2>1. /\ T' = T /\ UNCHANGED <<payment[Paid], seen, wanted>> /\ rpc[r] \in {"writeOrder", "debit"}
        /\ rpc' \in {[rpc EXCEPT ![r] = "debit"], [rpc EXCEPT ![r] = "done"]}
    BY <1>8, <1>t DEF Refund!WriteOrder, Refund!RecordRefundDebit, Refund!SaveRefund
  <2>2. order'[Paid] = order[Paid] \/ rpc[r] = "writeOrder"
    BY <1>0 DEF RefundMove
  <2> QED
    BY <1>e, <1>w, <1>q, <1>i, <2>1, <2>2
<1>9. CASE Refund!Fail(r) \/ Refund!Decide(r)
  <2>1. /\ T' = T /\ UNCHANGED <<payment[Paid], order[Paid], seen, wanted>>
        /\ rpc' \in {rpc, [rpc EXCEPT ![r] = "done"]}
    BY <1>9, <1>t DEF Refund!Fail, Refund!Decide, Refund!SaveRefund
  <2> QED
    BY <1>e, <1>w, <1>q, <1>i, <2>1
<1> QED
  BY <1>1, <1>2, <1>3, <1>4, <1>5, <1>6, <1>7, <1>8, <1>9 DEF RefundAction, Refund!Step

LEMMA TotalsStep ==
  ASSUME BaseInv, TotalsInv, [JointNext]_jointVars
  PROVE  TotalsInv'
<1>1. CASE RefundStep
  BY <1>1, RefundHasActor, TotalsRefundStep DEF BaseInv
<1>2. CASE WebhookStep \/ UNCHANGED jointVars
  <2>1. UNCHANGED refundVars /\ [Next]_vars
    BY <1>2 DEF WebhookStep, jointVars
  <2>2. Refund!TotalRefunded' = Refund!TotalRefunded
    BY <2>1 DEF refundVars, Refund!TotalRefunded, Refund!Counted, Refund!Sum, Refund!Units
  <2>3. /\ payment'[Paid] = "REFUNDED" => payment[Paid] = "REFUNDED"
        /\ order'[Paid] = "CANCELLED" => order[Paid] = "CANCELLED"
    BY <2>1, WebhookMoves DEF BaseInv, WebhookMove, Target
  <2>4. Refund!RefundedIsEarned'
    BY <2>2, <2>3 DEF TotalsInv, Refund!RefundedIsEarned
  <2> QED
    BY <2>1, <2>2, <2>4 DEF TotalsInv, refundVars, RowInv, SeenInv, InTurnInv, Refund!InProgress
<1> QED
  BY <1>1, <1>2 DEF JointNext

LEMMA TotalsInvariant == JointSpec => []TotalsInv
<1>1. JointInit => TotalsInv
  <2> SUFFICES ASSUME JointInit
               PROVE  TotalsInv
    OBVIOUS
  <2>1. Refund!TypeOK /\ Refund!Counted = [r \in Requests |-> 0]
    BY BaseInit DEF BaseInv, JointInit, Refund!NothingRefunded, Refund!Counted
  <2>2. Refund!TotalRefunded = 0
    BY <2>1, TotalIsNat, SumZero
  <2>3. payment[Paid] = "ABSENT" /\ order[Paid] = "ABSENT"
    BY PaidAssumption DEF JointInit, Init
  <2>4. \A r \in Requests : rpc[r] = "new" /\ rowStatus[r] = "NONE" /\ r \notin debited
    BY DEF JointInit, Refund!NothingRefunded
  <2> QED
    BY <2>2, <2>3, <2>4, AmountsAssumption DEF JointInit, Refund!NothingRefunded, TotalsInv, RowInv, SeenInv,
       Booking, Refund!RefundedIsEarned, InTurnInv, Refund!InProgress
<1>2. BaseInv /\ TotalsInv /\ [JointNext]_jointVars => TotalsInv'
  BY TotalsStep
<1> QED
  BY <1>1, <1>2, BaseInvariant, PTL DEF JointSpec

----------------------------------------------------------------------------
(* Nothing is undone.  What a run or a refund has read of the payment is   *)
(* still so when it writes, as long as its own kind comes one at a time.   *)

HistoryInv ==
  /\ ~runsOverlapped => \A p, q \in RunsOfPaid : p = q
  /\ ~mixed => RunsOfPaid = {} \/ ~Refunding

LEMMA HistoryStep ==
  ASSUME HistoryInv, [JointNext]_jointVars
  PROVE  /\ HistoryInv'
         /\ runsOverlapped => runsOverlapped'
         /\ mixed => mixed'
<1>1. CASE History
  BY <1>1 DEF History, HistoryInv
<1>2. CASE UNCHANGED jointVars
  BY <1>2 DEF jointVars, vars, refundVars, HistoryInv, RunsOfPaid, Refunding, Refund!InProgress
<1> QED
  BY <1>1, <1>2 DEF JointNext, WebhookStep, RefundStep

TransitionInv ==
  ~runsOverlapped =>
    /\ \A p \in RunsOfPaid :
         /\ pc[p] = "writePayment" => payment[Paid] = "PENDING"
         /\ pc[p] = "writeOrder" /\ ~mixed => order[Paid] # "CANCELLED"
    /\ ~overlapped => \A r \in Requests :
         rpc[r] = "writePayment" => CanTransition(payment[Paid], Refund!Target(r))

\* A step of a run touches its own place, its own event and its own payment.
RunFrame(p) ==
  /\ pc[p] # "idle" /\ ev[p] \in Events
  /\ \A q \in Procs \ {p} : pc'[q] = pc[q] /\ ev'[q] = ev[q]
  /\ pc'[p] = "idle" \/ ev'[p] = ev[p]
  /\ \A e \in Events \ {ev[p]} : status'[e] = status[e] /\ credits'[e] = credits[e]
  /\ \A x \in Payments \ {PaymentOf[ev[p]]} : payment'[x] = payment[x] /\ order'[x] = order[x]
  /\ faults' + crashes' = 0 => faults + crashes = 0

LEMMA RunFrames ==
  ASSUME TypeOK, NEW p \in Procs, RunStep(p) \/ DbFault(p) \/ Crash(p)
  PROVE  RunFrame(p)
<1> USE ConstantsAssumption DEF TypeOK, RunFrame, At, Goto, EndRun, eventVars, paymentVars, runVars, bounds
<1>1. CASE LoadRecord(p) \/ MarkProcessing(p) \/ FindPayment(p) \/ ReadPayment(p)
  BY <1>1 DEF LoadRecord, MarkProcessing, FindPayment, ReadPayment
<1>2. CASE WritePayment(p) \/ WriteOrder(p)
  BY <1>2 DEF WritePayment, WriteOrder
<1>3. CASE FindEntry(p) \/ CreateEntry(p) \/ AddInvoiceJob(p) \/ AddNotificationJob(p)
  BY <1>3 DEF FindEntry, CreateEntry, AddInvoiceJob, AddNotificationJob
<1>4. CASE MarkProcessed(p) \/ RecordFailure(p)
  BY <1>4 DEF MarkProcessed, RecordFailure
<1>5. CASE Return(p) \/ Throw(p)
  BY <1>5 DEF Return, Throw
<1>6. CASE DbFault(p) \/ Crash(p)
  BY <1>6 DEF DbFault, Crash
<1> QED
  BY <1>1, <1>2, <1>3, <1>4, <1>5, <1>6 DEF RunStep

\* Whoever else moves leaves the runs of the payment where they are, and of the
\* payment and its events only creates the rows.
OthersMove ==
  /\ RunsOfPaid \subseteq RunsOfPaid'
  /\ \A p \in RunsOfPaid : pc'[p] = pc[p] /\ ev'[p] = ev[p]
  /\ \A p \in RunsOfPaid' \ RunsOfPaid : pc'[p] = "load"
  /\ \/ payment'[Paid] = payment[Paid]
     \/ payment[Paid] = "ABSENT" /\ payment'[Paid] = "PENDING"
  /\ order'[Paid] = order[Paid] \/ order'[Paid] = "PENDING"
  /\ \A e \in Events : PaymentOf[e] = Paid =>
       credits'[e] = credits[e] /\ (status'[e] = status[e] \/ status[e] = "NONE")
  /\ faults' + crashes' = 0 => faults + crashes = 0

LEMMA OthersMoves ==
  ASSUME TypeOK, [Next]_vars
  PROVE  OthersMove \/ \E p \in RunsOfPaid : RunStep(p) \/ DbFault(p) \/ Crash(p)
<1> USE ConstantsAssumption, PaidAssumption DEF TypeOK
<1>1. CASE UNCHANGED vars
  BY <1>1 DEF OthersMove, RunsOfPaid, vars
<1>2. ASSUME NEW x \in Payments, CreatePaymentRow(x)
      PROVE  OthersMove
  BY <1>2 DEF CreatePaymentRow, OthersMove, RunsOfPaid, eventVars, runVars, bounds
<1>3. ASSUME NEW h \in Handlers,
             (\E e \in Events : Deliver(h, e)) \/ HandlerStep(h) \/ HandlerFault(h) \/ HandlerCrash(h)
      PROVE  OthersMove
  BY <1>3 DEF Deliver, HandlerStep, FindEvent, CreateEvent, Enqueue, HandlerFault, HandlerCrash, OthersMove,
     RunsOfPaid, eventVars, paymentVars, runVars, bounds
<1>4. ASSUME NEW p \in Procs, NEW e \in Events, StartJob(p, e) \/ ReprocessWebhook(p, e)
      PROVE  OthersMove
  BY <1>4 DEF StartJob, ReprocessWebhook, OthersMove, RunsOfPaid, eventVars, paymentVars, bounds
<1>5. ASSUME NEW e \in Events, Evict(e)
      PROVE  OthersMove
  BY <1>5 DEF Evict, OthersMove, RunsOfPaid, eventVars, paymentVars, runVars, bounds
<1>6. ASSUME NEW p \in Procs \ RunsOfPaid, RunStep(p) \/ DbFault(p) \/ Crash(p)
      PROVE  OthersMove
  <2>1. RunFrame(p) /\ PaymentOf[ev[p]] # Paid
    BY <1>6, RunFrames DEF RunFrame, RunsOfPaid
  <2> QED
    BY <1>6, <2>1 DEF RunFrame, OthersMove, RunsOfPaid
<1> QED
  BY <1>1, <1>2, <1>3, <1>4, <1>5, <1>6 DEF Next, Procs, RunsOfPaid

LEMMA TransitionWebhookStep ==
  ASSUME BaseInv, HistoryInv, TransitionInv, [Next]_vars, UNCHANGED refundVars,
         runsOverlapped => runsOverlapped', mixed => mixed'
  PROVE  TransitionInv'
<1> SUFFICES ASSUME ~runsOverlapped'
             PROVE  /\ \A p \in RunsOfPaid' :
                         /\ pc'[p] = "writePayment" => payment'[Paid] = "PENDING"
                         /\ pc'[p] = "writeOrder" /\ ~mixed' => order'[Paid] # "CANCELLED"
                    /\ ~overlapped' => \A r \in Requests :
                         rpc'[r] = "writePayment" => CanTransition(payment'[Paid], Refund!Target(r)')
  BY DEF TransitionInv, CanTransition
<1>1. /\ \A p, q \in RunsOfPaid : p = q
      /\ \A p \in RunsOfPaid : /\ pc[p] = "writePayment" => payment[Paid] = "PENDING"
                               /\ pc[p] = "writeOrder" /\ ~mixed' => order[Paid] # "CANCELLED"
      /\ ~overlapped => \A r \in Requests :
           rpc[r] = "writePayment" => CanTransition(payment[Paid], Refund!Target(r))
  BY DEF HistoryInv, TransitionInv
<1>2. ASSUME NEW r \in Requests, ~overlapped', rpc'[r] = "writePayment"
      PROVE  CanTransition(payment'[Paid], Refund!Target(r)')
  <2>1. payment[Paid] \notin {"ABSENT", "PENDING"}
    BY <1>2 DEF BaseInv, NoRefundBefore, Refunding, Refund!InProgress, refundVars
  <2>2. payment'[Paid] = payment[Paid]
    BY <1>1, <2>1, WebhookMoves DEF BaseInv, WebhookMove
  <2>3. Refund!Target(r)' = Refund!Target(r)
    BY DEF Refund!Target, Refund!IsFull, refundVars
  <2> QED
    BY <1>1, <1>2, <2>2, <2>3 DEF refundVars
<1>3. CASE OthersMove
  <2>1. payment[Paid] = "PENDING" => payment'[Paid] = "PENDING"
    BY <1>3 DEF OthersMove
  <2> QED
    BY <1>1, <1>2, <1>3, <2>1 DEF OthersMove
<1>4. ASSUME NEW p \in RunsOfPaid, RunStep(p) \/ DbFault(p) \/ Crash(p)
      PROVE  /\ pc'[p] = "writePayment" => payment'[Paid] = "PENDING"
             /\ pc'[p] = "writeOrder" /\ ~mixed' => order'[Paid] # "CANCELLED"
  <2> USE ConstantsAssumption, PaidAssumption DEF BaseInv, TypeOK, At, Goto, EndRun, paymentVars
  <2>1. p \in Procs /\ ev[p] \in Events /\ PaymentOf[ev[p]] = Paid
    BY DEF RunsOfPaid
  <2>2. CASE ReadPayment(p)
    <3>1. CanTransition(payment[Paid], Target(ev[p])) /\ payment[Paid] # Target(ev[p]) => payment[Paid] = "PENDING"
      BY DEF CanTransition, ALLOWED_TRANSITIONS, Target, PaymentStatus
    <3> QED
      BY <2>1, <2>2, <3>1 DEF ReadPayment, AfterTransition
  <2>3. CASE WritePayment(p)
    <3>1. payment[Paid] = "PENDING" /\ order'[Paid] = order[Paid]
      BY <1>1, <2>1, <2>3 DEF WritePayment
    <3>2. order[Paid] # "CANCELLED"
      BY <3>1 DEF MoneyInv, CreditsFollowTransition
    <3> QED
      BY <2>1, <2>3, <3>1, <3>2 DEF WritePayment
  <2>4. CASE RunStep(p) /\ ~ReadPayment(p) /\ ~WritePayment(p)
    BY <2>1, <2>4 DEF RunStep, LoadRecord, MarkProcessing, FindPayment, WriteOrder, FindEntry, CreateEntry,
       AddInvoiceJob, AddNotificationJob, MarkProcessed, RecordFailure, Return, Throw, AfterTransition
  <2>5. CASE DbFault(p) \/ Crash(p)
    BY <2>1, <2>5 DEF DbFault, Crash
  <2> QED
    BY <1>4, <2>2, <2>3, <2>4, <2>5
<1>5. ASSUME NEW p \in RunsOfPaid, RunStep(p) \/ DbFault(p) \/ Crash(p), NEW q \in RunsOfPaid'
      PROVE  q = p
  <2>1. RunFrame(p)
    BY <1>5, RunFrames DEF BaseInv, RunsOfPaid
  <2> QED
    BY <1>1, <1>5, <2>1 DEF RunFrame, RunsOfPaid
<1> QED
  BY <1>2, <1>3, <1>4, <1>5, OthersMoves DEF BaseInv

LEMMA TransitionRefundStep ==
  ASSUME BaseInv, TotalsInv, HistoryInv, TransitionInv, RefundStep,
         runsOverlapped => runsOverlapped', mixed => mixed'
  PROVE  TransitionInv'
<1> SUFFICES ASSUME ~runsOverlapped'
             PROVE  /\ \A p \in RunsOfPaid' :
                         /\ pc'[p] = "writePayment" => payment'[Paid] = "PENDING"
                         /\ pc'[p] = "writeOrder" /\ ~mixed' => order'[Paid] # "CANCELLED"
                    /\ ~overlapped' => \A r \in Requests :
                         rpc'[r] = "writePayment" => CanTransition(payment'[Paid], Refund!Target(r)')
  BY DEF TransitionInv, CanTransition
<1>1. PICK r \in Requests : RefundMove(r)
  BY RefundHasActor, RefundMoves DEF BaseInv
<1>2. UNCHANGED <<pc, ev>> /\ RunsOfPaid' = RunsOfPaid
  BY RefundFrame DEF BaseInv, runVars, RunsOfPaid
<1>3. Refund!InProgress(r) => payment[Paid] \notin {"ABSENT", "PENDING"} /\ (RunsOfPaid # {} => mixed)
  BY DEF BaseInv, NoRefundBefore, HistoryInv, Refunding
<1>4. ASSUME NEW p \in RunsOfPaid
      PROVE  /\ pc[p] = "writePayment" => payment'[Paid] = "PENDING"
             /\ pc[p] = "writeOrder" /\ ~mixed' => order'[Paid] # "CANCELLED"
  <2>1. /\ pc[p] = "writePayment" => payment[Paid] = "PENDING"
        /\ pc[p] = "writeOrder" /\ ~mixed' => order[Paid] # "CANCELLED"
    BY DEF TransitionInv
  <2> QED
    BY <1>1, <1>3, <2>1 DEF RefundMove, Refund!InProgress
<1>5. ASSUME ~overlapped', NEW q \in Requests, rpc'[q] = "writePayment"
      PROVE  CanTransition(payment'[Paid], Refund!Target(q)')
  <2>1. /\ ~overlapped
        /\ rpc[q] = "writePayment" => CanTransition(payment[Paid], Refund!Target(q))
    BY <1>1, <1>5 DEF RefundMove, TransitionInv
  <2>2. /\ payment'[Paid] = payment[Paid] /\ seen'[q] = seen[q] /\ wanted'[q] = wanted[q]
        /\ rpc[q] = "writePayment" \/ CanTransition(payment[Paid], Refund!Target(q))
    <3>1. CASE q = r
      BY <1>1, <1>5, <3>1 DEF RefundMove
    <3>2. CASE q # r
      <4>1. Refund!InProgress(q) /\ ~Refund!InProgress(r)
        BY <1>1, <1>5, <2>1, <3>2 DEF RefundMove, TotalsInv, InTurnInv, Refund!InProgress
      <4> QED
        BY <1>1, <1>5, <3>2, <4>1 DEF RefundMove, Refund!InProgress
    <3> QED
      BY <3>1, <3>2
  <2>3. Refund!Target(q)' = Refund!Target(q)
    BY <2>2 DEF Refund!Target, Refund!IsFull
  <2> QED
    BY <2>1, <2>2, <2>3
<1> QED
  BY <1>2, <1>4, <1>5

JointInv == BaseInv /\ TotalsInv /\ HistoryInv /\ TransitionInv

LEMMA JointStep ==
  ASSUME JointInv, [JointNext]_jointVars
  PROVE  JointInv'
<1>1. BaseInv' /\ TotalsInv'
  BY BaseStep, TotalsStep DEF JointInv
<1>2. HistoryInv' /\ (runsOverlapped => runsOverlapped') /\ (mixed => mixed')
  BY HistoryStep DEF JointInv
<1>3. TransitionInv'
  <2>1. CASE RefundStep
    BY <1>2, <2>1, TransitionRefundStep DEF JointInv
  <2>2. CASE WebhookStep \/ UNCHANGED jointVars
    <3>1. [Next]_vars /\ UNCHANGED refundVars
      BY <2>2 DEF WebhookStep, jointVars
    <3> QED
      BY <1>2, <3>1, TransitionWebhookStep DEF JointInv
  <2> QED
    BY <2>1, <2>2 DEF JointNext
<1> QED
  BY <1>1, <1>2, <1>3 DEF JointInv

LEMMA JointInvariant == JointSpec => []JointInv
<1>1. JointInit => HistoryInv /\ TransitionInv
  <2> SUFFICES ASSUME JointInit PROVE HistoryInv /\ TransitionInv
    OBVIOUS
  <2>1. RunsOfPaid = {}
    BY DEF JointInit, Init, RunsOfPaid
  <2>2. \A r \in Requests : rpc[r] = "new"
    BY DEF JointInit, Refund!NothingRefunded
  <2> QED
    BY <2>1, <2>2 DEF HistoryInv, TransitionInv
<1>2. HistoryInv /\ TransitionInv /\ BaseInv /\ TotalsInv => JointInv
  BY DEF JointInv
<1>3. JointInv /\ [JointNext]_jointVars => JointInv'
  BY JointStep
<1>4. JointSpec => BaseInv /\ TotalsInv
  BY BaseInvariant, TotalsInvariant, PTL
<1> QED
  BY <1>1, <1>2, <1>3, <1>4, PTL DEF JointSpec

\* A refund that succeeded is not undone by a webhook that is late, retried or
\* run by hand: as long as runs and refunds each come one at a time, the payment
\* moves only along ALLOWED_TRANSITIONS, and, if runs and refunds do not meet
\* either, a cancelled order stays so (paymentStateMachine.js transition).
THEOREM RefundsStand == JointSpec => RefundsAreNotUndone
<1>1. JointInv /\ [JointNext]_jointVars =>
        [ ~runsOverlapped' /\ ~overlapped' /\ payment[Paid] # "ABSENT" =>
            /\ CanTransition(payment[Paid], payment'[Paid])
            /\ ~mixed' /\ order[Paid] = "CANCELLED" => order'[Paid] = "CANCELLED" ]_<<payment, order>>
  <2> SUFFICES ASSUME JointInv, [JointNext]_jointVars,
                      ~runsOverlapped', ~overlapped', payment[Paid] # "ABSENT"
               PROVE  /\ CanTransition(payment[Paid], payment'[Paid])
                      /\ ~mixed' /\ order[Paid] = "CANCELLED" => order'[Paid] = "CANCELLED"
    OBVIOUS
  <2>1. ~runsOverlapped /\ (mixed => mixed')
    BY HistoryStep DEF JointInv
  <2>2. CASE RefundStep
    <3>1. PICK r \in Requests : RefundMove(r)
      BY <2>2, RefundHasActor, RefundMoves DEF JointInv, BaseInv
    <3> QED
      BY <2>1, <3>1 DEF RefundMove, JointInv, TransitionInv, CanTransition
  <2>3. CASE WebhookStep \/ UNCHANGED jointVars
    <3>1. WebhookMove
      BY <2>3, WebhookMoves DEF JointInv, BaseInv, WebhookStep, jointVars
    <3>2. \A e \in Events : CanTransition("PENDING", Target(e))
      BY DEF CanTransition, ALLOWED_TRANSITIONS, PaymentStatus, Target
    <3>3. \A p \in RunsOfPaid : ev[p] \in Events
      BY DEF JointInv, BaseInv, TypeOK, RunsOfPaid
    <3> QED
      BY <2>1, <3>1, <3>2, <3>3 DEF WebhookMove, JointInv, TransitionInv, CanTransition
  <2> QED
    BY <2>2, <2>3 DEF JointNext
<1> QED
  BY <1>1, JointInvariant, PTL DEF JointSpec, RefundsAreNotUndone

----------------------------------------------------------------------------
(* Where the credit is.  A payment that was paid or refunded is credited,  *)
(* or, while nothing has failed, the run that will credit it is on its     *)
(* way, or, while runs are in turn, a success is not marked PROCESSED.     *)

Stake == payment[Paid] \in {"SUCCESS", "PARTIALLY_REFUNDED", "REFUNDED"} \/ Refunding \/ debited # {}

SuccessesOfPaid == {e \in Events : PaymentOf[e] = Paid /\ Kind[e] = "SUCCEEDED"}

Crediting == {p \in RunsOfPaid : ev[p] \in SuccessesOfPaid /\ pc[p] \in {"writeOrder", "findEntry", "createEntry"}}

CreditIsDue == faults + crashes = 0 /\ Stake => CreditsOfPaid # {} \/ Crediting # {}

Working == {"find", "readPayment", "writePayment", "writeOrder", "findEntry", "createEntry",
            "addInvoice", "addNotification", "markProcessed"}

OpenSuccesses == {e \in SuccessesOfPaid : status[e] \notin {"NONE", "PROCESSED"}}

EvidenceInv ==
  ~runsOverlapped =>
    /\ \A p \in RunsOfPaid : pc[p] \in Working => status[ev[p]] = "PROCESSING"
    /\ \A p \in RunsOfPaid :
         pc[p] = "markProcessed" /\ ev[p] \in SuccessesOfPaid /\ credits[ev[p]] = 0
           => payment[Paid] \in {"ABSENT", "PENDING"}
    /\ Stake => CreditsOfPaid # {} \/ OpenSuccesses # {}

\* A refund raises no stake of its own: it starts from a payment that has one.
LEMMA RefundKeepsStake ==
  ASSUME NEW r \in Requests, RefundMove(r), Stake'
  PROVE  Stake
<1>1. CASE Refund!InProgress(r)
  BY <1>1 DEF Stake, Refunding
<1>2. CASE ~Refund!InProgress(r) /\ Refund!InProgress(r)'
  BY <1>2 DEF RefundMove, Stake
<1>3. CASE ~Refund!InProgress(r) /\ ~Refund!InProgress(r)'
  <2>1. payment'[Paid] = payment[Paid] /\ debited' = debited
    BY <1>3 DEF RefundMove, Refund!InProgress
  <2>2. Refunding' => Refunding
    BY <1>3 DEF RefundMove, Refunding, Refund!InProgress
  <2> QED
    BY <2>1, <2>2 DEF Stake
<1> QED
  BY <1>1, <1>2, <1>3

LEMMA EvidenceRefundStep ==
  ASSUME BaseInv, CreditIsDue, EvidenceInv, RefundStep, runsOverlapped => runsOverlapped'
  PROVE  CreditIsDue' /\ EvidenceInv'
<1>1. PICK r \in Requests : RefundMove(r)
  BY RefundHasActor, RefundMoves DEF BaseInv
<1>2. UNCHANGED <<status, credits, pc, ev, faults, crashes>>
  BY RefundFrame DEF BaseInv, eventVars, runVars, bounds
<1>3. Stake' => Stake
  BY <1>1, RefundKeepsStake
<1>4. payment[Paid] \in {"ABSENT", "PENDING"} => payment'[Paid] = payment[Paid]
  BY <1>1 DEF RefundMove, BaseInv, NoRefundBefore, Refunding, Refund!InProgress
<1> QED
  BY <1>2, <1>3, <1>4 DEF CreditIsDue, EvidenceInv, CreditsOfPaid, Crediting, RunsOfPaid, OpenSuccesses, SuccessesOfPaid

\* A step of somebody else leaves stake, credits and runs as they are.
LEMMA EvidenceOthersStep ==
  ASSUME BaseInv, CreditIsDue, EvidenceInv, OthersMove, UNCHANGED refundVars, runsOverlapped => runsOverlapped'
  PROVE  CreditIsDue' /\ EvidenceInv'
<1> USE ConstantsAssumption DEF BaseInv, TypeOK
<1>1. Stake' => Stake
  BY DEF OthersMove, Stake, Refunding, Refund!InProgress, refundVars
<1>2. CreditsOfPaid' = CreditsOfPaid
  BY DEF OthersMove, CreditsOfPaid
<1>3. OpenSuccesses \subseteq OpenSuccesses' /\ SuccessesOfPaid' = SuccessesOfPaid
  BY DEF OthersMove, OpenSuccesses, SuccessesOfPaid
<1>4. Crediting \subseteq Crediting'
  BY <1>3 DEF OthersMove, Crediting
<1>5. CreditIsDue'
  BY <1>1, <1>2, <1>4 DEF CreditIsDue, OthersMove
<1>6. ASSUME NEW p \in RunsOfPaid', pc'[p] # "load"
      PROVE  /\ p \in RunsOfPaid /\ pc'[p] = pc[p] /\ ev'[p] = ev[p]
             /\ ev[p] \in Events /\ PaymentOf[ev[p]] = Paid
             /\ credits'[ev[p]] = credits[ev[p]]
             /\ status[ev[p]] = "PROCESSING" => status'[ev[p]] = "PROCESSING"
  BY <1>6 DEF OthersMove, RunsOfPaid
<1>7. payment[Paid] \in {"ABSENT", "PENDING"} => payment'[Paid] \in {"ABSENT", "PENDING"}
  BY DEF OthersMove
<1>8. EvidenceInv'
  BY <1>1, <1>2, <1>3, <1>6, <1>7 DEF EvidenceInv, Working
<1> QED
  BY <1>5, <1>8

\* A credit is never taken back, and the other runs stay where they are.
LEMMA RunKeepsCredits ==
  ASSUME BaseInv, NEW p \in RunsOfPaid, RunStep(p) \/ DbFault(p) \/ Crash(p)
  PROVE  /\ CreditsOfPaid \subseteq CreditsOfPaid'
         /\ Crediting \ {p} \subseteq Crediting'
         /\ OpenSuccesses \ {ev[p]} \subseteq OpenSuccesses'
         /\ p \in Procs /\ ev[p] \in Events /\ PaymentOf[ev[p]] = Paid /\ RunFrame(p)
<1>1. p \in Procs /\ ev[p] \in Events /\ PaymentOf[ev[p]] = Paid /\ RunFrame(p)
  BY RunFrames DEF RunsOfPaid, BaseInv, RunFrame
<1>2. credits'[ev[p]] = credits[ev[p]] \/ credits'[ev[p]] = 1
  BY <1>1 DEF BaseInv, TypeOK, RunStep, LoadRecord, MarkProcessing, FindPayment, ReadPayment, WritePayment,
     WriteOrder, FindEntry, CreateEntry, AddInvoiceJob, AddNotificationJob, MarkProcessed, RecordFailure,
     Return, Throw, DbFault, Crash
<1>3. CreditsOfPaid \subseteq CreditsOfPaid'
  BY <1>1, <1>2 DEF RunFrame, CreditsOfPaid
<1>4. Crediting \ {p} \subseteq Crediting'
  BY <1>1 DEF RunFrame, Crediting, RunsOfPaid, SuccessesOfPaid
<1>5. OpenSuccesses \ {ev[p]} \subseteq OpenSuccesses'
  BY <1>1 DEF RunFrame, OpenSuccesses, SuccessesOfPaid
<1> QED
  BY <1>1, <1>3, <1>4, <1>5

LEMMA CreditRunStep ==
  ASSUME BaseInv, CreditIsDue, NEW p \in RunsOfPaid, RunStep(p) \/ DbFault(p) \/ Crash(p), UNCHANGED refundVars
  PROVE  CreditIsDue'
<1> SUFFICES ASSUME faults' + crashes' = 0, Stake'
             PROVE  CreditsOfPaid' # {} \/ Crediting' # {}
  BY DEF CreditIsDue
<1> USE ConstantsAssumption DEF TypeOK, At, Goto, EndRun, runVars
<1>1. /\ CreditsOfPaid \subseteq CreditsOfPaid' /\ Crediting \ {p} \subseteq Crediting'
      /\ p \in Procs /\ ev[p] \in Events /\ PaymentOf[ev[p]] = Paid /\ RunFrame(p) /\ TypeOK
  BY RunKeepsCredits DEF BaseInv
<1>2. faults + crashes = 0 /\ faults \in Nat /\ crashes \in Nat
  BY <1>1 DEF RunFrame
<1>3. RunStep(p)
  BY <1>1, <1>2 DEF DbFault, Crash
<1>4. CASE WritePayment(p) /\ Kind[ev[p]] = "SUCCEEDED"
  <2>1. p \in Crediting'
    BY <1>1, <1>4 DEF WritePayment, Crediting, RunsOfPaid, SuccessesOfPaid
  <2> QED
    BY <2>1
<1>5. CASE ~(WritePayment(p) /\ Kind[ev[p]] = "SUCCEEDED")
  <2>1. payment'[Paid] = payment[Paid] \/ payment'[Paid] = "FAILED"
    BY <1>1, <1>3, <1>5, PaidAssumption DEF RunStep, LoadRecord, MarkProcessing, FindPayment, ReadPayment,
       WritePayment, WriteOrder, FindEntry, CreateEntry, AddInvoiceJob, AddNotificationJob, MarkProcessed,
       RecordFailure, Return, Throw, Target, paymentVars
  <2>2. Stake
    BY <2>1 DEF Stake, Refunding, Refund!InProgress, refundVars
  <2>3. CreditsOfPaid # {} \/ Crediting # {}
    BY <1>2, <2>2 DEF CreditIsDue
  <2>4. p \in Crediting => CreditsOfPaid' # {} \/ Crediting' # {}
    <3> SUFFICES ASSUME p \in Crediting
                 PROVE  ev[p] \in CreditsOfPaid' \/ p \in Crediting'
      OBVIOUS
    <3>1. pc[p] \in {"writeOrder", "findEntry", "createEntry"} /\ Kind[ev[p]] = "SUCCEEDED"
      BY DEF Crediting, SuccessesOfPaid
    <3>2. CASE WriteOrder(p)
      BY <1>1, <3>1, <3>2 DEF WriteOrder, AfterTransition, Crediting, RunsOfPaid, SuccessesOfPaid
    <3>3. CASE FindEntry(p)
      BY <1>1, <3>1, <3>3 DEF FindEntry, Crediting, RunsOfPaid, SuccessesOfPaid, CreditsOfPaid
    <3>4. CASE CreateEntry(p)
      BY <1>1, <3>1, <3>4 DEF CreateEntry, CreditsOfPaid
    <3> QED
      BY <1>3, <3>1, <3>2, <3>3, <3>4 DEF RunStep, LoadRecord, MarkProcessing, FindPayment, ReadPayment,
         WritePayment, AddInvoiceJob, AddNotificationJob, MarkProcessed, RecordFailure, Return, Throw
  <2> QED
    BY <1>1, <2>3, <2>4
<1> QED
  BY <1>4, <1>5

LEMMA EvidenceRunStep ==
  ASSUME BaseInv, HistoryInv, TransitionInv, EvidenceInv, NEW p \in RunsOfPaid,
         RunStep(p) \/ DbFault(p) \/ Crash(p), UNCHANGED refundVars, runsOverlapped => runsOverlapped'
  PROVE  EvidenceInv'
<1> SUFFICES ASSUME ~runsOverlapped'
             PROVE  /\ \A q \in RunsOfPaid' : pc'[q] \in Working => status'[ev'[q]] = "PROCESSING"
                    /\ \A q \in RunsOfPaid' :
                         pc'[q] = "markProcessed" /\ ev'[q] \in SuccessesOfPaid /\ credits'[ev'[q]] = 0
                           => payment'[Paid] \in {"ABSENT", "PENDING"}
                    /\ Stake' => CreditsOfPaid' # {} \/ OpenSuccesses' # {}
  BY DEF EvidenceInv, SuccessesOfPaid
<1> USE ConstantsAssumption, PaidAssumption DEF TypeOK, At, Goto, EndRun, runVars
<1>1. /\ CreditsOfPaid \subseteq CreditsOfPaid' /\ OpenSuccesses \ {ev[p]} \subseteq OpenSuccesses'
      /\ p \in Procs /\ ev[p] \in Events /\ PaymentOf[ev[p]] = Paid /\ RunFrame(p) /\ TypeOK
  BY RunKeepsCredits DEF BaseInv
<1>2. /\ \A q \in RunsOfPaid : q = p
      /\ pc[p] \in Working => status[ev[p]] = "PROCESSING"
      /\ pc[p] = "markProcessed" /\ ev[p] \in SuccessesOfPaid /\ credits[ev[p]] = 0
           => payment[Paid] \in {"ABSENT", "PENDING"}
      /\ Stake => CreditsOfPaid # {} \/ OpenSuccesses # {}
  BY DEF HistoryInv, EvidenceInv
<1>3. \A q \in RunsOfPaid' : q = p /\ ev'[q] = ev[p] /\ pc'[q] # "idle"
  BY <1>1, <1>2 DEF RunFrame, RunsOfPaid
<1>4. pc'[p] \in Working => status'[ev[p]] = "PROCESSING"
  <2>1. CASE MarkProcessing(p)
    BY <1>1, <2>1 DEF MarkProcessing
  <2>2. CASE (RunStep(p) /\ ~MarkProcessing(p)) \/ DbFault(p) \/ Crash(p)
    <3>1. CASE pc[p] \in Working /\ ~MarkProcessed(p)
      <4>1. status'[ev[p]] = status[ev[p]]
        BY <2>2, <3>1 DEF RunStep, LoadRecord, FindPayment, ReadPayment, WritePayment, WriteOrder, FindEntry,
           CreateEntry, AddInvoiceJob, AddNotificationJob, RecordFailure, Return, Throw, DbFault, Crash, Working, eventVars
      <4> QED
        BY <1>2, <3>1, <4>1
    <3>2. CASE pc[p] \notin Working \/ MarkProcessed(p)
      BY <1>1, <2>2, <3>2 DEF RunStep, LoadRecord, FindPayment, ReadPayment, WritePayment, WriteOrder, FindEntry,
         CreateEntry, AddInvoiceJob, AddNotificationJob, MarkProcessed, RecordFailure, Return, Throw, DbFault,
         Crash, Working
    <3> QED
      BY <3>1, <3>2
  <2> QED
    BY <2>1, <2>2
<1>5. pc'[p] = "markProcessed" /\ ev[p] \in SuccessesOfPaid /\ credits'[ev[p]] = 0
        => payment'[Paid] \in {"ABSENT", "PENDING"}
  <2> SUFFICES ASSUME pc'[p] = "markProcessed", Kind[ev[p]] = "SUCCEEDED", credits'[ev[p]] = 0
               PROVE  payment'[Paid] \in {"ABSENT", "PENDING"}
    BY DEF SuccessesOfPaid
  <2>1. CASE FindPayment(p)
    BY <1>1, <2>1 DEF FindPayment, paymentVars
  <2>2. CASE AddNotificationJob(p)
    BY <1>1, <2>2 DEF AddNotificationJob, BaseInv, MoneyInv, StageInv
  <2> QED
    BY <1>1, <2>1, <2>2 DEF RunStep, LoadRecord, MarkProcessing, ReadPayment, WritePayment, WriteOrder, FindEntry,
       CreateEntry, AddInvoiceJob, MarkProcessed, RecordFailure, Return, Throw, DbFault, Crash, AfterTransition
<1>6. ASSUME Stake'
      PROVE  CreditsOfPaid' # {} \/ OpenSuccesses' # {}
  <2>1. CASE WritePayment(p) /\ Kind[ev[p]] = "SUCCEEDED"
    <3>1. pc[p] = "writePayment" /\ status'[ev[p]] = status[ev[p]]
      BY <2>1 DEF WritePayment, eventVars
    <3>2. ev[p] \in OpenSuccesses'
      BY <1>1, <1>2, <2>1, <3>1 DEF Working, OpenSuccesses, SuccessesOfPaid
    <3> QED
      BY <3>2
  <2>2. CASE ~(WritePayment(p) /\ Kind[ev[p]] = "SUCCEEDED")
    <3>1. payment'[Paid] = payment[Paid] \/ payment'[Paid] = "FAILED"
      BY <1>1, <2>2 DEF RunStep, LoadRecord, MarkProcessing, FindPayment, ReadPayment,
         WritePayment, WriteOrder, FindEntry, CreateEntry, AddInvoiceJob, AddNotificationJob, MarkProcessed,
         RecordFailure, Return, Throw, DbFault, Crash, Target, paymentVars
    <3>2. Stake /\ (CreditsOfPaid # {} \/ OpenSuccesses # {})
      BY <1>2, <1>6, <3>1 DEF Stake, Refunding, Refund!InProgress, refundVars
    <3>3. CASE MarkProcessed(p) /\ ev[p] \in OpenSuccesses
      <4>1. payment[Paid] \notin {"ABSENT", "PENDING"}
        BY <3>2 DEF Stake, BaseInv, NoRefundBefore
      <4>2. credits[ev[p]] # 0
        BY <1>2, <3>3, <4>1 DEF MarkProcessed, OpenSuccesses
      <4>3. ev[p] \in CreditsOfPaid
        BY <1>1, <4>2 DEF CreditsOfPaid
      <4> QED
        BY <1>1, <4>3
    <3>4. CASE ~MarkProcessed(p) /\ ev[p] \in OpenSuccesses
      <4>1. status'[ev[p]] \in {status[ev[p]], "PROCESSING", "DEAD_LETTER", "RETRYING"}
        BY <1>1, <3>4 DEF RunStep, LoadRecord, MarkProcessing, FindPayment, ReadPayment,
           WritePayment, WriteOrder, FindEntry, CreateEntry, AddInvoiceJob, AddNotificationJob,
           RecordFailure, Return, Throw, DbFault, Crash, eventVars
      <4>2. ev[p] \in OpenSuccesses'
        BY <3>4, <4>1 DEF OpenSuccesses, SuccessesOfPaid
      <4> QED
        BY <4>2
    <3> QED
      BY <1>1, <3>2, <3>3, <3>4
  <2> QED
    BY <2>1, <2>2
<1> QED
  BY <1>3, <1>4, <1>5, <1>6

LEMMA EvidenceStep ==
  ASSUME JointInv, CreditIsDue, EvidenceInv, [JointNext]_jointVars
  PROVE  CreditIsDue' /\ EvidenceInv'
<1>1. runsOverlapped => runsOverlapped'
  BY HistoryStep DEF JointInv
<1>2. CASE RefundStep
  BY <1>1, <1>2, EvidenceRefundStep DEF JointInv
<1>3. CASE WebhookStep \/ UNCHANGED jointVars
  <2>1. [Next]_vars /\ UNCHANGED refundVars
    BY <1>3 DEF WebhookStep, jointVars
  <2>2. CASE OthersMove
    BY <1>1, <2>1, <2>2, EvidenceOthersStep DEF JointInv
  <2>3. ASSUME NEW p \in RunsOfPaid, RunStep(p) \/ DbFault(p) \/ Crash(p)
        PROVE  CreditIsDue' /\ EvidenceInv'
    BY <1>1, <2>1, <2>3, CreditRunStep, EvidenceRunStep DEF JointInv
  <2> QED
    BY <2>1, <2>2, <2>3, OthersMoves DEF JointInv, BaseInv
<1> QED
  BY <1>2, <1>3 DEF JointNext

LEMMA EvidenceInvariant == JointSpec => [](CreditIsDue /\ EvidenceInv)
<1>1. JointInit => CreditIsDue /\ EvidenceInv
  <2> SUFFICES ASSUME JointInit PROVE RunsOfPaid = {} /\ ~Stake
    BY DEF CreditIsDue, EvidenceInv
  <2> QED
    BY PaidAssumption DEF JointInit, Init, Refund!NothingRefunded, RunsOfPaid, Stake, Refunding, Refund!InProgress
<1>2. JointInv /\ CreditIsDue /\ EvidenceInv /\ [JointNext]_jointVars => CreditIsDue' /\ EvidenceInv'
  BY EvidenceStep
<1> QED
  BY <1>1, <1>2, JointInvariant, PTL DEF JointSpec

\* Only rows that count are debited, so the debits are within the total.
LEMMA DebitsWithinTotal ==
  ASSUME Refund!TypeOK, RowInv
  PROVE  Debits \in Nat /\ Debits <= Refund!TotalRefunded
<1> DEFINE debit == [r \in Requests |-> IF r \in debited THEN rowAmount[r] ELSE 0]
<1>1. debit \in Amounts /\ Refund!Counted \in Amounts
  BY AmountsAssumption, TotalIsNat DEF Refund!TypeOK, Amounts
<1>2. \A r \in Requests : debit[r] <= Refund!Counted[r]
  BY AmountsAssumption DEF RowInv, Refund!TypeOK, Refund!Counted
<1>3. Sum(debit) \in Nat /\ Sum(debit) <= Sum(Refund!Counted)
  BY <1>1, <1>2, SumMonotone, SumType
<1> QED
  BY <1>3, TotalIsNat DEF Debits

\* The ledger never debits a payment it has not credited, nor more than its
\* amount, unless the rows of its events show that something is left to do: for
\* refunds one at a time, and either no failure or runs one at a time
\* (webhook.worker.js:97 and :194, refund.service.js:166).
THEOREM UncoveredDebitsAreSeen == JointSpec => []UncoveredDebitsShow
<1>1. JointInv /\ CreditIsDue /\ EvidenceInv => UncoveredDebitsShow
  <2> SUFFICES ASSUME JointInv, CreditIsDue, EvidenceInv, ~overlapped,
                      faults + crashes = 0 \/ ~runsOverlapped, debited # {}
               PROVE  \/ CreditsOfPaid # {} /\ Debits <= Amount
                      \/ RunsOfPaid # {}
                      \/ \E e \in Events : PaymentOf[e] = Paid /\ status[e] \notin {"NONE", "PROCESSED"}
    BY DEF UncoveredDebitsShow
  <2>1. CreditsOfPaid # {} \/ Crediting # {} \/ OpenSuccesses # {}
    BY DEF CreditIsDue, EvidenceInv, Stake
  <2>2. Debits <= Amount
    <3>1. Refund!TotalRefunded <= Amount
      BY DEF JointInv, TotalsInv, InTurnInv
    <3>2. Refund!TotalRefunded \in Nat /\ Debits \in Nat /\ Debits <= Refund!TotalRefunded
      BY TotalIsNat, DebitsWithinTotal DEF JointInv, BaseInv, TotalsInv
    <3> QED
      BY <3>1, <3>2, AmountsAssumption
  <2> QED
    BY <2>1, <2>2 DEF Crediting, OpenSuccesses, SuccessesOfPaid
<1> QED
  BY <1>1, JointInvariant, EvidenceInvariant, PTL

\* With webhooks on the same rows as without: the payment is REFUNDED, and its
\* order CANCELLED, only when its SUCCEEDED refunds cover it.
THEOREM FullRefundsStayEarned == JointSpec => []Refund!RefundedIsEarned
<1>1. TotalsInv => Refund!RefundedIsEarned
  BY DEF TotalsInv
<1> QED
  BY <1>1, TotalsInvariant, PTL
=============================================================================
