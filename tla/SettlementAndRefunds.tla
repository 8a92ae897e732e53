------------------------ MODULE SettlementAndRefunds ------------------------
(***************************************************************************)
(* Webhooks and refunds together.  Both call transition() on the same      *)
(* Payment and Order rows and both write to the ledger; they know nothing  *)
(* of each other.  The payment Paid is settled by the webhook pipeline and *)
(* refunded by the requests of Refunds.                                    *)
(***************************************************************************)
EXTENDS WebhookPipeline, RefundAmounts

CONSTANTS
  Paid,            \* the payment that is refunded
  Asked, ClientKey, NoKey, ReasonOf, MaxRetries, MaxFailures   \* see Refunds

ASSUME PaidAssumption ==
  /\ Paid \in Payments
  /\ Asked \in [Requests -> Nat]
  /\ MaxRetries \in Nat \ {0}
  /\ MaxFailures \in Nat

VARIABLES
  rpc, seen, wanted, answer, collisions, stripe, given, rowStatus, rowAmount, debited, failures,
  overlapped,      \* see Refunds
  runsOverlapped,  \* history: two runs about Paid have been in progress at once
  mixed            \* history: a run about Paid and a refund have been

refundVars == <<rpc, seen, wanted, answer, collisions, stripe, given, rowStatus, rowAmount, debited,
                failures, overlapped>>
jointVars == <<vars, refundVars, runsOverlapped, mixed>>

Refund == INSTANCE Refunds WITH payment <- payment[Paid], order <- order[Paid], pc <- rpc

RunsOfPaid == {p \in Procs : pc[p] # "idle" /\ PaymentOf[ev[p]] = Paid}

Refunding == \E r \in Requests : Refund!InProgress(r)

History ==
  /\ runsOverlapped' = (runsOverlapped \/ (\E p, q \in RunsOfPaid : p # q)')
  /\ mixed' = (mixed \/ (RunsOfPaid # {} /\ Refunding)')

JointInit ==
  /\ Init
  /\ Refund!NothingRefunded
  /\ runsOverlapped = FALSE /\ mixed = FALSE

WebhookStep == Next /\ UNCHANGED refundVars /\ History

\* createRefund() moves the payment on, the order with it, and touches nothing
\* else of the webhook path.
RefundStep ==
  /\ \E s \in {payment[Paid], "PARTIALLY_REFUNDED", "REFUNDED"} :
       payment' = [payment EXCEPT ![Paid] = s]
  /\ \E s \in {order[Paid], SyncedOrder("REFUNDED", order[Paid])} :
       order' = [order EXCEPT ![Paid] = s]
  /\ Refund!Next
  /\ UNCHANGED <<eventVars, credits, downVars, jobVars, ingestVars, pc, runVars, bounds, dismissed>>
  /\ History

JointNext == WebhookStep \/ RefundStep

JointSpec == JointInit /\ [][JointNext]_jointVars

----------------------------------------------------------------------------
\* A refund is not undone by a webhook that is retried, reprocessed or late:
\* as long as runs do not overlap runs, nor refunds refunds, the payment's status
\* only moves along ALLOWED_TRANSITIONS, whatever fails or crashes; and if runs
\* do not overlap refunds either, a cancelled order stays cancelled
\* (paymentStateMachine.js:66 and :75 write what an earlier read allowed).
RefundsAreNotUndone ==
  [][ ~runsOverlapped' /\ ~overlapped' /\ payment[Paid] # "ABSENT" =>
        /\ CanTransition(payment[Paid], payment'[Paid])
        /\ ~mixed' /\ order[Paid] = "CANCELLED" => order'[Paid] = "CANCELLED" ]_<<payment, order>>

CreditsOfPaid == {e \in Events : PaymentOf[e] = Paid /\ credits[e] > 0}

Debits == Sum([r \in Requests |-> IF r \in debited THEN rowAmount[r] ELSE 0])

\* The ledger never debits a payment it has not credited without a sign of it:
\* a retry that finds the payment refunded is refused, and its event is then
\* dead-lettered rather than PROCESSED (webhook.worker.js:97, :194).
UncoveredDebitsShow ==
  ~overlapped /\ (faults + crashes = 0 \/ ~runsOverlapped) =>
    \/ CreditsOfPaid # {} /\ Debits <= Amount
    \/ debited = {}
    \/ RunsOfPaid # {}
    \/ \E e \in Events : PaymentOf[e] = Paid /\ status[e] \notin {"NONE", "PROCESSED"}
=============================================================================
