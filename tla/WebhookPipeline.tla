-------------------------- MODULE WebhookPipeline --------------------------
(***************************************************************************)
(* The webhook path: a gateway delivers an event over HTTP, the handler    *)
(* stores it and enqueues a BullMQ job, a worker (or an administrator's    *)
(* reprocess request) runs processWebhookJob() on it: payment transition,  *)
(* ledger credit, downstream jobs, event status.                           *)
(*                                                                         *)
(* Each awaited database or Redis call is one action: between two of them  *)
(* any other process may run, the call may fail and the process may die.   *)
(* Only verified deliveries are modelled; a bad signature changes nothing. *)
(***************************************************************************)
EXTENDS PaymentStateMachine, Integers

CONSTANTS
  Events,          \* gateway events, named by (gateway, eventId)
  Payments,
  Handlers,        \* HTTP requests to the webhook endpoint in flight
  Workers,         \* BullMQ worker slots (concurrency: 5 in the code)
  Admins,          \* administrators' reprocess requests in flight
  NoEvent,         \* the event of an idle process
  Kind,            \* what an event reports
  PaymentOf,       \* the payment whose intent or order id an event carries
  MaxAttempts,     \* env.webhookMaxAttempts
  MaxStalls,       \* BullMQ's maxStalledCount
  MaxDeliveries, MaxFaults, MaxCrashes, MaxReprocesses   \* bounds of the model

Procs == Workers \cup Admins

\* "OTHER" is an event type or payment status that processWebhookJob ignores.
Kinds == {"SUCCEEDED", "FAILED", "OTHER"}

ASSUME ConstantsAssumption ==
  /\ Kind \in [Events -> Kinds]
  /\ PaymentOf \in [Events -> Payments]
  /\ Workers \cap Admins = {}
  /\ NoEvent \notin Events
  /\ MaxAttempts \in Nat \ {0}
  /\ MaxStalls \in Nat
  /\ MaxDeliveries \in Nat /\ MaxFaults \in Nat
  /\ MaxCrashes \in Nat /\ MaxReprocesses \in Nat

VARIABLES
  status, processed, attempts,   \* WebhookEvent rows
  payment, order,                \* Payment and Order rows
  credits,                       \* TransactionLedger: credits of each event
  invoices, notices,             \* payments with an invoice / notification job
  job, tries, stalls,            \* the webhook queue: state, attemptsMade, stalls
  hpc, hev, deliveries,          \* webhook endpoint
  pc, ev, made,                  \* processWebhookJob runs, made = job.attemptsMade
  faults, crashes, reprocesses,  \* how often each has happened
  dismissed                      \* history: events processed with no payment found

eventVars   == <<status, processed, attempts>>
paymentVars == <<payment, order>>
jobVars     == <<job, tries, stalls>>
ingestVars  == <<hpc, hev, deliveries>>
runVars     == <<ev, made>>
downVars    == <<invoices, notices>>
bounds      == <<faults, crashes, reprocesses>>
vars == <<status, processed, attempts, payment, order, credits, invoices, notices,
          job, tries, stalls, hpc, hev, deliveries, pc, ev, made,
          faults, crashes, reprocesses, dismissed>>

WebhookEventStatus == {"NONE", "RECEIVED", "PROCESSING", "PROCESSED", "RETRYING", "DEAD_LETTER"}
JobState     == {"none", "waiting", "active", "completed", "failed"}
HandlerStage == {"idle", "find", "create", "enqueue"}
RunStage     == {"idle", "load", "mark", "find", "readPayment", "writePayment", "writeOrder",
                 "findEntry", "createEntry", "addInvoice", "addNotification",
                 "markProcessed", "recordFailure", "throw", "return"}

Init ==
  /\ status = [e \in Events |-> "NONE"]
  /\ processed = [e \in Events |-> FALSE]
  /\ attempts = [e \in Events |-> 0]
  /\ payment = [x \in Payments |-> "ABSENT"]
  /\ order = [x \in Payments |-> "ABSENT"]
  /\ credits = [e \in Events |-> 0]
  /\ invoices = {} /\ notices = {}
  /\ job = [e \in Events |-> "none"]
  /\ tries = [e \in Events |-> 0]
  /\ stalls = [e \in Events |-> 0]
  /\ hpc = [h \in Handlers |-> "idle"]
  /\ hev = [h \in Handlers |-> NoEvent]
  /\ deliveries = [e \in Events |-> 0]
  /\ pc = [p \in Procs |-> "idle"]
  /\ ev = [p \in Procs |-> NoEvent]
  /\ made = [p \in Procs |-> 0]
  /\ faults = 0 /\ crashes = 0 /\ reprocesses = 0
  /\ dismissed = {}

----------------------------------------------------------------------------
(* createPayment() commits the order and the payment in one transaction,   *)
(* after the gateway knows the payment: events may come first.             *)

CreatePaymentRow(x) ==
  /\ payment[x] = "ABSENT"
  /\ payment' = [payment EXCEPT ![x] = "PENDING"]
  /\ order' = [order EXCEPT ![x] = "PENDING"]
  /\ UNCHANGED <<eventVars, credits, downVars, jobVars, ingestVars, pc, runVars, bounds, dismissed>>

----------------------------------------------------------------------------
(* The webhook endpoint: handleStripeWebhook(), handleGatewayWebhook().    *)

Deliver(h, e) ==
  /\ hpc[h] = "idle" /\ deliveries[e] < MaxDeliveries
  /\ deliveries' = [deliveries EXCEPT ![e] = @ + 1]
  /\ hpc' = [hpc EXCEPT ![h] = "find"]
  /\ hev' = [hev EXCEPT ![h] = e]
  /\ UNCHANGED <<eventVars, paymentVars, credits, downVars, jobVars, pc, runVars, bounds, dismissed>>

HandlerGoto(h, stage) ==
  /\ hpc' = [hpc EXCEPT ![h] = stage]
  /\ hev' = [hev EXCEPT ![h] = IF stage = "idle" THEN NoEvent ELSE @]
  /\ UNCHANGED deliveries

\* A stored event is a duplicate and is dropped here, whatever became of it.
FindEvent(h) ==
  /\ hpc[h] = "find"
  /\ HandlerGoto(h, IF status[hev[h]] = "NONE" THEN "create" ELSE "idle")
  /\ UNCHANGED <<eventVars, paymentVars, credits, downVars, jobVars, pc, runVars, bounds, dismissed>>

\* The repository turns a unique violation into the stored record, so that the
\* handler that lost the race goes on to enqueue as well.
CreateEvent(h) ==
  /\ hpc[h] = "create"
  /\ status' = [status EXCEPT ![hev[h]] = IF @ = "NONE" THEN "RECEIVED" ELSE @]
  /\ HandlerGoto(h, "enqueue")
  /\ UNCHANGED <<processed, attempts, paymentVars, credits, downVars, jobVars, pc, runVars, bounds, dismissed>>

\* queue.add with a jobId: BullMQ keeps the job that is already there.
AddJob(e) ==
  IF job[e] = "none"
    THEN /\ job' = [job EXCEPT ![e] = "waiting"]
         /\ tries' = [tries EXCEPT ![e] = 0]
         /\ stalls' = [stalls EXCEPT ![e] = 0]
    ELSE UNCHANGED jobVars

Enqueue(h) ==
  /\ hpc[h] = "enqueue"
  /\ AddJob(hev[h])
  /\ HandlerGoto(h, "idle")
  /\ UNCHANGED <<eventVars, paymentVars, credits, downVars, pc, runVars, bounds, dismissed>>

\* A failed database call answers 500; a failed or missing queue is logged and
\* answered 200.  Either way the request ends with no job.
HandlerFault(h) ==
  /\ hpc[h] # "idle" /\ faults < MaxFaults
  /\ faults' = faults + 1
  /\ HandlerGoto(h, "idle")
  /\ UNCHANGED <<eventVars, paymentVars, credits, downVars, jobVars, pc, runVars, crashes, reprocesses, dismissed>>

HandlerCrash(h) ==
  /\ hpc[h] # "idle" /\ crashes < MaxCrashes
  /\ crashes' = crashes + 1
  /\ HandlerGoto(h, "idle")
  /\ UNCHANGED <<eventVars, paymentVars, credits, downVars, jobVars, pc, runVars, faults, reprocesses, dismissed>>

----------------------------------------------------------------------------
(* Who runs processWebhookJob(): a worker that takes the job, or an        *)
(* administrator's request, which bypasses the queue and uses the record's *)
(* attempts as job.attemptsMade.                                           *)

StartJob(w, e) ==
  /\ pc[w] = "idle" /\ job[e] = "waiting"
  /\ job' = [job EXCEPT ![e] = "active"]
  /\ pc' = [pc EXCEPT ![w] = "load"]
  /\ ev' = [ev EXCEPT ![w] = e]
  /\ made' = [made EXCEPT ![w] = tries[e]]
  /\ UNCHANGED <<eventVars, paymentVars, credits, downVars, tries, stalls, ingestVars, bounds, dismissed>>

ReprocessWebhook(a, e) ==
  /\ pc[a] = "idle" /\ status[e] # "NONE" /\ reprocesses < MaxReprocesses
  /\ reprocesses' = reprocesses + 1
  /\ pc' = [pc EXCEPT ![a] = "load"]
  /\ ev' = [ev EXCEPT ![a] = e]
  /\ made' = [made EXCEPT ![a] = attempts[e]]
  /\ UNCHANGED <<eventVars, paymentVars, credits, downVars, jobVars, ingestVars, faults, crashes, dismissed>>

----------------------------------------------------------------------------
(* processWebhookJob(), one awaited call at a time.                        *)

At(p, stage) == p \in Procs /\ pc[p] = stage
Goto(p, stage) == pc' = [pc EXCEPT ![p] = stage] /\ UNCHANGED <<runVars, ingestVars>>

Target(e) == IF Kind[e] = "SUCCEEDED" THEN "SUCCESS" ELSE "FAILED"

\* What follows a completed transition(): only a success is credited.
AfterTransition(e) == IF Kind[e] = "SUCCEEDED" THEN "findEntry" ELSE "markProcessed"

LoadRecord(p) ==
  /\ At(p, "load")
  /\ Goto(p, IF status[ev[p]] = "PROCESSED" THEN "return" ELSE "mark")
  /\ UNCHANGED <<eventVars, paymentVars, credits, downVars, jobVars, bounds, dismissed>>

MarkProcessing(p) ==
  /\ At(p, "mark")
  /\ status' = [status EXCEPT ![ev[p]] = "PROCESSING"]
  /\ attempts' = [attempts EXCEPT ![ev[p]] = @ + 1]
  /\ Goto(p, "find")
  /\ UNCHANGED <<processed, paymentVars, credits, downVars, jobVars, bounds, dismissed>>

\* Faulty variant: the credit is recorded without waiting for the transition.
FindPaymentCreditingFirst(p) ==
  /\ At(p, "find")
  /\ IF Kind[ev[p]] # "OTHER" /\ payment[PaymentOf[ev[p]]] # "ABSENT"
       THEN Goto(p, AfterTransition(ev[p])) /\ UNCHANGED dismissed
       ELSE Goto(p, "markProcessed") /\ dismissed' = dismissed \cup {ev[p]}
  /\ UNCHANGED <<eventVars, paymentVars, credits, downVars, jobVars, bounds>>

\* Faulty variant: an event whose payment is not there is left for later.
FindPaymentOrReturn(p) ==
  /\ At(p, "find")
  /\ IF Kind[ev[p]] # "OTHER" /\ payment[PaymentOf[ev[p]]] # "ABSENT"
       THEN Goto(p, "readPayment") /\ UNCHANGED dismissed
       ELSE Goto(p, "return") /\ dismissed' = dismissed \cup {ev[p]}
  /\ UNCHANGED <<eventVars, paymentVars, credits, downVars, jobVars, bounds>>

\* An event whose payment is not there is marked PROCESSED all the same.
FindPayment(p) ==
  /\ At(p, "find")
  /\ IF Kind[ev[p]] # "OTHER" /\ payment[PaymentOf[ev[p]]] # "ABSENT"
       THEN Goto(p, "readPayment") /\ UNCHANGED dismissed
       ELSE Goto(p, "markProcessed") /\ dismissed' = dismissed \cup {ev[p]}
  /\ UNCHANGED <<eventVars, paymentVars, credits, downVars, jobVars, bounds>>

\* Faulty variant: a payment that is SUCCESS already counts as all done.
ReadPaymentSkippingSuccess(p) ==
  LET current == payment[PaymentOf[ev[p]]] IN
  /\ At(p, "readPayment")
  /\ Goto(p, IF current = Target(ev[p]) THEN "markProcessed"
             ELSE IF CanTransition(current, Target(ev[p])) THEN "writePayment"
             ELSE "recordFailure")
  /\ UNCHANGED <<eventVars, paymentVars, credits, downVars, jobVars, bounds, dismissed>>

\* Faulty variant: the transition is not validated.
ReadPaymentUnchecked(p) ==
  /\ At(p, "readPayment")
  /\ Goto(p, IF payment[PaymentOf[ev[p]]] = Target(ev[p]) THEN AfterTransition(ev[p])
             ELSE "writePayment")
  /\ UNCHANGED <<eventVars, paymentVars, credits, downVars, jobVars, bounds, dismissed>>

\* transition(): read and validate; the status is not read again before the write.
ReadPayment(p) ==
  LET current == payment[PaymentOf[ev[p]]] IN
  /\ At(p, "readPayment")
  /\ Goto(p, IF current = Target(ev[p]) THEN AfterTransition(ev[p])
             ELSE IF CanTransition(current, Target(ev[p])) THEN "writePayment"
             ELSE "recordFailure")
  /\ UNCHANGED <<eventVars, paymentVars, credits, downVars, jobVars, bounds, dismissed>>

\* Faulty variant: the order is not synchronised.
WritePaymentOnly(p) ==
  /\ At(p, "writePayment")
  /\ payment' = [payment EXCEPT ![PaymentOf[ev[p]]] = Target(ev[p])]
  /\ Goto(p, AfterTransition(ev[p]))
  /\ UNCHANGED <<eventVars, order, credits, downVars, jobVars, bounds, dismissed>>

WritePayment(p) ==
  /\ At(p, "writePayment")
  /\ payment' = [payment EXCEPT ![PaymentOf[ev[p]]] = Target(ev[p])]
  /\ Goto(p, "writeOrder")
  /\ UNCHANGED <<eventVars, order, credits, downVars, jobVars, bounds, dismissed>>

WriteOrder(p) ==
  LET x == PaymentOf[ev[p]] IN
  /\ At(p, "writeOrder")
  /\ order' = [order EXCEPT ![x] = SyncedOrder(Target(ev[p]), @)]
  /\ Goto(p, AfterTransition(ev[p]))
  /\ UNCHANGED <<eventVars, payment, credits, downVars, jobVars, bounds, dismissed>>

\* recordPaymentCredit(): the reference is the event's, not the payment's.
FindEntry(p) ==
  /\ At(p, "findEntry")
  /\ Goto(p, IF credits[ev[p]] > 0 THEN "addInvoice" ELSE "createEntry")
  /\ UNCHANGED <<eventVars, paymentVars, credits, downVars, jobVars, bounds, dismissed>>

\* A unique violation on idempotencyRef returns the entry that is there.
CreateEntry(p) ==
  /\ At(p, "createEntry")
  /\ credits' = [credits EXCEPT ![ev[p]] = IF @ = 0 THEN 1 ELSE @]
  /\ Goto(p, "addInvoice")
  /\ UNCHANGED <<eventVars, paymentVars, downVars, jobVars, bounds, dismissed>>

\* Downstream jobs have one id per order and per payment; a failed add is
\* logged and swallowed.
AddInvoiceJob(p) ==
  /\ At(p, "addInvoice")
  /\ \/ invoices' = invoices \cup {PaymentOf[ev[p]]} /\ UNCHANGED faults
     \/ faults < MaxFaults /\ faults' = faults + 1 /\ UNCHANGED invoices
  /\ Goto(p, "addNotification")
  /\ UNCHANGED <<eventVars, paymentVars, credits, notices, jobVars, crashes, reprocesses, dismissed>>

AddNotificationJob(p) ==
  /\ At(p, "addNotification")
  /\ \/ notices' = notices \cup {PaymentOf[ev[p]]} /\ UNCHANGED faults
     \/ faults < MaxFaults /\ faults' = faults + 1 /\ UNCHANGED notices
  /\ Goto(p, "markProcessed")
  /\ UNCHANGED <<eventVars, paymentVars, credits, invoices, jobVars, crashes, reprocesses, dismissed>>

MarkProcessed(p) ==
  /\ At(p, "markProcessed")
  /\ status' = [status EXCEPT ![ev[p]] = "PROCESSED"]
  /\ processed' = [processed EXCEPT ![ev[p]] = TRUE]
  /\ Goto(p, "return")
  /\ UNCHANGED <<attempts, paymentVars, credits, downVars, jobVars, bounds, dismissed>>

\* Faulty variant: the catch block swallows the error.
RecordFailureSwallowed(p) ==
  /\ At(p, "recordFailure")
  /\ Goto(p, "markProcessed")
  /\ UNCHANGED <<eventVars, paymentVars, credits, downVars, jobVars, bounds, dismissed>>

\* Faulty variant: the last attempt is taken for one that will be retried.
RecordFailureOffByOne(p) ==
  /\ At(p, "recordFailure")
  /\ status' = [status EXCEPT ![ev[p]] =
                  IF made[p] + 1 > MaxAttempts THEN "DEAD_LETTER" ELSE "RETRYING"]
  /\ Goto(p, "throw")
  /\ UNCHANGED <<processed, attempts, paymentVars, credits, downVars, jobVars, bounds, dismissed>>

\* The catch block; it overwrites whatever status the event has by now.
RecordFailure(p) ==
  /\ At(p, "recordFailure")
  /\ status' = [status EXCEPT ![ev[p]] =
                  IF made[p] + 1 >= MaxAttempts THEN "DEAD_LETTER" ELSE "RETRYING"]
  /\ Goto(p, "throw")
  /\ UNCHANGED <<processed, attempts, paymentVars, credits, downVars, jobVars, bounds, dismissed>>

\* Faulty variant: a ledger failure is swallowed like a queue failure.
DbFaultIgnoredByLedger(p) ==
  /\ p \in Procs /\ faults < MaxFaults
  /\ pc[p] \notin {"idle", "addInvoice", "addNotification", "throw", "return"}
  /\ faults' = faults + 1
  /\ Goto(p, IF pc[p] \in {"load", "mark", "recordFailure"} THEN "throw"
             ELSE IF pc[p] = "createEntry" THEN "addInvoice" ELSE "recordFailure")
  /\ UNCHANGED <<eventVars, paymentVars, credits, downVars, jobVars, crashes, reprocesses, dismissed>>

\* The record's load and its PROCESSING update come before the try block; a
\* failure there, or in the catch block itself, is thrown with no record of it.
DbFault(p) ==
  /\ p \in Procs /\ faults < MaxFaults
  /\ pc[p] \notin {"idle", "addInvoice", "addNotification", "throw", "return"}
  /\ faults' = faults + 1
  /\ Goto(p, IF pc[p] \in {"load", "mark", "recordFailure"} THEN "throw" ELSE "recordFailure")
  /\ UNCHANGED <<eventVars, paymentVars, credits, downVars, jobVars, crashes, reprocesses, dismissed>>

----------------------------------------------------------------------------
(* The end of a run: BullMQ completes, retries or fails the worker's job   *)
(* (backoff delays are not modelled); an administrator's run just answers. *)

EndRun(p) ==
  /\ pc' = [pc EXCEPT ![p] = "idle"]
  /\ ev' = [ev EXCEPT ![p] = NoEvent]
  /\ made' = [made EXCEPT ![p] = 0]
  /\ UNCHANGED ingestVars

Return(p) ==
  /\ At(p, "return")
  /\ job' = IF p \in Workers THEN [job EXCEPT ![ev[p]] = "completed"] ELSE job
  /\ EndRun(p)
  /\ UNCHANGED <<eventVars, paymentVars, credits, downVars, tries, stalls, bounds, dismissed>>

\* Faulty variant: the error is not thrown again, so BullMQ completes the job.
ThrowNothing(p) ==
  /\ At(p, "throw")
  /\ job' = IF p \in Workers THEN [job EXCEPT ![ev[p]] = "completed"] ELSE job
  /\ EndRun(p)
  /\ UNCHANGED <<eventVars, paymentVars, credits, downVars, tries, stalls, bounds, dismissed>>

Throw(p) ==
  /\ At(p, "throw")
  /\ IF p \in Workers
       THEN /\ tries' = [tries EXCEPT ![ev[p]] = @ + 1]
            /\ job' = [job EXCEPT ![ev[p]] = IF tries[ev[p]] + 1 >= MaxAttempts
                                               THEN "failed" ELSE "waiting"]
       ELSE UNCHANGED <<tries, job>>
  /\ EndRun(p)
  /\ UNCHANGED <<eventVars, paymentVars, credits, downVars, stalls, bounds, dismissed>>

\* A process dies in the middle of a run.  BullMQ finds the worker's job
\* stalled and hands it out again, MaxStalls times, and then fails it.
Crash(p) ==
  /\ p \in Procs /\ pc[p] # "idle" /\ crashes < MaxCrashes
  /\ crashes' = crashes + 1
  /\ IF p \in Workers
       THEN /\ stalls' = [stalls EXCEPT ![ev[p]] = @ + 1]
            /\ job' = [job EXCEPT ![ev[p]] = IF stalls[ev[p]] < MaxStalls THEN "waiting" ELSE "failed"]
       ELSE UNCHANGED <<stalls, job>>
  /\ EndRun(p)
  /\ UNCHANGED <<eventVars, paymentVars, credits, downVars, tries, faults, reprocesses, dismissed>>

\* removeOnComplete and removeOnFail drop old jobs; the id is free again.
Evict(e) ==
  /\ job[e] \in {"completed", "failed"}
  /\ job' = [job EXCEPT ![e] = "none"]
  /\ UNCHANGED <<eventVars, paymentVars, credits, downVars, tries, stalls, ingestVars, pc, runVars, bounds, dismissed>>

----------------------------------------------------------------------------
HandlerStep(h) == FindEvent(h) \/ CreateEvent(h) \/ Enqueue(h)

RunStep(p) ==
  \/ LoadRecord(p) \/ MarkProcessing(p) \/ FindPayment(p)
  \/ ReadPayment(p) \/ WritePayment(p) \/ WriteOrder(p)
  \/ FindEntry(p) \/ CreateEntry(p) \/ AddInvoiceJob(p) \/ AddNotificationJob(p)
  \/ MarkProcessed(p) \/ RecordFailure(p) \/ Return(p) \/ Throw(p)

Next ==
  \/ \E x \in Payments : CreatePaymentRow(x)
  \/ \E h \in Handlers, e \in Events : Deliver(h, e)
  \/ \E h \in Handlers : HandlerStep(h) \/ HandlerFault(h) \/ HandlerCrash(h)
  \/ \E w \in Workers, e \in Events : StartJob(w, e)
  \/ \E a \in Admins, e \in Events : ReprocessWebhook(a, e)
  \/ \E p \in Procs : RunStep(p) \/ DbFault(p) \/ Crash(p)
  \/ \E e \in Events : Evict(e)

Spec == Init /\ [][Next]_vars

(* Node runs every started handler and job to its end, and a BullMQ worker *)
(* slot that is free takes a waiting job.  Nothing obliges a gateway to    *)
(* deliver, an administrator to act, or a call to fail.                    *)
Fairness ==
  /\ \A h \in Handlers : WF_vars(HandlerStep(h))
  /\ \A p \in Procs : WF_vars(RunStep(p))
  /\ \A w \in Workers : WF_vars(\E e \in Events : StartJob(w, e))

FairSpec == Spec /\ Fairness

----------------------------------------------------------------------------
TypeOK ==
  /\ status \in [Events -> WebhookEventStatus]
  /\ processed \in [Events -> BOOLEAN]
  /\ attempts \in [Events -> Nat]
  /\ payment \in [Payments -> PaymentStatus]
  /\ order \in [Payments -> OrderStatus]
  /\ credits \in [Events -> Nat]
  /\ invoices \subseteq Payments /\ notices \subseteq Payments
  /\ job \in [Events -> JobState]
  /\ tries \in [Events -> Nat] /\ stalls \in [Events -> Nat]
  /\ hpc \in [Handlers -> HandlerStage]
  /\ hev \in [Handlers -> Events \cup {NoEvent}]
  /\ \A h \in Handlers : hpc[h] # "idle" => hev[h] \in Events
  /\ deliveries \in [Events -> Nat]
  /\ pc \in [Procs -> RunStage]
  /\ ev \in [Procs -> Events \cup {NoEvent}]
  /\ \A p \in Procs : pc[p] # "idle" => ev[p] \in Events
  /\ made \in [Procs -> Nat]
  /\ faults \in Nat /\ crashes \in Nat /\ reprocesses \in Nat
  /\ dismissed \subseteq Events

\* What the pipeline promises about money, as an abstract specification.
Settlement == INSTANCE SettlementOnce WITH
  Successes <- {e \in Events : Kind[e] = "SUCCEEDED"},
  known     <- {e \in Events : status[e] # "NONE"},
  credits   <- credits,
  unmatched <- dismissed,
  settled   <- {e \in Events : processed[e]}

\* The pipeline implements SettlementOnce: each of its steps credits, dismisses,
\* settles or learns of one event, in the order the abstract guards allow, or
\* changes nothing of it.
ImplementsSettlementOnce == Settlement!ASpec

\* An event that was once marked processed has had its effect: a success is in
\* the ledger, unless a run of it found no payment to credit.
ProcessedHasEffect ==
  \A e \in Events : processed[e] /\ Kind[e] = "SUCCEEDED" => credits[e] = 1 \/ e \in dismissed

CreditsFollowTransition ==
  /\ \A e \in Events : credits[e] > 0 => payment[PaymentOf[e]] \notin {"ABSENT", "PENDING"}
  /\ \A x \in Payments : order[x] \notin {"ABSENT", "PENDING"} => payment[x] \notin {"ABSENT", "PENDING"}

DownstreamFollowsCredit ==
  \A x \in invoices \cup notices :
    \E e \in Events : PaymentOf[e] = x /\ Kind[e] = "SUCCEEDED" /\ credits[e] = 1

\* Money is credited only for a payment that transition() has moved on, and an
\* order leaves PENDING only after its payment did; invoices and receipts go out
\* only for payments with a credit in the ledger, also when a run is repeated.
EffectsFollowTransition == CreditsFollowTransition /\ DownstreamFollowsCredit

\* The job id made of gateway and event id keeps two workers off one event,
\* also when two handlers race to enqueue it.
OneWorkerPerEvent ==
  \A v, w \in Workers : v # w /\ pc[v] # "idle" /\ pc[w] # "idle" => ev[v] # ev[w]

InTransition(x) ==
  \E p \in Procs : pc[p] \in {"writePayment", "writeOrder"} /\ PaymentOf[ev[p]] = x

OrderMatchesPayment(x) ==
  order[x] = CASE payment[x] = "SUCCESS" -> "PAID" [] OTHER -> payment[x]

\* Every event about x reports the same outcome.
Unopposed(x) ==
  \A d, e \in Events : PaymentOf[d] = x /\ PaymentOf[e] = x => Kind[d] = Kind[e]

\* While no call fails and no process dies, transition() called by any number
\* of processes for the same outcome keeps order and payment together.
OrderInStep ==
  faults = 0 /\ crashes = 0 =>
    \A x \in Payments : Unopposed(x) /\ ~InTransition(x) => OrderMatchesPayment(x)

\* Somebody will see to the event: a handler that is about to enqueue it, its
\* job in the queue, or a run.
Attended(e) ==
  \/ job[e] \in {"waiting", "active"}
  \/ \E h \in Handlers : hpc[h] \in {"create", "enqueue"} /\ hev[h] = e
  \/ \E p \in Procs : pc[p] # "idle" /\ ev[p] = e

\* While no call fails and no process dies, a stored event is attended to until
\* it is PROCESSED, however deliveries, workers, evictions and manual runs
\* interleave; with a failure it may be left in any status
\* (webhook.worker.js:51, admin.controller.js:144).
UnattendedNeedsFailure ==
  faults = 0 /\ crashes = 0 =>
    \A e \in Events :
      Unopposed(PaymentOf[e]) /\ status[e] \notin {"NONE", "PROCESSED"} => Attended(e)

\* A status changes only along ALLOWED_TRANSITIONS
\* (paymentStateMachine.js:8, docs/architecture.md).
PaymentTransitionsAreLegal ==
  [][\A x \in Payments : payment[x] # "ABSENT" => CanTransition(payment[x], payment'[x])]_payment

\* With no failing call, an event that got as far as the queue is processed or
\* dead-lettered, whatever it reports and even if its worker dies once.
QueuedEventSettles ==
  \A e \in Events :
    job[e] = "waiting" ~> (status[e] \in {"PROCESSED", "DEAD_LETTER"} \/ faults > 0)

\* Fewer failing calls than attempts: a queued event is processed in the end
\* ("transient failures are recovered automatically",
\* docs/webhook-reliability.md:5), unless its payment went the other way.
TransientFaultsRecovered ==
  \A e \in Events :
    job[e] = "waiting" ~> \/ status[e] = "PROCESSED"
                          \/ payment[PaymentOf[e]] \in {"SUCCESS", "FAILED"} \ {Target(e)}

\* "ensures no event is lost" (docs/webhook-reliability.md:5).
NoEventLost ==
  \A e \in Events : status[e] = "RECEIVED" ~> status[e] \in {"PROCESSED", "DEAD_LETTER"}
=============================================================================
