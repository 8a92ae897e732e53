----------------------- MODULE WebhookPipelineProofs -----------------------
(***************************************************************************)
(* For any number of events, payments, handlers, workers, administrators,  *)
(* attempts, failures and crashes: the types of WebhookPipeline, its       *)
(* safety invariants about the ledger, its refinement of SettlementOnce,   *)
(* and what holds while nothing fails of workers, orders and stored        *)
(* events.                                                                 *)
(***************************************************************************)
EXTENDS WebhookPipeline, TLAPS

(* Each action keeps the types: the queue and the endpoint first, then the *)
(* steps of processWebhookJob().                                           *)

LEMMA IngestTypes ==
  ASSUME TypeOK, NEW h \in Handlers, NEW e \in Events,
         Deliver(h, e) \/ HandlerStep(h) \/ HandlerFault(h) \/ HandlerCrash(h)
  PROVE  TypeOK'
<1> USE ConstantsAssumption DEF TypeOK, HandlerStage, HandlerGoto, eventVars, paymentVars,
        jobVars, runVars, downVars, bounds
<1>1. CASE Deliver(h, e)
  BY <1>1 DEF Deliver
<1>2. CASE FindEvent(h)
  BY <1>2 DEF FindEvent
<1>3. CASE CreateEvent(h)
  BY <1>3 DEF CreateEvent, WebhookEventStatus
<1>4. CASE Enqueue(h)
  BY <1>4 DEF Enqueue, AddJob, JobState
<1>5. CASE HandlerFault(h)
  BY <1>5 DEF HandlerFault
<1>6. CASE HandlerCrash(h)
  BY <1>6 DEF HandlerCrash
<1> QED
  BY <1>1, <1>2, <1>3, <1>4, <1>5, <1>6 DEF HandlerStep

LEMMA QueueTypes ==
  ASSUME TypeOK, NEW e \in Events,
         \/ \E x \in Payments : CreatePaymentRow(x)
         \/ \E w \in Workers : StartJob(w, e)
         \/ \E a \in Admins : ReprocessWebhook(a, e)
         \/ Evict(e)
  PROVE  TypeOK'
<1> USE ConstantsAssumption DEF TypeOK, Procs, eventVars, paymentVars, jobVars, ingestVars,
        runVars, downVars, bounds
<1>1. ASSUME NEW x \in Payments, CreatePaymentRow(x)
      PROVE  TypeOK'
  BY <1>1 DEF CreatePaymentRow, PaymentStatus, OrderStatus
<1>2. ASSUME NEW w \in Workers, StartJob(w, e)
      PROVE  TypeOK'
  BY <1>2 DEF StartJob, JobState, RunStage
<1>3. ASSUME NEW a \in Admins, ReprocessWebhook(a, e)
      PROVE  TypeOK'
  BY <1>3 DEF ReprocessWebhook, RunStage
<1>4. CASE Evict(e)
  BY <1>4 DEF Evict, JobState
<1> QED
  BY <1>1, <1>2, <1>3, <1>4

LEMMA RunTypes ==
  ASSUME TypeOK, NEW p \in Procs, RunStep(p) \/ DbFault(p) \/ Crash(p)
  PROVE  TypeOK'
<1> USE ConstantsAssumption DEF TypeOK, RunStage, At, Goto, EndRun, AfterTransition, Target,
        eventVars, paymentVars, jobVars, ingestVars, runVars, downVars, bounds
<1>1. CASE LoadRecord(p)
  BY <1>1 DEF LoadRecord
<1>2. CASE MarkProcessing(p)
  BY <1>2 DEF MarkProcessing, WebhookEventStatus
<1>3. CASE FindPayment(p)
  BY <1>3 DEF FindPayment
<1>4. CASE ReadPayment(p)
  BY <1>4 DEF ReadPayment
<1>5. CASE WritePayment(p)
  BY <1>5 DEF WritePayment, PaymentStatus
<1>6. CASE WriteOrder(p)
  BY <1>6 DEF WriteOrder, SyncedOrder, OrderStatus
<1>7. CASE FindEntry(p)
  BY <1>7 DEF FindEntry
<1>8. CASE CreateEntry(p)
  BY <1>8 DEF CreateEntry
<1>9. CASE AddInvoiceJob(p)
  BY <1>9 DEF AddInvoiceJob
<1>10. CASE AddNotificationJob(p)
  BY <1>10 DEF AddNotificationJob
<1>11. CASE MarkProcessed(p)
  BY <1>11 DEF MarkProcessed, WebhookEventStatus
<1>12. CASE RecordFailure(p)
  BY <1>12 DEF RecordFailure, WebhookEventStatus
<1>13. CASE Return(p)
  BY <1>13 DEF Return, JobState
<1>14. CASE Throw(p)
  BY <1>14 DEF Throw, JobState
<1>15. CASE DbFault(p)
  BY <1>15 DEF DbFault
<1>16. CASE Crash(p)
  BY <1>16 DEF Crash, JobState
<1> QED
  BY <1>1, <1>2, <1>3, <1>4, <1>5, <1>6, <1>7, <1>8, <1>9, <1>10, <1>11, <1>12, <1>13,
     <1>14, <1>15, <1>16
  DEF RunStep

LEMMA TypeStep ==
  ASSUME TypeOK, [Next]_vars
  PROVE  TypeOK'
<1>1. CASE Next
  <2>1. ASSUME NEW x \in Payments, CreatePaymentRow(x)
        PROVE  TypeOK'
    BY <2>1, ConstantsAssumption
    DEF CreatePaymentRow, TypeOK, PaymentStatus, OrderStatus, eventVars, jobVars,
        ingestVars, runVars, downVars, bounds
  <2>2. ASSUME NEW h \in Handlers, HandlerStep(h) \/ HandlerFault(h) \/ HandlerCrash(h)
        PROVE  TypeOK'
    <3>1. hev[h] \in Events
      BY <2>2 DEF TypeOK, HandlerStep, FindEvent, CreateEvent, Enqueue, HandlerFault, HandlerCrash
    <3> QED BY <2>2, <3>1, IngestTypes
  <2>3. ASSUME NEW h \in Handlers, NEW e \in Events, Deliver(h, e)
        PROVE  TypeOK'
    BY <2>3, IngestTypes
  <2>4. ASSUME NEW e \in Events,
               \/ \E w \in Workers : StartJob(w, e)
               \/ \E a \in Admins : ReprocessWebhook(a, e)
               \/ Evict(e)
        PROVE  TypeOK'
    BY <2>4, QueueTypes
  <2>5. ASSUME NEW p \in Procs, RunStep(p) \/ DbFault(p) \/ Crash(p)
        PROVE  TypeOK'
    BY <2>5, RunTypes
  <2> QED
    BY <1>1, <2>1, <2>2, <2>3, <2>4, <2>5 DEF Next
<1>2. CASE UNCHANGED vars
  BY <1>2 DEF vars, TypeOK
<1> QED
  BY <1>1, <1>2

LEMMA TypeInit == Init => TypeOK
BY DEF Init, TypeOK, WebhookEventStatus, PaymentStatus, OrderStatus, JobState,
       HandlerStage, RunStage

\* Every variable keeps its type: the rows hold statuses of the schema, a busy
\* handler or run has an event (webhook.service.js, webhook.worker.js).
THEOREM TypeCorrect == Spec => []TypeOK
<1>1. TypeOK /\ [Next]_vars => TypeOK'
  BY TypeStep
<1> QED
  BY <1>1, TypeInit, PTL DEF Spec

----------------------------------------------------------------------------
(* The invariants about money.  They are not inductive: what a run has      *)
(* done by the time it is at a stage must be known as well.                 *)

\* What has happened by the time a run is past the transition.
StageInv ==
  \A p \in Procs :
    /\ pc[p] \in {"findEntry", "createEntry", "addInvoice", "addNotification"}
         => Kind[ev[p]] = "SUCCEEDED"
    /\ pc[p] \in {"writeOrder", "findEntry", "createEntry", "addInvoice", "addNotification"}
         => payment[PaymentOf[ev[p]]] \notin {"ABSENT", "PENDING"}
    /\ pc[p] \in {"addInvoice", "addNotification"} => credits[ev[p]] = 1
    /\ pc[p] = "markProcessed" /\ Kind[ev[p]] = "SUCCEEDED"
         => credits[ev[p]] = 1 \/ ev[p] \in dismissed

\* The part of the invariant CreateEntry keeps alone: it is the ledger's only
\* writer and returns the entry that is there.
CreditAtMostOnce == \A e \in Events : credits[e] <= 1

MoneyInv ==
  /\ CreditAtMostOnce
  /\ ProcessedHasEffect
  /\ CreditsFollowTransition
  /\ DownstreamFollowsCredit
  /\ StageInv

moneyVars == <<processed, credits, dismissed, payment, order, invoices, notices>>

\* Stages at which StageInv asks nothing.
QuietStages == {"idle", "load", "mark", "find", "readPayment", "writePayment",
                "recordFailure", "throw", "return"}

LEMMA UnmovedMoney ==
  ASSUME MoneyInv, UNCHANGED moneyVars, UNCHANGED <<pc, ev>>
  PROVE  MoneyInv'
BY DEF MoneyInv, CreditAtMostOnce, ProcessedHasEffect, CreditsFollowTransition,
       DownstreamFollowsCredit, StageInv, moneyVars

\* A run that starts, ends, fails or goes to a quiet stage touches no money.
LEMMA QuietMoney ==
  ASSUME TypeOK, MoneyInv, UNCHANGED moneyVars, NEW p \in Procs,
         pc'[p] \in QuietStages,
         \A q \in Procs : q # p => pc'[q] = pc[q] /\ ev'[q] = ev[q]
  PROVE  MoneyInv'
<1>1. StageInv'
  BY DEF MoneyInv, StageInv, moneyVars, QuietStages
<1> QED
  BY <1>1 DEF MoneyInv, CreditAtMostOnce, ProcessedHasEffect, CreditsFollowTransition,
              DownstreamFollowsCredit, moneyVars

\* createPayment() adds rows nobody has credited yet.
LEMMA CreatePaymentRowMoney ==
  ASSUME TypeOK, MoneyInv, NEW x \in Payments, CreatePaymentRow(x)
  PROVE  MoneyInv'
<1> USE ConstantsAssumption DEF TypeOK, CreatePaymentRow, downVars, runVars, eventVars
<1>1. StageInv'
  BY DEF MoneyInv, StageInv, Procs
<1>2. CreditsFollowTransition'
  BY DEF MoneyInv, CreditsFollowTransition
<1> QED
  BY <1>1, <1>2 DEF MoneyInv, CreditAtMostOnce, ProcessedHasEffect, DownstreamFollowsCredit

LEMMA FindPaymentMoney ==
  ASSUME TypeOK, MoneyInv, NEW p \in Procs, FindPayment(p)
  PROVE  MoneyInv'
<1> USE DEF TypeOK, FindPayment, At, Goto, runVars, eventVars, paymentVars, downVars
<1>1. StageInv'
  BY DEF MoneyInv, StageInv
<1> QED
  BY <1>1 DEF MoneyInv, CreditAtMostOnce, ProcessedHasEffect, CreditsFollowTransition,
              DownstreamFollowsCredit

LEMMA TransitionMoney ==
  ASSUME TypeOK, MoneyInv, NEW p \in Procs,
         ReadPayment(p) \/ WritePayment(p) \/ WriteOrder(p)
  PROVE  MoneyInv'
<1> USE ConstantsAssumption DEF TypeOK, At, Goto, AfterTransition, Target, runVars,
        eventVars, paymentVars, downVars
<1>1. CASE ReadPayment(p)
  <2>1. StageInv'
    BY <1>1 DEF ReadPayment, MoneyInv, StageInv
  <2> QED
    BY <1>1, <2>1 DEF ReadPayment, MoneyInv, CreditAtMostOnce, ProcessedHasEffect,
                      CreditsFollowTransition, DownstreamFollowsCredit
<1>2. CASE WritePayment(p)
  <2>1. StageInv'
    BY <1>2 DEF WritePayment, MoneyInv, StageInv
  <2>2. CreditsFollowTransition'
    BY <1>2 DEF WritePayment, MoneyInv, CreditsFollowTransition
  <2> QED
    BY <1>2, <2>1, <2>2 DEF WritePayment, MoneyInv, CreditAtMostOnce, ProcessedHasEffect,
                            DownstreamFollowsCredit
<1>3. CASE WriteOrder(p)
  <2>1. StageInv'
    BY <1>3 DEF WriteOrder, MoneyInv, StageInv
  <2>2. CreditsFollowTransition'
    BY <1>3 DEF WriteOrder, MoneyInv, StageInv, CreditsFollowTransition
  <2> QED
    BY <1>3, <2>1, <2>2 DEF WriteOrder, MoneyInv, CreditAtMostOnce, ProcessedHasEffect,
                            DownstreamFollowsCredit
<1> QED
  BY <1>1, <1>2, <1>3

LEMMA LedgerMoney ==
  ASSUME TypeOK, MoneyInv, NEW p \in Procs, FindEntry(p) \/ CreateEntry(p)
  PROVE  MoneyInv'
<1> USE ConstantsAssumption DEF TypeOK, At, Goto, runVars, eventVars, paymentVars, downVars
<1>1. CASE FindEntry(p)
  <2>1. StageInv'
    BY <1>1 DEF FindEntry, MoneyInv, StageInv, CreditAtMostOnce
  <2> QED
    BY <1>1, <2>1 DEF FindEntry, MoneyInv, CreditAtMostOnce, ProcessedHasEffect,
                      CreditsFollowTransition, DownstreamFollowsCredit
<1>2. CASE CreateEntry(p)
  <2>1. /\ credits'[ev[p]] = 1
        /\ \A e \in Events : e # ev[p] => credits'[e] = credits[e]
    BY <1>2 DEF CreateEntry, MoneyInv, CreditAtMostOnce
  <2>2. StageInv'
    BY <1>2, <2>1 DEF CreateEntry, MoneyInv, StageInv
  <2>3. CreditAtMostOnce' /\ ProcessedHasEffect' /\ CreditsFollowTransition'
    BY <1>2, <2>1 DEF CreateEntry, MoneyInv, StageInv, CreditAtMostOnce, ProcessedHasEffect,
                      CreditsFollowTransition
  <2>4. DownstreamFollowsCredit'
    BY <1>2, <2>1 DEF CreateEntry, MoneyInv, DownstreamFollowsCredit
  <2> QED
    BY <2>2, <2>3, <2>4 DEF MoneyInv
<1> QED
  BY <1>1, <1>2

LEMMA DownstreamMoney ==
  ASSUME TypeOK, MoneyInv, NEW p \in Procs,
         AddInvoiceJob(p) \/ AddNotificationJob(p) \/ MarkProcessed(p)
  PROVE  MoneyInv'
<1> USE DEF TypeOK, At, Goto, runVars, eventVars, paymentVars, downVars
<1>1. CASE AddInvoiceJob(p) \/ AddNotificationJob(p)
  <2>1. StageInv'
    BY <1>1 DEF AddInvoiceJob, AddNotificationJob, MoneyInv, StageInv
  <2>2. DownstreamFollowsCredit'
    BY <1>1 DEF AddInvoiceJob, AddNotificationJob, MoneyInv, StageInv, DownstreamFollowsCredit
  <2> QED
    BY <1>1, <2>1, <2>2 DEF AddInvoiceJob, AddNotificationJob, MoneyInv, CreditAtMostOnce,
                            ProcessedHasEffect, CreditsFollowTransition
<1>2. CASE MarkProcessed(p)
  <2>1. StageInv'
    BY <1>2 DEF MarkProcessed, MoneyInv, StageInv
  <2>2. ProcessedHasEffect'
    BY <1>2 DEF MarkProcessed, MoneyInv, StageInv, ProcessedHasEffect
  <2> QED
    BY <1>2, <2>1, <2>2 DEF MarkProcessed, MoneyInv, CreditAtMostOnce,
                            CreditsFollowTransition, DownstreamFollowsCredit
<1> QED
  BY <1>1, <1>2

LEMMA MoneyStep ==
  ASSUME TypeOK, MoneyInv, [Next]_vars
  PROVE  MoneyInv'
<1>1. ASSUME NEW x \in Payments, CreatePaymentRow(x)
      PROVE  MoneyInv'
  BY <1>1, CreatePaymentRowMoney
<1>2. ASSUME NEW h \in Handlers,
             \/ \E e \in Events : Deliver(h, e)
             \/ HandlerStep(h) \/ HandlerFault(h) \/ HandlerCrash(h)
      PROVE  MoneyInv'
  <2>1. UNCHANGED moneyVars /\ UNCHANGED <<pc, ev>>
    BY <1>2 DEF Deliver, HandlerStep, FindEvent, CreateEvent, Enqueue, HandlerFault,
                HandlerCrash, moneyVars, eventVars, paymentVars, downVars, runVars
  <2> QED
    BY <2>1, UnmovedMoney
<1>3. ASSUME NEW e \in Events, Evict(e)
      PROVE  MoneyInv'
  <2>1. UNCHANGED moneyVars /\ UNCHANGED <<pc, ev>>
    BY <1>3 DEF Evict, moneyVars, eventVars, paymentVars, downVars, runVars
  <2> QED
    BY <2>1, UnmovedMoney
<1>4. ASSUME NEW e \in Events, NEW p \in Procs, StartJob(p, e) \/ ReprocessWebhook(p, e)
      PROVE  MoneyInv'
  <2>1. UNCHANGED moneyVars
    BY <1>4 DEF StartJob, ReprocessWebhook, moneyVars, eventVars, paymentVars, downVars
  <2>2. pc'[p] \in QuietStages
    BY <1>4 DEF StartJob, ReprocessWebhook, QuietStages, TypeOK
  <2>3. \A q \in Procs : q # p => pc'[q] = pc[q] /\ ev'[q] = ev[q]
    BY <1>4 DEF StartJob, ReprocessWebhook, TypeOK
  <2> QED
    BY <2>1, <2>2, <2>3, QuietMoney
<1>5. ASSUME NEW p \in Procs,
             \/ LoadRecord(p) \/ MarkProcessing(p) \/ RecordFailure(p)
             \/ Return(p) \/ Throw(p) \/ DbFault(p) \/ Crash(p)
      PROVE  MoneyInv'
  <2>1. UNCHANGED moneyVars
    BY <1>5 DEF LoadRecord, MarkProcessing, RecordFailure, Return, Throw, DbFault, Crash,
                moneyVars, eventVars, paymentVars, downVars
  <2>2. pc'[p] \in QuietStages
    BY <1>5 DEF LoadRecord, MarkProcessing, RecordFailure, Return, Throw, DbFault, Crash,
                Goto, EndRun, QuietStages, TypeOK
  <2>3. \A q \in Procs : q # p => pc'[q] = pc[q] /\ ev'[q] = ev[q]
    BY <1>5 DEF LoadRecord, MarkProcessing, RecordFailure, Return, Throw, DbFault, Crash,
                Goto, EndRun, runVars, TypeOK
  <2> QED
    BY <2>1, <2>2, <2>3, QuietMoney
<1>6. ASSUME NEW p \in Procs, RunStep(p)
      PROVE  MoneyInv'
  BY <1>5, <1>6, FindPaymentMoney, TransitionMoney, LedgerMoney, DownstreamMoney DEF RunStep
<1>7. CASE UNCHANGED vars
  BY <1>7, UnmovedMoney DEF vars, moneyVars
<1> QED
  BY <1>1, <1>2, <1>3, <1>4, <1>5, <1>6, <1>7 DEF Next, Procs

LEMMA MoneyInit == Init => MoneyInv
BY ConstantsAssumption DEF Init, MoneyInv, CreditAtMostOnce, ProcessedHasEffect,
   CreditsFollowTransition, DownstreamFollowsCredit, StageInv

LEMMA MoneyInvariant == Spec => []MoneyInv
<1>1. TypeOK /\ MoneyInv /\ [Next]_vars => MoneyInv'
  BY MoneyStep
<1> QED
  BY <1>1, MoneyInit, TypeCorrect, PTL DEF Spec

\* A success that was ever marked processed is in the ledger, or a run of it
\* found no payment (webhook.worker.js).
THEOREM ProcessedSuccessHasEffect == Spec => []ProcessedHasEffect
<1>1. MoneyInv => ProcessedHasEffect
  BY DEF MoneyInv
<1> QED
  BY <1>1, MoneyInvariant, PTL

\* Credits, paid orders, invoices and receipts come only after the transition
\* and, for the last two, after the credit.
THEOREM EffectsAreOrdered == Spec => []EffectsFollowTransition
<1>1. MoneyInv => EffectsFollowTransition
  BY DEF MoneyInv, EffectsFollowTransition
<1> QED
  BY <1>1, MoneyInvariant, PTL

----------------------------------------------------------------------------
(* The refinement of SettlementOnce.  It needs one more fact: whatever is    *)
(* being enqueued, queued or run has a row in the database.                  *)

KnownInv ==
  /\ \A h \in Handlers : hpc[h] = "enqueue" => status[hev[h]] # "NONE"
  /\ \A e \in Events : job[e] # "none" => status[e] # "NONE"
  /\ \A p \in Procs : pc[p] # "idle" => status[ev[p]] # "NONE"

LEMMA KnownIngest ==
  ASSUME TypeOK, KnownInv, NEW h \in Handlers, NEW e \in Events,
         Deliver(h, e) \/ HandlerStep(h) \/ HandlerFault(h) \/ HandlerCrash(h)
  PROVE  KnownInv'
<1> USE DEF TypeOK, KnownInv, HandlerGoto, eventVars, jobVars, runVars
<1>1. CASE Deliver(h, e)
  BY <1>1 DEF Deliver
<1>2. CASE FindEvent(h)
  BY <1>2 DEF FindEvent
<1>3. CASE CreateEvent(h)
  BY <1>3 DEF CreateEvent
<1>4. CASE Enqueue(h)
  BY <1>4 DEF Enqueue, AddJob
<1>5. CASE HandlerFault(h) \/ HandlerCrash(h)
  BY <1>5 DEF HandlerFault, HandlerCrash
<1> QED
  BY <1>1, <1>2, <1>3, <1>4, <1>5 DEF HandlerStep

LEMMA KnownRun ==
  ASSUME TypeOK, KnownInv, NEW p \in Procs, RunStep(p) \/ DbFault(p) \/ Crash(p)
  PROVE  KnownInv'
<1> USE DEF TypeOK, KnownInv, At, Goto, EndRun, AfterTransition, eventVars, jobVars,
        ingestVars, runVars
<1>1. CASE MarkProcessing(p)
  BY <1>1 DEF MarkProcessing
<1>2. CASE MarkProcessed(p) \/ RecordFailure(p)
  BY <1>2 DEF MarkProcessed, RecordFailure
<1>3. CASE LoadRecord(p) \/ FindPayment(p) \/ ReadPayment(p)
  BY <1>3 DEF LoadRecord, FindPayment, ReadPayment
<1>4. CASE WritePayment(p) \/ WriteOrder(p) \/ FindEntry(p) \/ CreateEntry(p)
  BY <1>4 DEF WritePayment, WriteOrder, FindEntry, CreateEntry
<1>5. CASE AddInvoiceJob(p) \/ AddNotificationJob(p) \/ DbFault(p)
  BY <1>5 DEF AddInvoiceJob, AddNotificationJob, DbFault
<1>6. CASE Return(p) \/ Throw(p) \/ Crash(p)
  BY <1>6 DEF Return, Throw, Crash
<1> QED
  BY <1>1, <1>2, <1>3, <1>4, <1>5, <1>6 DEF RunStep

LEMMA KnownStep ==
  ASSUME TypeOK, KnownInv, [Next]_vars
  PROVE  KnownInv'
<1>1. ASSUME NEW x \in Payments, CreatePaymentRow(x)
      PROVE  KnownInv'
  BY <1>1 DEF CreatePaymentRow, KnownInv, eventVars, jobVars, ingestVars, runVars
<1>2. ASSUME NEW h \in Handlers, HandlerStep(h) \/ HandlerFault(h) \/ HandlerCrash(h)
      PROVE  KnownInv'
  <2>1. hev[h] \in Events
    BY <1>2 DEF TypeOK, HandlerStep, FindEvent, CreateEvent, Enqueue, HandlerFault, HandlerCrash
  <2> QED BY <1>2, <2>1, KnownIngest
<1>3. ASSUME NEW h \in Handlers, NEW e \in Events, Deliver(h, e)
      PROVE  KnownInv'
  BY <1>3, KnownIngest
<1>4. ASSUME NEW p \in Procs, NEW e \in Events, StartJob(p, e) \/ ReprocessWebhook(p, e)
      PROVE  KnownInv'
  BY <1>4 DEF StartJob, ReprocessWebhook, TypeOK, KnownInv, eventVars, jobVars, ingestVars
<1>5. ASSUME NEW e \in Events, Evict(e)
      PROVE  KnownInv'
  BY <1>5 DEF Evict, TypeOK, KnownInv, eventVars, ingestVars, runVars
<1>6. ASSUME NEW p \in Procs, RunStep(p) \/ DbFault(p) \/ Crash(p)
      PROVE  KnownInv'
  BY <1>6, KnownRun
<1>7. CASE UNCHANGED vars
  BY <1>7 DEF vars, KnownInv
<1> QED
  BY <1>1, <1>2, <1>3, <1>4, <1>5, <1>6, <1>7 DEF Next, Procs

LEMMA KnownInvariant == Spec => []KnownInv
<1>1. Init => KnownInv
  BY DEF Init, KnownInv
<1>2. TypeOK /\ KnownInv /\ [Next]_vars => KnownInv'
  BY KnownStep
<1> QED
  BY <1>1, <1>2, TypeCorrect, PTL DEF Spec

\* A step that touches no ledger, no processed flag and stores no new event is
\* a stutter of the abstract specification.
LEMMA Stutters ==
  ASSUME UNCHANGED <<credits, dismissed, processed>>,
         \A e \in Events : status'[e] # "NONE" <=> status[e] # "NONE"
  PROVE  UNCHANGED Settlement!avars
BY DEF Settlement!avars

LEMMA IngestRefines ==
  ASSUME TypeOK, NEW h \in Handlers, HandlerStep(h)
  PROVE  [Settlement!ANext]_(Settlement!avars)
<1>1. CASE FindEvent(h) \/ Enqueue(h)
  BY <1>1, Stutters DEF FindEvent, Enqueue, eventVars
<1>2. CASE CreateEvent(h)
  <2>1. hev[h] \in Events
    BY <1>2 DEF TypeOK, CreateEvent
  <2>2. PICK d \in Events : d = hev[h]
    BY <2>1
  <2>3. Settlement!Learn(d)
    BY <1>2, <2>2 DEF CreateEvent, TypeOK, Settlement!Learn
  <2> QED
    BY <2>3 DEF Settlement!ANext
<1> QED
  BY <1>1, <1>2 DEF HandlerStep

LEMMA RunRefines ==
  ASSUME TypeOK, MoneyInv, KnownInv, NEW p \in Procs, RunStep(p)
  PROVE  [Settlement!ANext]_(Settlement!avars)
<1> USE DEF TypeOK, At
<1>1. CASE \/ LoadRecord(p) \/ ReadPayment(p) \/ WritePayment(p) \/ WriteOrder(p)
           \/ FindEntry(p) \/ AddInvoiceJob(p) \/ AddNotificationJob(p)
           \/ Return(p) \/ Throw(p)
  BY <1>1, Stutters
  DEF LoadRecord, ReadPayment, WritePayment, WriteOrder, FindEntry, AddInvoiceJob,
      AddNotificationJob, Return, Throw, eventVars
<1>2. CASE MarkProcessing(p)
  <2>1. \A e \in Events : status'[e] # "NONE" <=> status[e] # "NONE"
    BY <1>2 DEF MarkProcessing, KnownInv
  <2> QED
    BY <1>2, <2>1, Stutters DEF MarkProcessing
<1>3. CASE RecordFailure(p)
  <2>1. \A e \in Events : status'[e] # "NONE" <=> status[e] # "NONE"
    BY <1>3 DEF RecordFailure, KnownInv
  <2> QED
    BY <1>3, <2>1, Stutters DEF RecordFailure
<1>4. CASE FindPayment(p)
  <2>1. CASE UNCHANGED dismissed
    BY <1>4, <2>1, Stutters DEF FindPayment, eventVars
  <2>2. CASE dismissed' = dismissed \cup {ev[p]}
    <3>1. ev[p] \in Events /\ Settlement!Dismiss(ev[p])
      BY <1>4, <2>2 DEF FindPayment, KnownInv, eventVars, Settlement!Dismiss
    <3> QED
      BY <3>1 DEF Settlement!ANext
  <2> QED
    BY <1>4, <2>1, <2>2 DEF FindPayment
<1>5. CASE CreateEntry(p)
  <2>1. CASE credits[ev[p]] = 0
    <3>1. ev[p] \in Events /\ Settlement!Credit(ev[p])
      BY <1>5, <2>1 DEF CreateEntry, KnownInv, MoneyInv, StageInv, eventVars, Settlement!Credit
    <3> QED
      BY <3>1 DEF Settlement!ANext
  <2>2. CASE credits[ev[p]] # 0
    <3>1. UNCHANGED credits
      BY <1>5, <2>2 DEF CreateEntry
    <3> QED
      BY <1>5, <3>1, Stutters DEF CreateEntry, eventVars
  <2> QED
    BY <2>1, <2>2
<1>6. CASE MarkProcessed(p)
  <2>1. /\ ev[p] \in Events
        /\ \A e \in Events : status'[e] # "NONE" <=> status[e] # "NONE"
    BY <1>6 DEF MarkProcessed, KnownInv
  <2>2. PICK d \in Events : d = ev[p]
    BY <2>1
  <2>3. Settlement!Settle(d)
    BY <1>6, <2>1, <2>2 DEF MarkProcessed, KnownInv, MoneyInv, StageInv, Settlement!Settle
  <2> QED
    BY <2>3 DEF Settlement!ANext
<1> QED
  BY <1>1, <1>2, <1>3, <1>4, <1>5, <1>6 DEF RunStep

LEMMA StepRefines ==
  ASSUME TypeOK, MoneyInv, KnownInv, [Next]_vars
  PROVE  [Settlement!ANext]_(Settlement!avars)
<1>1. ASSUME NEW x \in Payments, CreatePaymentRow(x)
      PROVE  [Settlement!ANext]_(Settlement!avars)
  BY <1>1, Stutters DEF CreatePaymentRow, eventVars
<1>2. ASSUME NEW h \in Handlers,
             (\E e \in Events : Deliver(h, e)) \/ HandlerFault(h) \/ HandlerCrash(h)
      PROVE  [Settlement!ANext]_(Settlement!avars)
  BY <1>2, Stutters DEF Deliver, HandlerFault, HandlerCrash, eventVars
<1>3. ASSUME NEW h \in Handlers, HandlerStep(h)
      PROVE  [Settlement!ANext]_(Settlement!avars)
  BY <1>3, IngestRefines
<1>4. ASSUME NEW p \in Procs, NEW e \in Events, StartJob(p, e) \/ ReprocessWebhook(p, e)
      PROVE  [Settlement!ANext]_(Settlement!avars)
  BY <1>4, Stutters DEF StartJob, ReprocessWebhook, eventVars
<1>5. ASSUME NEW p \in Procs, DbFault(p) \/ Crash(p)
      PROVE  [Settlement!ANext]_(Settlement!avars)
  BY <1>5, Stutters DEF DbFault, Crash, eventVars
<1>6. ASSUME NEW p \in Procs, RunStep(p)
      PROVE  [Settlement!ANext]_(Settlement!avars)
  BY <1>6, RunRefines
<1>7. ASSUME NEW e \in Events, Evict(e)
      PROVE  [Settlement!ANext]_(Settlement!avars)
  BY <1>7, Stutters DEF Evict, eventVars
<1>8. CASE UNCHANGED vars
  BY <1>8, Stutters DEF vars
<1> QED
  BY <1>1, <1>2, <1>3, <1>4, <1>5, <1>6, <1>7, <1>8 DEF Next, Procs

\* The whole path, from HTTP delivery to ledger row, implements the abstract
\* promise: each success is credited at most once and settled only after it.
THEOREM PipelineImplementsSettlementOnce == Spec => ImplementsSettlementOnce
<1>1. Init => Settlement!AInit
  BY DEF Init, Settlement!AInit
<1>2. TypeOK /\ MoneyInv /\ KnownInv /\ [Next]_vars => [Settlement!ANext]_(Settlement!avars)
  BY StepRefines
<1> QED
  BY <1>1, <1>2, TypeCorrect, MoneyInvariant, KnownInvariant, PTL
  DEF Spec, ImplementsSettlementOnce, Settlement!ASpec

----------------------------------------------------------------------------
(* One worker per event.                                                    *)

WorkersInv ==
  /\ \A w \in Workers : pc[w] # "idle" => job[ev[w]] = "active"
  /\ OneWorkerPerEvent

\* Neither jobs nor places are touched, or only those of a run that stays busy.
LEMMA UnmovedWorkers ==
  ASSUME TypeOK, WorkersInv, UNCHANGED <<job, ev>>,
         \A q \in Procs : pc'[q] # "idle" => pc[q] # "idle"
  PROVE  WorkersInv'
BY DEF WorkersInv, OneWorkerPerEvent, Procs

\* The end of a run leaves the jobs of all other workers alone.
LEMMA EndWorkers ==
  ASSUME TypeOK, WorkersInv, NEW p \in Procs, pc[p] # "idle", EndRun(p),
         \A e \in Events : e # ev[p] \/ p \notin Workers => job'[e] = job[e]
  PROVE  WorkersInv'
<1>1. ASSUME NEW w \in Workers, pc'[w] # "idle"
      PROVE  w # p /\ pc[w] # "idle" /\ ev'[w] = ev[w] /\ ev[w] \in Events
  BY <1>1 DEF EndRun, TypeOK, Procs
<1>2. ASSUME NEW w \in Workers, pc'[w] # "idle"
      PROVE  job'[ev'[w]] = "active"
  BY <1>1, <1>2 DEF WorkersInv, OneWorkerPerEvent
<1> QED
  BY <1>1, <1>2 DEF WorkersInv, OneWorkerPerEvent

LEMMA WorkersInvariant == Spec => []WorkersInv
<1>1. Init => WorkersInv
  BY DEF Init, WorkersInv, OneWorkerPerEvent, Procs
<1>2. TypeOK /\ WorkersInv /\ [Next]_vars => WorkersInv'
  <2> SUFFICES ASSUME TypeOK, WorkersInv, [Next]_vars
               PROVE  WorkersInv'
    OBVIOUS
  <2>1. CASE UNCHANGED <<job, ev, pc>>
    BY <2>1, UnmovedWorkers
  <2>2. ASSUME NEW h \in Handlers, Enqueue(h)
        PROVE  WorkersInv'
    <3>1. \A e \in Events : job[e] = "active" => job'[e] = "active"
      BY <2>2 DEF Enqueue, AddJob, jobVars, TypeOK
    <3> QED
      BY <2>2, <3>1 DEF Enqueue, runVars, WorkersInv, OneWorkerPerEvent, TypeOK, Procs
  <2>3. ASSUME NEW w \in Workers, NEW e \in Events, StartJob(w, e)
        PROVE  WorkersInv'
    <3>1. \A v \in Workers : pc[v] # "idle" => ev[v] # e
      BY <2>3 DEF StartJob, WorkersInv
    <3>2. \A v \in Workers : v # w => pc'[v] = pc[v] /\ ev'[v] = ev[v]
      BY <2>3 DEF StartJob, TypeOK, Procs
    <3>3. ev'[w] = e /\ job' = [job EXCEPT ![e] = "active"]
      BY <2>3 DEF StartJob, TypeOK, Procs
    <3> QED
      BY <3>1, <3>2, <3>3 DEF WorkersInv, OneWorkerPerEvent, TypeOK, Procs
  <2>4. ASSUME NEW a \in Admins, NEW e \in Events, ReprocessWebhook(a, e)
        PROVE  WorkersInv'
    <3>1. \A v \in Workers : pc'[v] = pc[v] /\ ev'[v] = ev[v]
      BY <2>4, ConstantsAssumption DEF ReprocessWebhook, TypeOK, Procs
    <3> QED
      BY <2>4, <3>1 DEF ReprocessWebhook, jobVars, WorkersInv, OneWorkerPerEvent
  <2>5. ASSUME NEW e \in Events, Evict(e)
        PROVE  WorkersInv'
    BY <2>5 DEF Evict, runVars, WorkersInv, OneWorkerPerEvent, TypeOK, Procs
  <2>6. ASSUME NEW p \in Procs, Return(p) \/ Throw(p) \/ Crash(p)
        PROVE  WorkersInv'
    <3>1. /\ pc[p] # "idle" /\ EndRun(p)
          /\ \A e \in Events : e # ev[p] \/ p \notin Workers => job'[e] = job[e]
      BY <2>6 DEF Return, Throw, Crash, At, TypeOK
    <3> QED
      BY <3>1, EndWorkers
  <2>7. ASSUME NEW p \in Procs,
               \/ LoadRecord(p) \/ MarkProcessing(p) \/ FindPayment(p) \/ ReadPayment(p)
               \/ WritePayment(p) \/ WriteOrder(p) \/ FindEntry(p) \/ CreateEntry(p)
               \/ AddInvoiceJob(p) \/ AddNotificationJob(p) \/ MarkProcessed(p)
               \/ RecordFailure(p) \/ DbFault(p)
        PROVE  WorkersInv'
    <3>1. UNCHANGED <<job, ev>> /\ pc[p] # "idle" /\ \E s \in RunStage : Goto(p, s)
      BY <2>7
      DEF LoadRecord, MarkProcessing, FindPayment, ReadPayment, WritePayment, WriteOrder, FindEntry,
          CreateEntry, AddInvoiceJob, AddNotificationJob, MarkProcessed, RecordFailure, DbFault, At,
          Goto, AfterTransition, RunStage, jobVars, runVars
    <3>2. \A q \in Procs : pc'[q] # "idle" => pc[q] # "idle"
      BY <3>1 DEF Goto, TypeOK
    <3> QED
      BY <3>1, <3>2, UnmovedWorkers
  <2>8. ASSUME NEW x \in Payments, CreatePaymentRow(x)
        PROVE  WorkersInv'
    BY <2>1, <2>8 DEF CreatePaymentRow, jobVars, runVars
  <2>9. ASSUME NEW h \in Handlers,
               \/ \E e \in Events : Deliver(h, e)
               \/ FindEvent(h) \/ CreateEvent(h) \/ HandlerFault(h) \/ HandlerCrash(h)
        PROVE  WorkersInv'
    BY <2>1, <2>9 DEF Deliver, FindEvent, CreateEvent, HandlerFault, HandlerCrash, jobVars, runVars
  <2>10. CASE UNCHANGED vars
    BY <2>1, <2>10 DEF vars
  <2>11. ASSUME NEW p \in Procs, RunStep(p) \/ DbFault(p) \/ Crash(p)
         PROVE  WorkersInv'
    BY <2>6, <2>7, <2>11 DEF RunStep
  <2> QED
    BY <2>2, <2>3, <2>4, <2>5, <2>8, <2>9, <2>10, <2>11 DEF Next, HandlerStep
<1> QED
  BY <1>1, <1>2, TypeCorrect, PTL DEF Spec

\* The job id keeps two workers off one event, whatever is redelivered, stalled,
\* retried or evicted (webhook.queue.js addWebhookJob).
THEOREM WorkersKeepApart == Spec => []OneWorkerPerEvent
<1>1. WorkersInv => OneWorkerPerEvent
  BY DEF WorkersInv
<1> QED
  BY <1>1, WorkersInvariant, PTL

----------------------------------------------------------------------------
(* While nothing fails: no run of an event whose payment is reported one    *)
(* way only is refused, its order follows its payment, and it is attended   *)
(* to until it is PROCESSED.                                                *)

Calm == faults = 0 /\ crashes = 0

RunInv ==
  \A p \in Procs : pc[p] # "idle" /\ Unopposed(PaymentOf[ev[p]]) =>
    /\ pc[p] \notin {"recordFailure", "throw"}
    /\ pc[p] \in {"readPayment", "writePayment", "writeOrder"} =>
         Kind[ev[p]] # "OTHER" /\ payment[PaymentOf[ev[p]]] # "ABSENT"

PayInv ==
  \A e \in Events : Unopposed(PaymentOf[e]) =>
    \/ payment[PaymentOf[e]] \in {"ABSENT", "PENDING"}
    \/ Kind[e] # "OTHER" /\ payment[PaymentOf[e]] = Target(e)

OrderDue(x) == \E p \in Procs : pc[p] = "writeOrder" /\ PaymentOf[ev[p]] = x

OrderInv == \A x \in Payments : Unopposed(x) => OrderDue(x) \/ OrderMatchesPayment(x)

\* Stages of a run that has marked its event PROCESSING and goes on.
MidStages == {"find", "readPayment", "writePayment", "writeOrder", "findEntry", "createEntry",
              "addInvoice", "addNotification", "markProcessed"}

InHand(e) == \E p \in Procs : pc[p] \in MidStages /\ ev[p] = e

ToBeRun(e) ==
  \/ job[e] = "waiting"
  \/ \E p \in Procs : pc[p] \in {"load", "mark"} /\ ev[p] = e
  \/ job[e] = "none" /\ \E h \in Handlers : hpc[h] \in {"create", "enqueue"} /\ hev[h] = e

EventInv ==
  \A e \in Events : Unopposed(PaymentOf[e]) =>
    /\ status[e] \notin {"RETRYING", "DEAD_LETTER"}
    /\ status[e] = "PROCESSING" => InHand(e)
    /\ status[e] = "RECEIVED" => ToBeRun(e)

CalmInv == Calm => RunInv /\ PayInv /\ OrderInv /\ EventInv

\* Rows of payments and orders are only written by createPayment and transition().
LEMMA CalmPayments ==
  ASSUME TypeOK, MoneyInv, Calm, RunInv, PayInv, OrderInv, [Next]_vars, Calm'
  PROVE  RunInv' /\ PayInv' /\ OrderInv'
<1> USE ConstantsAssumption DEF TypeOK
<1>1. ASSUME NEW x \in Payments, CreatePaymentRow(x)
      PROVE  RunInv' /\ PayInv' /\ OrderInv'
  <2>1. payment' = [payment EXCEPT ![x] = "PENDING"] /\ order' = [order EXCEPT ![x] = "PENDING"]
        /\ UNCHANGED <<pc, ev>>
    BY <1>1 DEF CreatePaymentRow, runVars
  <2> QED
    BY <2>1 DEF RunInv, PayInv, OrderInv, OrderDue, OrderMatchesPayment
<1>2. CASE UNCHANGED <<payment, order, pc, ev>>
  BY <1>2 DEF RunInv, PayInv, OrderInv, OrderDue, OrderMatchesPayment
<1>3. ASSUME NEW p \in Procs, UNCHANGED <<payment, order>>, pc[p] # "writeOrder",
             pc'[p] \notin {"recordFailure", "throw"} \/ ~Unopposed(PaymentOf[ev'[p]]),
             pc'[p] \in {"readPayment", "writePayment", "writeOrder"} /\ Unopposed(PaymentOf[ev'[p]]) =>
               Kind[ev'[p]] # "OTHER" /\ payment[PaymentOf[ev'[p]]] # "ABSENT",
             \A q \in Procs : q # p => pc'[q] = pc[q] /\ ev'[q] = ev[q]
      PROVE  RunInv' /\ PayInv' /\ OrderInv'
  <2>1. RunInv' /\ PayInv'
    BY <1>3 DEF RunInv, PayInv
  <2>2. OrderInv'
    BY <1>3 DEF OrderInv, OrderDue, OrderMatchesPayment
  <2> QED
    BY <2>1, <2>2
<1>4. ASSUME NEW p \in Procs, NEW e \in Events, StartJob(p, e) \/ ReprocessWebhook(p, e)
      PROVE  RunInv' /\ PayInv' /\ OrderInv'
  BY <1>3, <1>4 DEF StartJob, ReprocessWebhook, paymentVars
<1>5. ASSUME NEW p \in Procs,
             \/ LoadRecord(p) \/ MarkProcessing(p) \/ FindPayment(p) \/ FindEntry(p) \/ CreateEntry(p)
             \/ AddInvoiceJob(p) \/ AddNotificationJob(p) \/ MarkProcessed(p) \/ Return(p) \/ Throw(p)
      PROVE  RunInv' /\ PayInv' /\ OrderInv'
  <2>1. UNCHANGED <<payment, order>> /\ pc[p] # "writeOrder"
    BY <1>5 DEF LoadRecord, MarkProcessing, FindPayment, FindEntry, CreateEntry, AddInvoiceJob,
                AddNotificationJob, MarkProcessed, Return, Throw, At, paymentVars
  <2>2. pc'[p] \notin {"recordFailure", "throw"}
    BY <1>5 DEF LoadRecord, MarkProcessing, FindPayment, FindEntry, CreateEntry, AddInvoiceJob,
                AddNotificationJob, MarkProcessed, Return, Throw, Goto, EndRun
  <2>3. pc'[p] \in {"readPayment", "writePayment", "writeOrder"} =>
          Kind[ev'[p]] # "OTHER" /\ payment[PaymentOf[ev'[p]]] # "ABSENT"
    BY <1>5 DEF LoadRecord, MarkProcessing, FindPayment, FindEntry, CreateEntry, AddInvoiceJob,
                AddNotificationJob, MarkProcessed, Return, Throw, Goto, EndRun, runVars
  <2>4. \A q \in Procs : q # p => pc'[q] = pc[q] /\ ev'[q] = ev[q]
    BY <1>5 DEF LoadRecord, MarkProcessing, FindPayment, FindEntry, CreateEntry, AddInvoiceJob,
                AddNotificationJob, MarkProcessed, Return, Throw, Goto, EndRun, runVars
  <2> QED
    BY <1>3, <2>1, <2>2, <2>3, <2>4
<1>6. ASSUME NEW p \in Procs, RecordFailure(p)
      PROVE  RunInv' /\ PayInv' /\ OrderInv'
  <2>1. ~Unopposed(PaymentOf[ev[p]])
    BY <1>6 DEF RecordFailure, At, RunInv
  <2> QED
    BY <1>3, <1>6, <2>1 DEF RecordFailure, At, Goto, runVars, paymentVars
<1>7. ASSUME NEW p \in Procs, ReadPayment(p)
      PROVE  RunInv' /\ PayInv' /\ OrderInv'
  <2>1. pc[p] = "readPayment" /\ ev[p] \in Events /\ UNCHANGED <<payment, order, ev>>
    BY <1>7 DEF ReadPayment, At, Goto, runVars, paymentVars
  <2>2. \A q \in Procs : q # p => pc'[q] = pc[q] /\ ev'[q] = ev[q]
    BY <1>7, <2>1 DEF ReadPayment, Goto
  <2>3. pc'[p] # "throw" /\ pc'[p] \notin {"readPayment", "writeOrder"}
    BY <1>7, <2>1 DEF ReadPayment, Goto, AfterTransition
  <2>4. Unopposed(PaymentOf[ev[p]]) => Kind[ev[p]] # "OTHER" /\ payment[PaymentOf[ev[p]]] # "ABSENT"
    BY <2>1 DEF RunInv
  <2>5. Unopposed(PaymentOf[ev[p]]) => pc'[p] # "recordFailure"
    <3> SUFFICES ASSUME Unopposed(PaymentOf[ev[p]]) PROVE pc'[p] # "recordFailure"
      OBVIOUS
    <3>1. payment[PaymentOf[ev[p]]] \in {"PENDING", Target(ev[p])}
      BY <2>1 DEF RunInv, PayInv
    <3>2. payment[PaymentOf[ev[p]]] = "PENDING" => CanTransition("PENDING", Target(ev[p]))
      BY DEF CanTransition, ALLOWED_TRANSITIONS, PaymentStatus, Target
    <3> QED
      BY <1>7, <2>1, <3>1, <3>2 DEF ReadPayment, Goto, AfterTransition
  <2> QED
    BY <1>3, <2>1, <2>2, <2>3, <2>4, <2>5
<1>8. ASSUME NEW p \in Procs, WritePayment(p)
      PROVE  RunInv' /\ PayInv' /\ OrderInv'
  <2> DEFINE x == PaymentOf[ev[p]]
  <2>1. /\ pc[p] = "writePayment" /\ ev[p] \in Events /\ x \in Payments
        /\ UNCHANGED <<order, ev>>
        /\ payment' = [payment EXCEPT ![x] = Target(ev[p])]
        /\ pc' = [pc EXCEPT ![p] = "writeOrder"]
    BY <1>8 DEF WritePayment, At, Goto, runVars
  <2>2. Target(ev[p]) # "ABSENT"
    BY DEF Target
  <2>3. RunInv'
    BY <2>1, <2>2 DEF RunInv
  <2>4. ASSUME NEW e \in Events, Unopposed(PaymentOf[e])
        PROVE  \/ payment'[PaymentOf[e]] \in {"ABSENT", "PENDING"}
               \/ Kind[e] # "OTHER" /\ payment'[PaymentOf[e]] = Target(e)
    <3>1. CASE PaymentOf[e] = x
      <4>1. Kind[e] = Kind[ev[p]] /\ Kind[ev[p]] # "OTHER"
        BY <2>1, <2>4, <3>1 DEF Unopposed, RunInv
      <4> QED
        BY <2>1, <3>1, <4>1 DEF Target
    <3>2. CASE PaymentOf[e] # x
      BY <2>1, <2>4, <3>2 DEF PayInv
    <3> QED
      BY <3>1, <3>2
  <2>5. OrderInv'
    <3> SUFFICES ASSUME NEW y \in Payments, Unopposed(y)
                 PROVE  OrderDue(y)' \/ OrderMatchesPayment(y)'
      BY DEF OrderInv
    <3>1. CASE y = x
      BY <2>1, <3>1 DEF OrderDue
    <3>2. CASE y # x
      BY <2>1, <3>2 DEF OrderInv, OrderDue, OrderMatchesPayment
    <3> QED
      BY <3>1, <3>2
  <2> QED
    BY <2>3, <2>4, <2>5 DEF PayInv
<1>9. ASSUME NEW p \in Procs, WriteOrder(p)
      PROVE  RunInv' /\ PayInv' /\ OrderInv'
  <2> DEFINE x == PaymentOf[ev[p]]
  <2>1. /\ pc[p] = "writeOrder" /\ ev[p] \in Events /\ x \in Payments
        /\ UNCHANGED <<payment, ev>>
        /\ order' = [order EXCEPT ![x] = SyncedOrder(Target(ev[p]), @)]
        /\ pc' = [pc EXCEPT ![p] = AfterTransition(ev[p])]
    BY <1>9 DEF WriteOrder, At, Goto, runVars
  <2>2. RunInv' /\ PayInv'
    BY <2>1 DEF RunInv, PayInv, AfterTransition
  <2>3. ASSUME Unopposed(x)
        PROVE  OrderMatchesPayment(x)'
    <3>1. payment[x] = Target(ev[p])
      BY <2>1, <2>3 DEF PayInv, MoneyInv, StageInv
    <3> QED
      BY <2>1, <3>1 DEF OrderMatchesPayment, SyncedOrder, Target
  <2>4. ASSUME NEW y \in Payments, y # x, Unopposed(y)
        PROVE  OrderDue(y)' \/ OrderMatchesPayment(y)'
    BY <2>1, <2>4 DEF OrderInv, OrderDue, OrderMatchesPayment
  <2> QED
    BY <2>1, <2>2, <2>3, <2>4 DEF OrderInv
<1>10. ASSUME NEW h \in Handlers,
              \/ \E e \in Events : Deliver(h, e)
              \/ HandlerStep(h) \/ HandlerFault(h) \/ HandlerCrash(h)
       PROVE  UNCHANGED <<payment, order, pc, ev>>
  BY <1>10 DEF Deliver, HandlerStep, FindEvent, CreateEvent, Enqueue, HandlerFault, HandlerCrash,
               paymentVars, runVars
<1>11. ASSUME NEW e \in Events, Evict(e)
       PROVE  UNCHANGED <<payment, order, pc, ev>>
  BY <1>11 DEF Evict, paymentVars, runVars
<1>12. ASSUME NEW p \in Procs, DbFault(p) \/ Crash(p)
       PROVE  FALSE
  BY <1>12 DEF DbFault, Crash, Calm
<1>13. CASE UNCHANGED vars
  BY <1>2, <1>13 DEF vars
<1> QED
  BY <1>1, <1>2, <1>4, <1>5, <1>6, <1>7, <1>8, <1>9, <1>10, <1>11, <1>12, <1>13 DEF Next, RunStep, Procs

\* Places and jobs of the other events are as they were.
Elsewhere(p) == \A q \in Procs : q # p => pc'[q] = pc[q] /\ ev'[q] = ev[q]

\* A run that goes on in hand leaves its event in hand.
LEMMA StaysInHand ==
  ASSUME TypeOK, EventInv, NEW p \in Procs, Elsewhere(p), UNCHANGED <<job, hpc, hev, status, ev>>,
         \/ pc[p] \in MidStages /\ pc'[p] \in MidStages
         \/ pc[p] \notin MidStages \cup {"load", "mark"}
         \/ pc[p] = "load" /\ (pc'[p] = "mark" \/ status[ev[p]] = "PROCESSED")
  PROVE  EventInv'
<1> USE DEF EventInv, TypeOK, Elsewhere
<1>1. ASSUME NEW e \in Events, InHand(e)
      PROVE  InHand(e)'
  BY <1>1 DEF InHand, MidStages
<1>2. ASSUME NEW e \in Events, ToBeRun(e), status[e] = "RECEIVED"
      PROVE  ToBeRun(e)'
  BY <1>2 DEF ToBeRun, MidStages
<1> QED
  BY <1>1, <1>2

\* What happens to an event with opposed reports is of no concern to others.
LEMMA OpposedEvents ==
  ASSUME TypeOK, EventInv, NEW p \in Procs, Elsewhere(p), UNCHANGED <<hpc, hev>>,
         ~Unopposed(PaymentOf[ev[p]]),
         \A e \in Events : e # ev[p] => status'[e] = status[e] /\ job'[e] = job[e]
  PROVE  EventInv'
BY DEF EventInv, TypeOK, Elsewhere, InHand, ToBeRun

\* Events are marked, run and queued without being dropped on the way.
LEMMA CalmEvents ==
  ASSUME TypeOK, KnownInv, WorkersInv, Calm, RunInv, RunInv', EventInv, [Next]_vars, Calm'
  PROVE  EventInv'
<1> USE ConstantsAssumption DEF TypeOK
<1>1. CASE UNCHANGED <<status, job, hpc, hev, pc, ev>>
  BY <1>1 DEF EventInv, InHand, ToBeRun
<1>2. ASSUME NEW h \in Handlers, \/ \E e \in Events : Deliver(h, e)
                              \/ FindEvent(h)
      PROVE  EventInv'
  <2>1. UNCHANGED <<status, job, pc, ev>>
    BY <1>2 DEF Deliver, FindEvent, eventVars, jobVars, runVars
  <2>2. \A g \in Handlers : hpc[g] \in {"create", "enqueue"} =>
          hpc'[g] = hpc[g] /\ hev'[g] = hev[g]
    BY <1>2 DEF Deliver, FindEvent, HandlerGoto
  <2> QED
    BY <2>1, <2>2 DEF EventInv, InHand, ToBeRun
<1>3. ASSUME NEW h \in Handlers, CreateEvent(h)
      PROVE  EventInv'
  <2>1. /\ UNCHANGED <<job, pc, ev, hev>> /\ hpc[h] = "create" /\ hev[h] \in Events
        /\ hpc' = [hpc EXCEPT ![h] = "enqueue"]
        /\ status' = [status EXCEPT ![hev[h]] = IF @ = "NONE" THEN "RECEIVED" ELSE @]
    BY <1>3 DEF CreateEvent, HandlerGoto, jobVars, runVars
  <2>2. \A e \in Events : status[e] = "NONE" => job[e] = "none"
    BY DEF KnownInv
  <2>3. \A e \in Events : InHand(e) => InHand(e)'
    BY <2>1 DEF InHand
  <2>4. \A e \in Events : ToBeRun(e) => ToBeRun(e)'
    BY <2>1 DEF ToBeRun
  <2>5. status[hev[h]] = "NONE" => ToBeRun(hev[h])'
    BY <2>1, <2>2 DEF ToBeRun
  <2> QED
    BY <2>1, <2>3, <2>4, <2>5 DEF EventInv
<1>4. ASSUME NEW h \in Handlers, Enqueue(h)
      PROVE  EventInv'
  <2>1. /\ UNCHANGED <<status, pc, ev>> /\ hpc[h] = "enqueue" /\ hev[h] \in Events
        /\ job' = IF job[hev[h]] = "none" THEN [job EXCEPT ![hev[h]] = "waiting"] ELSE job
        /\ \A g \in Handlers : g # h => hpc'[g] = hpc[g] /\ hev'[g] = hev[g]
    BY <1>4 DEF Enqueue, AddJob, HandlerGoto, eventVars, jobVars, runVars
  <2>2. \A e \in Events : InHand(e) => InHand(e)'
    BY <2>1 DEF InHand
  <2>3. \A e \in Events : ToBeRun(e) => ToBeRun(e)'
    BY <2>1 DEF ToBeRun
  <2> QED
    BY <2>1, <2>2, <2>3 DEF EventInv
<1>5. ASSUME NEW p \in Procs, NEW d \in Events, StartJob(p, d) \/ ReprocessWebhook(p, d)
      PROVE  EventInv'
  <2>1. /\ UNCHANGED <<status, hpc, hev>> /\ pc[p] = "idle" /\ Elsewhere(p)
        /\ pc'[p] = "load" /\ ev'[p] = d
        /\ \A e \in Events : e # d => job'[e] = job[e]
    BY <1>5 DEF StartJob, ReprocessWebhook, eventVars, jobVars, ingestVars, Elsewhere
  <2>2. \A e \in Events : InHand(e) => InHand(e)'
    BY <2>1 DEF InHand, Elsewhere, MidStages
  <2>3. \A e \in Events : ToBeRun(e) => ToBeRun(e)'
    BY <2>1 DEF ToBeRun, Elsewhere
  <2> QED
    BY <2>1, <2>2, <2>3 DEF EventInv
<1>6. ASSUME NEW d \in Events, Evict(d)
      PROVE  EventInv'
  <2>1. /\ UNCHANGED <<status, pc, ev, hpc, hev>> /\ job[d] \notin {"none", "waiting"}
        /\ \A e \in Events : e # d => job'[e] = job[e]
    BY <1>6 DEF Evict, eventVars, ingestVars, runVars
  <2> QED
    BY <2>1 DEF EventInv, InHand, ToBeRun
<1>7. ASSUME NEW p \in Procs, \/ LoadRecord(p) \/ FindPayment(p) \/ ReadPayment(p) \/ WritePayment(p)
                            \/ WriteOrder(p) \/ FindEntry(p) \/ CreateEntry(p) \/ AddInvoiceJob(p)
                            \/ AddNotificationJob(p)
      PROVE  EventInv'
  <2>1. UNCHANGED <<status, job, hpc, hev, ev>> /\ Elsewhere(p)
    BY <1>7 DEF LoadRecord, FindPayment, ReadPayment, WritePayment, WriteOrder, FindEntry, CreateEntry,
       AddInvoiceJob, AddNotificationJob, Goto, Elsewhere, eventVars, jobVars, ingestVars, runVars
  <2>2. CASE LoadRecord(p)
    BY <2>1, <2>2, StaysInHand DEF LoadRecord, At, Goto
  <2>3. CASE ~LoadRecord(p) /\ pc'[p] # "recordFailure"
    <3>1. pc[p] \in MidStages /\ pc'[p] \in MidStages
      BY <1>7, <2>3 DEF FindPayment, ReadPayment, WritePayment, WriteOrder, FindEntry, CreateEntry,
         AddInvoiceJob, AddNotificationJob, At, Goto, AfterTransition, MidStages
    <3> QED
      BY <2>1, <3>1, StaysInHand
  <2>4. CASE pc'[p] = "recordFailure"
    <3>1. ev'[p] = ev[p] /\ ~Unopposed(PaymentOf[ev[p]])
      BY <2>1, <2>4 DEF RunInv
    <3> QED
      BY <2>1, <3>1, OpposedEvents
  <2> QED
    BY <2>2, <2>3, <2>4
<1>8. ASSUME NEW p \in Procs, MarkProcessing(p)
      PROVE  EventInv'
  <2>1. /\ UNCHANGED <<job, hpc, hev, ev>> /\ Elsewhere(p) /\ ev[p] \in Events
        /\ pc[p] = "mark" /\ pc'[p] = "find"
        /\ status' = [status EXCEPT ![ev[p]] = "PROCESSING"]
    BY <1>8 DEF MarkProcessing, At, Goto, Elsewhere, jobVars, ingestVars, runVars
  <2>2. InHand(ev[p])'
    BY <2>1 DEF InHand, MidStages
  <2>3. \A e \in Events : e # ev[p] => (InHand(e) => InHand(e)') /\ (ToBeRun(e) => ToBeRun(e)')
    BY <2>1 DEF InHand, ToBeRun, Elsewhere, MidStages
  <2> QED
    BY <2>1, <2>2, <2>3 DEF EventInv
<1>9. ASSUME NEW p \in Procs, MarkProcessed(p)
      PROVE  EventInv'
  <2>1. /\ UNCHANGED <<job, hpc, hev, ev>> /\ Elsewhere(p) /\ ev[p] \in Events
        /\ pc[p] = "markProcessed"
        /\ status' = [status EXCEPT ![ev[p]] = "PROCESSED"]
    BY <1>9 DEF MarkProcessed, At, Goto, Elsewhere, jobVars, ingestVars, runVars
  <2>2. \A e \in Events : e # ev[p] => (InHand(e) => InHand(e)') /\ (ToBeRun(e) => ToBeRun(e)')
    BY <2>1 DEF InHand, ToBeRun, Elsewhere
  <2> QED
    BY <2>1, <2>2 DEF EventInv
<1>10. ASSUME NEW p \in Procs, RecordFailure(p) \/ Throw(p)
       PROVE  EventInv'
  <2>1. pc[p] \in {"recordFailure", "throw"} /\ ~Unopposed(PaymentOf[ev[p]]) /\ ev[p] \in Events
    BY <1>10 DEF RecordFailure, Throw, At, RunInv
  <2>2. /\ UNCHANGED <<hpc, hev>> /\ Elsewhere(p)
        /\ \A e \in Events : e # ev[p] => status'[e] = status[e] /\ job'[e] = job[e]
    BY <1>10 DEF RecordFailure, Throw, Goto, EndRun, Elsewhere, eventVars, jobVars, ingestVars, runVars
  <2> QED
    BY <2>1, <2>2, OpposedEvents
<1>11. ASSUME NEW p \in Procs, Return(p)
       PROVE  EventInv'
  <2>1. /\ UNCHANGED <<status, hpc, hev>> /\ Elsewhere(p) /\ ev[p] \in Events /\ pc[p] = "return"
        /\ \A e \in Events : e # ev[p] => job'[e] = job[e]
        /\ p \notin Workers => job' = job
    BY <1>11 DEF Return, At, EndRun, Elsewhere, eventVars, ingestVars
  <2>2. p \in Workers => job[ev[p]] = "active"
    BY <2>1 DEF WorkersInv
  <2>3. \A e \in Events : (InHand(e) => InHand(e)') /\ (ToBeRun(e) => ToBeRun(e)')
    BY <2>1, <2>2 DEF InHand, ToBeRun, Elsewhere, MidStages
  <2> QED
    BY <2>1, <2>3 DEF EventInv
<1>12. ASSUME NEW x \in Payments, CreatePaymentRow(x)
       PROVE  EventInv'
  BY <1>1, <1>12 DEF CreatePaymentRow, eventVars, jobVars, ingestVars, runVars
<1>13. ASSUME NEW p, HandlerFault(p) \/ HandlerCrash(p) \/ DbFault(p) \/ Crash(p)
       PROVE  FALSE
  BY <1>13 DEF HandlerFault, HandlerCrash, DbFault, Crash, Calm
<1>14. CASE UNCHANGED vars
  BY <1>1, <1>14 DEF vars
<1> QED
  BY <1>2, <1>3, <1>4, <1>5, <1>6, <1>7, <1>8, <1>9, <1>10, <1>11, <1>12, <1>13, <1>14
  DEF Next, HandlerStep, RunStep, Procs

LEMMA CalmInvariant == Spec => []CalmInv
<1>1. Init => CalmInv
  BY ConstantsAssumption DEF Init, CalmInv, RunInv, PayInv, OrderInv, OrderMatchesPayment, EventInv
<1>2. TypeOK /\ MoneyInv /\ KnownInv /\ WorkersInv /\ CalmInv /\ [Next]_vars => CalmInv'
  <2> SUFFICES ASSUME TypeOK, MoneyInv, KnownInv, WorkersInv, CalmInv, [Next]_vars, Calm'
               PROVE  (RunInv /\ PayInv /\ OrderInv /\ EventInv)'
    BY DEF CalmInv
  <2>1. faults' >= faults /\ crashes' >= crashes
    BY DEF Next, vars, bounds, CreatePaymentRow, Deliver, HandlerStep, FindEvent, CreateEvent, Enqueue,
       HandlerFault, HandlerCrash, StartJob, ReprocessWebhook, RunStep, LoadRecord, MarkProcessing,
       FindPayment, ReadPayment, WritePayment, WriteOrder, FindEntry, CreateEntry, AddInvoiceJob,
       AddNotificationJob, MarkProcessed, RecordFailure, Return, Throw, DbFault, Crash, Evict, TypeOK
  <2>2. Calm
    BY <2>1 DEF Calm, TypeOK
  <2>3. RunInv' /\ PayInv' /\ OrderInv'
    BY <2>2, CalmPayments DEF CalmInv
  <2>4. EventInv'
    BY <2>2, <2>3, CalmEvents DEF CalmInv
  <2> QED
    BY <2>3, <2>4
<1> QED
  BY <1>1, <1>2, TypeCorrect, MoneyInvariant, KnownInvariant, WorkersInvariant, PTL DEF Spec

\* While nothing fails, every order agrees with its payment between transitions,
\* unless the payment is reported both ways (paymentStateMachine.js transition).
THEOREM OrdersKeepInStep == Spec => []OrderInStep
<1>1. CalmInv => OrderInStep
  BY DEF CalmInv, Calm, OrderInStep, OrderInv, OrderDue, InTransition
<1> QED
  BY <1>1, CalmInvariant, PTL

\* While nothing fails, no stored event is dropped before it is PROCESSED
\* (webhook.service.js, webhook.queue.js, webhook.worker.js).
THEOREM NoneIsUnattended == Spec => []UnattendedNeedsFailure
<1>1. TypeOK /\ CalmInv => UnattendedNeedsFailure
  BY DEF TypeOK, WebhookEventStatus, CalmInv, Calm, EventInv, InHand, ToBeRun, MidStages,
         UnattendedNeedsFailure, Attended
<1> QED
  BY <1>1, CalmInvariant, TypeCorrect, PTL
=============================================================================
