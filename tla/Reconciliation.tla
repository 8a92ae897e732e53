--------------------------- MODULE Reconciliation ---------------------------
(***************************************************************************)
(* A reconciliation job, which compares a snapshot of the recent payments  *)
(* with what the gateways answer, one payment after the other and one      *)
(* gateway after the other, while payments move on both sides; and the     *)
(* administrators who resolve the records it files.  Payments are numbered *)
(* in the order of their rows' creation and all lie in the lookback window.*)
(*                                                                         *)
(* Nothing in src/ submits the job: docs/reconciliation.md:56 leaves that  *)
(* to an administrator.  Amount and currency are never changed after a     *)
(* payment is created, on either side, so a difference is one of status.   *)
(* Every row is created with a gateway reference (payment.service.js:145). *)
(***************************************************************************)
EXTENDS PaymentStateMachine, Integers, FiniteSets, Sequences

CONSTANTS
  Payments,                \* a set of numbers
  GatewayOf,               \* the gateway of each payment
  Old,                     \* the payments that are there when the model starts
  Asked,                   \* the gateway the job names, "ALL" if it names none
  Limit,                   \* how many payments a run looks at: 100
  Admins,
  MaxAttempts,             \* of the job: 3
  MaxStalls,               \* how often BullMQ restarts a stalled job
  MaxMoves, MaxFaults, MaxCrashes  \* bounds of the model

Gateways == {"STRIPE", "CASHFREE"}

ASSUME ReconciliationAssumption ==
  /\ Payments \subseteq Nat /\ IsFiniteSet(Payments)
  /\ GatewayOf \in [Payments -> Gateways] /\ Old \subseteq Payments
  /\ Asked \in Gateways \cup {"ALL"}
  /\ Limit \in Nat /\ MaxAttempts \in Nat \ {0}
  /\ MaxStalls \in Nat /\ MaxMoves \in Nat /\ MaxFaults \in Nat /\ MaxCrashes \in Nat

VARIABLES
  status,                  \* of each payment's row, "ABSENT" before there is one
  remote,                  \* the gateway's own status of each payment
  declined,                \* payments of which Stripe has reported a failure
  job, attempts, stalls,   \* the job in the queue
  pc,                      \* stage of the worker
  gateway,                 \* the gateway it is at
  todo, read,              \* the payments still to compare, and their status when selected
  answer,                  \* the gateway's answer on the first of them
  records,                 \* ReconciliationRecord rows
  auditLog,                \* <<administrator, record>> pairs
  admin,                   \* stage and record of each administrator
  moves, faults, crashes,
  flagged,                 \* history: payments this attempt has filed a record of
  lasting,                 \* history: payments that differ since the attempt began
  differed                 \* history: payments that have differed since the selection

paymentVars == <<status, remote, declined, moves>>
jobVars == <<job, attempts, stalls>>
adminVars == <<auditLog, admin>>
historyVars == <<lasting, differed>>
vars == <<paymentVars, jobVars, pc, gateway, todo, read, answer, records, adminVars,
          faults, crashes, flagged, historyVars>>

StripeStatus == {"requires_payment_method", "requires_confirmation", "requires_action",
                 "processing", "requires_capture", "succeeded", "canceled"}
CashfreeStatus == {"ACTIVE", "PAID", "EXPIRED", "TERMINATED"}

\* mapPaymentStatus() of the two adapters.
Mapped(s) ==
  CASE s \in {"succeeded", "PAID"}                  -> "SUCCESS"
    [] s \in {"canceled", "EXPIRED", "TERMINATED"}  -> "FAILED"
    [] OTHER                                        -> "PENDING"

Stored == {p \in Payments : status[p] # "ABSENT"}
Of(g) == {p \in Payments : GatewayOf[p] = g}

Newer(p) == {q \in Stored : GatewayOf[q] = GatewayOf[p] /\ q > p}

\* The selection: newest first, and no more than Limit of them.
Selected(g) == {p \in Stored \cap Of(g) : Cardinality(Newer(p)) < Limit}

First(p) == p \in todo /\ \A q \in todo : q <= p

FirstGateway == IF Asked = "ALL" THEN "STRIPE" ELSE Asked

Differs(p) == status[p] # "ABSENT" /\ status[p] # Mapped(remote[p])

\* After a move of payments the histories follow the difference it leaves.
Observe ==
  /\ lasting' = {p \in lasting : Differs(p)'}
  /\ differed' = differed \cup {p \in Payments : Differs(p)'}

Init ==
  /\ status = [p \in Payments |-> IF p \in Old THEN "PENDING" ELSE "ABSENT"]
  /\ remote = [p \in Payments |-> IF GatewayOf[p] = "STRIPE" THEN "requires_payment_method" ELSE "ACTIVE"]
  /\ declined = {}
  /\ job = "waiting" /\ attempts = 0 /\ stalls = 0
  /\ pc = "idle" /\ gateway = FirstGateway
  /\ todo = {} /\ read = [p \in Payments |-> "ABSENT"] /\ answer = "none"
  /\ records = <<>> /\ auditLog = {}
  /\ admin = [a \in Admins |-> [stage |-> "idle", record |-> 0]]
  /\ moves = 0 /\ faults = 0 /\ crashes = 0
  /\ flagged = {} /\ lasting = {} /\ differed = {}

----------------------------------------------------------------------------
(* The payments.  The webhook path and refunds write a status that follows *)
(* from one they read earlier (WebhookPipeline, Refunds); here they write  *)
(* whenever the gateway has reported what they write.                      *)

Others ==
  /\ Observe
  /\ UNCHANGED <<jobVars, pc, gateway, todo, read, answer, records, adminVars, faults, crashes, flagged>>

PaymentMoves == moves < MaxMoves /\ moves' = moves + 1 /\ Others

CreatePayment(p) ==
  /\ status[p] = "ABSENT" /\ \A q \in Stored : q < p
  /\ status' = [status EXCEPT ![p] = "PENDING"]
  /\ UNCHANGED <<remote, declined, moves>>
  /\ Others

\* The customer pays, the payment is cancelled or the order runs out.
RemoteMoves(p) ==
  /\ p \in Stored
  /\ \/ /\ remote[p] = "requires_payment_method"
        /\ remote' \in {[remote EXCEPT ![p] = s] : s \in {"succeeded", "canceled"}}
     \/ /\ remote[p] = "ACTIVE"
        /\ remote' \in {[remote EXCEPT ![p] = s] : s \in {"PAID", "EXPIRED"}}
  /\ UNCHANGED <<status, declined>>
  /\ PaymentMoves

\* An attempt to pay fails: Stripe says so and waits for another.
Decline(p) ==
  /\ p \in Stored /\ remote[p] = "requires_payment_method" /\ p \notin declined
  /\ declined' = declined \cup {p}
  /\ UNCHANGED <<status, remote>>
  /\ PaymentMoves

\* No route leads Cashfree's events in.
StripeEvent(p) ==
  /\ p \in Stored
  /\ \/ remote[p] = "succeeded" /\ status' = [status EXCEPT ![p] = "SUCCESS"]
     \/ p \in declined /\ status' = [status EXCEPT ![p] = "FAILED"]
  /\ UNCHANGED <<remote, declined>>
  /\ PaymentMoves

Refund(p) ==
  /\ p \in Stored /\ remote[p] = "succeeded"
  /\ status' \in {[status EXCEPT ![p] = s] : s \in {"PARTIALLY_REFUNDED", "REFUNDED"}}
  /\ UNCHANGED <<remote, declined>>
  /\ PaymentMoves

----------------------------------------------------------------------------
(* The job.                                                                *)

TakeJob ==
  /\ job = "waiting" /\ job' = "active"
  /\ pc' = "select" /\ gateway' = FirstGateway
  /\ flagged' = {} /\ lasting' = {p \in Payments : Differs(p)}
  /\ UNCHANGED <<paymentVars, attempts, stalls, todo, read, answer, records, adminVars,
                 faults, crashes, differed>>

SelectPayments ==
  /\ pc = "select"
  /\ todo' = Selected(gateway)
  /\ read' = [p \in Payments |-> IF p \in todo' THEN status[p] ELSE "ABSENT"]
  /\ pc' = "query" /\ differed' = {p \in Payments : Differs(p)}
  /\ UNCHANGED <<paymentVars, jobVars, gateway, answer, records, adminVars, faults, crashes, flagged, lasting>>

\* p is done with; the loop goes on.
Tick(p) == todo' = todo \ {p} /\ pc' = "query" /\ read' = [read EXCEPT ![p] = "ABSENT"] /\ answer' = "none"

Record == [payment : Payments, status : {"MISMATCH", "MANUAL_REVIEW", "RESOLVED"},
           resolvedBy : Admins \cup {"nobody"}]

\* Faulty variant: an intent that waits for another card counts as failed.
QueryDeclined(p) ==
  /\ pc = "query" /\ First(p)
  /\ IF Mapped(remote[p]) = read[p] /\ p \notin declined
       THEN Tick(p)
       ELSE answer' = "FAILED" /\ pc' = "save" /\ UNCHANGED <<todo, read>>
  /\ UNCHANGED <<paymentVars, jobVars, gateway, records, adminVars, faults, crashes, flagged, historyVars>>

\* getPayment() and the comparison with the status read at the selection.
QueryGateway(p) ==
  /\ pc = "query" /\ First(p)
  /\ IF Mapped(remote[p]) = read[p]
       THEN Tick(p)
       ELSE answer' = Mapped(remote[p]) /\ pc' = "save" /\ UNCHANGED <<todo, read>>
  /\ UNCHANGED <<paymentVars, jobVars, gateway, records, adminVars, faults, crashes, flagged, historyVars>>

\* Faulty variant: a payment that cannot be asked about is skipped.
QuerySkips(p) ==
  /\ pc = "query" /\ First(p)
  /\ Tick(p)
  /\ UNCHANGED <<paymentVars, jobVars, gateway, records, adminVars, faults, crashes, flagged, historyVars>>

\* The gateway fails, or does not know the reference.
QueryFails(p) ==
  /\ pc = "query" /\ First(p)
  /\ answer' = "QUERY_FAILED" /\ pc' = "review"
  /\ UNCHANGED <<paymentVars, jobVars, gateway, todo, read, records, adminVars, faults, crashes, flagged, historyVars>>

File(p, s) ==
  /\ records' = Append(records, [payment |-> p, status |-> s, resolvedBy |-> "nobody"])
  /\ flagged' = flagged \cup {p}

\* Faulty variant: the catch block is run as well.
SaveTwice(p) ==
  /\ pc = "save" /\ First(p)
  /\ File(p, "MISMATCH") /\ pc' = "review"
  /\ UNCHANGED <<paymentVars, jobVars, gateway, todo, read, answer, adminVars, faults, crashes, historyVars>>

SaveMismatch(p) ==
  /\ pc = "save" /\ First(p)
  /\ File(p, "MISMATCH") /\ Tick(p)
  /\ UNCHANGED <<paymentVars, jobVars, gateway, adminVars, faults, crashes, historyVars>>

SaveReview(p) ==
  /\ pc = "review" /\ First(p)
  /\ File(p, "MANUAL_REVIEW") /\ Tick(p)
  /\ UNCHANGED <<paymentVars, jobVars, gateway, adminVars, faults, crashes, historyVars>>

\* The next gateway, or the end of the job.
FinishGateway ==
  /\ pc = "query" /\ todo = {}
  /\ \/ /\ Asked = "ALL" /\ gateway = "STRIPE"
        /\ pc' = "select" /\ gateway' = "CASHFREE" /\ UNCHANGED job
     \/ /\ ~(Asked = "ALL" /\ gateway = "STRIPE")
        /\ pc' = "idle" /\ job' = "completed" /\ UNCHANGED gateway
  /\ UNCHANGED <<paymentVars, attempts, stalls, todo, read, answer, records, adminVars,
                 faults, crashes, flagged, historyVars>>

----------------------------------------------------------------------------
(* What goes wrong.                                                        *)

Failing == faults < MaxFaults /\ faults' = faults + 1

\* Creating the record fails, before or after the row was written: the catch
\* block files another one.
SaveFails(p) ==
  /\ pc = "save" /\ First(p)
  /\ Failing
  /\ pc' = "review" /\ answer' = "QUERY_FAILED"
  /\ \/ UNCHANGED <<records, flagged>>
     \/ File(p, "MISMATCH")
  /\ UNCHANGED <<paymentVars, jobVars, gateway, todo, read, adminVars, crashes, historyVars>>

\* Faulty variant: the list of payments outlives the attempt.
ForgetLittle == UNCHANGED <<todo, read, answer>> /\ pc' = "idle"

\* What the job holds in memory is gone.
Forget == todo' = {} /\ read' = [p \in Payments |-> "ABSENT"] /\ answer' = "none" /\ pc' = "idle"

\* Faulty variant: the job fails for good.
ThrowForGood ==
  /\ \/ pc = "select" /\ UNCHANGED <<records, flagged>>
     \/ pc = "review" /\ \E p \in todo : First(p) /\ (UNCHANGED <<records, flagged>> \/ File(p, "MANUAL_REVIEW"))
  /\ Failing /\ Forget
  /\ attempts' = attempts + 1 /\ job' = "failed"
  /\ UNCHANGED <<paymentVars, stalls, gateway, adminVars, crashes, historyVars>>

\* The selection or the second record fails: the attempt is over.
Throw ==
  /\ \/ pc = "select" /\ UNCHANGED <<records, flagged>>
     \/ pc = "review" /\ \E p \in todo : First(p) /\ (UNCHANGED <<records, flagged>> \/ File(p, "MANUAL_REVIEW"))
  /\ Failing /\ Forget
  /\ attempts' = attempts + 1
  /\ job' = IF attempts + 1 < MaxAttempts THEN "waiting" ELSE "failed"
  /\ UNCHANGED <<paymentVars, stalls, gateway, adminVars, crashes, historyVars>>

Crash ==
  /\ pc # "idle" /\ crashes < MaxCrashes
  /\ crashes' = crashes + 1 /\ Forget
  /\ stalls' = stalls + 1
  /\ job' = IF stalls < MaxStalls THEN "waiting" ELSE "failed"
  /\ UNCHANGED <<paymentVars, attempts, gateway, records, adminVars, faults, flagged, historyVars>>

----------------------------------------------------------------------------
(* resolveDiscrepancy(): any record, a resolved one as well.               *)

AdminStep == UNCHANGED <<paymentVars, jobVars, pc, gateway, todo, read, answer, crashes, flagged, historyVars>>
Overwrite(a, i) ==
  records' = [records EXCEPT ![i] = [payment |-> @.payment, status |-> "RESOLVED", resolvedBy |-> a]]

\* Faulty variant: the audit entry is left out.
ResolveUnlogged(a, i) ==
  /\ admin[a].stage = "idle"
  /\ Overwrite(a, i)
  /\ admin' = [admin EXCEPT ![a] = [stage |-> "done", record |-> 0]]
  /\ UNCHANGED <<auditLog, faults>> /\ AdminStep

\* findById() and the update; records are never deleted, so the reading is never stale.
Resolve(a, i) ==
  /\ admin[a].stage = "idle"
  /\ Overwrite(a, i)
  /\ admin' = [admin EXCEPT ![a] = [stage |-> "audit", record |-> i]]
  /\ UNCHANGED <<auditLog, faults>> /\ AdminStep

EndRequest(a) ==
  /\ admin[a].stage = "audit"
  /\ admin' = [admin EXCEPT ![a] = [stage |-> "done", record |-> 0]]

Audit(a) ==
  /\ EndRequest(a)
  /\ auditLog' = auditLog \cup {<<a, admin[a].record>>}
  /\ UNCHANGED <<records, faults>> /\ AdminStep

\* The audit fails, which is only logged, or the update's answer is lost, or the process
\* dies between the two: the record is resolved all the same.
AuditFails(a) ==
  /\ EndRequest(a)
  /\ Failing
  /\ UNCHANGED <<records, auditLog>> /\ AdminStep

----------------------------------------------------------------------------
JobStep ==
  \/ TakeJob \/ SelectPayments \/ FinishGateway
  \/ \E p \in Payments : QueryGateway(p) \/ QueryFails(p) \/ SaveMismatch(p) \/ SaveReview(p)

Next ==
  \/ JobStep \/ Throw \/ Crash
  \/ \E p \in Payments :
       \/ CreatePayment(p) \/ RemoteMoves(p) \/ Decline(p) \/ StripeEvent(p) \/ Refund(p)
       \/ SaveFails(p)
  \/ \E a \in Admins :
       \/ \E i \in DOMAIN records : Resolve(a, i)
       \/ Audit(a) \/ AuditFails(a)

Spec == Init /\ [][Next]_vars

\* The one worker takes the job and Node goes on with what it has started.
FairSpec == Spec /\ WF_vars(JobStep)

----------------------------------------------------------------------------
TypeOK ==
  /\ status \in [Payments -> PaymentStatus]
  /\ remote \in [Payments -> StripeStatus \cup CashfreeStatus]
  /\ declined \subseteq Payments
  /\ gateway \in Gateways
  /\ job \in {"waiting", "active", "completed", "failed"}
  /\ attempts \in 0..MaxAttempts /\ (attempts = MaxAttempts => job = "failed")
  /\ stalls \in Nat
  /\ pc \in {"idle", "select", "query", "save", "review"}
  /\ (job = "active") = (pc # "idle")
  /\ todo \subseteq Of(gateway) /\ (pc \in {"idle", "select"} => todo = {})
  /\ read \in [Payments -> PaymentStatus]
  /\ answer \in {"none", "QUERY_FAILED"} \cup PaymentStatus
  /\ records \in Seq(Record)
  /\ auditLog \subseteq Admins \X (DOMAIN records)
  /\ admin \in [Admins -> [stage : {"idle", "audit", "done"}, record : {0} \cup DOMAIN records]]
  /\ \A a \in Admins : admin[a].stage = "audit" => admin[a].record \in DOMAIN records
  /\ moves \in Nat /\ faults \in Nat /\ crashes \in Nat
  /\ flagged \subseteq Payments /\ lasting \subseteq Payments /\ differed \subseteq Payments

\* A completed job has flagged every payment of its gateways that differed all
\* the time it ran, however payments moved and calls failed, unless Limit newer
\* ones kept it out (reconciliation.service.js:17, worker:24).
NothingOverlooked ==
  job = "completed" =>
    \A p \in lasting : Asked \in {"ALL", GatewayOf[p]} /\ Cardinality(Newer(p)) < Limit => p \in flagged

\* What is about to be filed as a mismatch was a difference at some moment since
\* the selection: a payment that moves on both sides during the run is reported
\* late, never wrongly (reconciliation.service.js:60).
AlarmWasTrue == pc = "save" => \A p \in todo : First(p) => p \in differed

\* A payment has more than one record of the job only as often as calls failed
\* or the worker died (reconciliation.service.js:71 and :109).
DuplicatesArePaidFor ==
  \A p \in Payments : Cardinality({i \in DOMAIN records : records[i].payment = p}) <= 1 + faults + crashes

Unaudited ==
  {i \in DOMAIN records :
     /\ records[i].status = "RESOLVED"
     /\ <<records[i].resolvedBy, i>> \notin auditLog
     /\ \A a \in Admins :
          ~(a = records[i].resolvedBy /\ admin[a].stage = "audit" /\ admin[a].record = i)}

\* A record's last resolution is without its audit entry, there or on its way, only
\* as often as the audit fails or the process dies before it; administrators who
\* overwrite each other's resolutions lose no entry (reconciliation.service.js:162).
\* docs/reconciliation.md:82 promises an entry for every resolution and the code does
\* not keep that: a failed audit is logged and the resolution stands (audit.service.js:47).
UnauditedIsPaidFor == Cardinality(Unaudited) <= faults

\* Fewer failing calls than attempts, and no more crashes than stalls are
\* forgiven, do not keep a job from being completed.
TransientFaultsReconciled == <>(job = "completed")
=============================================================================
