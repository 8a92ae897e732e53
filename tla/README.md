# Verification of the multi-gateway payment backend

TLA+ models of the backend's transactional core, TLC runs over small instances
of them and TLAPS proofs for every instance. Paths are relative to the
repository; `src/` there is the Node program.

## 1. The system

An Express program (`src/server.js`, `src/app.js`) in front of PostgreSQL
(Prisma), Redis (BullMQ queues, consumed by workers of the same program) and two
payment gateways (Stripe, Cashfree). Node runs synchronous code without
interruption; between two awaited calls any other request or job may run, on
this or on another instance of the program. Most multi-step operations use no
database transaction: what protects them are unique columns, job ids and checks
of state that was read earlier.

| Component | State | Operations | Talks to | Hard behaviour |
| --- | --- | --- | --- | --- |
| Webhook ingestion (`webhook.service.js`, `webhook.repository.js`) | `WebhookEvent` rows, unique (gateway, eventId) | handleStripeWebhook: find, create, enqueue, answer 200 | gateway, webhook queue | duplicate deliveries at once; enqueue fails after the row is stored |
| Webhook queue (`webhook.queue.js`, `queue.config.js`) | BullMQ jobs, id = gateway:eventId | add, retry with backoff, stall, evict | worker | job id reuse, attempts, stalled jobs |
| Webhook worker (`webhook.worker.js`) | event status, attempts | processWebhookJob: payment, order, ledger, downstream jobs, status | state machine, ledger, queues | retries after any step, dead workers, manual reprocessing beside a worker |
| Payment state machine (`paymentStateMachine.js`) | `Payment.status`, `Order.status` | transition(): read, check, write payment, write order | its callers | check-then-write, crash between the writes |
| Ledger (`ledger.service.js`, `ledger.repository.js`) | append-only entries, unique idempotencyRef | recordPaymentCredit, recordRefundDebit | worker, refunds | find-then-create races |
| Administration (`admin.controller.js`) | none of its own | reprocessWebhook, queries, resolution | worker code | runs outside the queue |
| Payment creation (`payment.service.js`) | `Order`, `Payment` rows, the gateway's payment | createPayment with compensation | gateway, idempotency | two fault domains, lost answers |
| Request idempotency (`idempotency.middleware.js`, `idempotency.repository.js`) | `IdempotencyKey` rows, unique (user, key) | reserve, replay, reject, reset, complete, fail | payment creation | concurrent retries, expiry, an update nobody waits for |
| Refunds (`refund.service.js`) | `Refund` rows, the gateway's refund | createRefund | Stripe, state machine, ledger | totals read before two remote calls, save failing after the refund |
| Invoices (`invoice.service.js`, `invoice.worker.js`, `invoicePdf.js`) | `Invoice` rows (unique order, unique number), PDF files, mails sent | createInvoice: find or create the row, write the PDF, save its URL, send the mail; the queue's job calls it as well | PDF, mail, webhook worker | a job beside a request, half-made invoices, clean-up by file name |
| Notifications (`notification.*.js`) | none | sendInvoice and the notification worker | mail | errors that are swallowed |
| Reconciliation (`reconciliation.service.js`, `reconciliation.worker.js`) | `ReconciliationRecord` rows, a snapshot of payments | runReconciliation: select, query, compare, file; resolveDiscrepancy | gateways, audit log, administrators | payments that move during the run, the limit of a run, retries that file again |
| Gateway adapters | none | create, get, cancel, refund; status tables | gateways | lost answers, two status vocabularies |
| Audit log (`audit.service.js`) | append-only entries | log | its callers | errors that are swallowed |
| Process life (`server.js`, `config/redis.js`, `workers/index.js`) | HTTP server, Redis client, workers, forced-exit timer | startServer, graceful shutdown, crash handlers | everything that waits for Redis or the database | signals and crashes that overlap each other, start-up and an outage |
| Authentication, documents, routing, payment queue | mostly none | see PROJECT.json | | |

What makes them correct: an event is credited at most once and never marked
processed without its effect; a payment follows its transition table and its
order follows the payment; downstream jobs follow the credit; queued events
settle; a key creates one payment, and a client is told only of payments that
exist; refunds never exceed the payment and are all recorded; an order has one
invoice, whose URL leads to its file, and one mail; a lasting discrepancy is
flagged, and nothing is flagged as a mismatch that never was one; a webhook that comes
late does not undo a refund; stopping the process spares jobs and answered requests,
and ends.

## 2. Modules

| Module | Models | Used by |
| --- | --- | --- |
| `PaymentStateMachine` | status sets, `ALLOWED_TRANSITIONS`, `CanTransition`, the order status `transition()` writes | all component modules |
| `WebhookPipeline` | the path of an event from delivery to its effects, call by call | `MCWebhookPipeline`, proofs |
| `SettlementOnce` | abstract: what the path promises about money | refined by `WebhookPipeline` |
| `WebhookPipelineProofs` | theorems about `WebhookPipeline` | |
| `IdempotentPayments` | the idempotency middleware around createPayment() | `MCIdempotentPayments`, proofs |
| `ConfirmedPayments` | abstract: what creating payments under keys promises | refined by `IdempotentPayments` |
| `IdempotentPaymentsProofs` | theorems about `IdempotentPayments` | |
| `RefundAmounts`, `RefundAmountsProofs` | the sum of refunds, and lemmas about it | `Refunds`, `SettlementAndRefunds`, proofs |
| `Refunds` | createRefund(), with Stripe, the transition and the debit | `MCRefunds`, proofs |
| `RefundsProofs` | theorems about `Refunds` | |
| `Invoices` | createInvoice(), called by the queue's job and by requests, with row, file and mail | `MCInvoices`, proofs |
| `InvoicesProofs` | theorems about `Invoices` | |
| `Reconciliation` | the reconciliation job, the payments it looks at and the administrators who resolve | `MCReconciliation`, proofs |
| `ReconciliationProofs` | theorems about `Reconciliation` | |
| `SettlementAndRefunds` | `WebhookPipeline` and `Refunds` on the same payment and order rows | `MCSettlementAndRefunds`, proofs |
| `SettlementAndRefundsProofs` | theorems about `SettlementAndRefunds` | |
| `ServerLifecycle` | the process from start-up to exit, with its Redis clients and workers | itself, proofs |
| `ServerLifecycleProofs` | theorems about `ServerLifecycle` | |
| `MC*` | constants and symmetry for TLC | the `.cfg` files |

### WebhookPipeline and the code

* A handler is `handleStripeWebhook()` (its gateway-neutral twin has the same
  steps): `Deliver`, `FindEvent` (find), `CreateEvent` (insert; the repository
  turns a unique violation into the stored row, so the loser of the race also
  enqueues), `Enqueue`. `HandlerFault` is any of these calls failing,
  `HandlerCrash` the process dying. `addWebhookJob()` swallows a failed add.
* `processWebhookJob()` is one process per run: a worker slot that took a job
  (`StartJob`) or an administrator's request (`ReprocessWebhook`), which passes
  the row's `attempts` as `attemptsMade`. `LoadRecord`, `MarkProcessing`,
  `FindPayment`, then `transition()` as `ReadPayment` / `WritePayment` /
  `WriteOrder`, then the ledger as `FindEntry` / `CreateEntry`, the two
  downstream adds and `MarkProcessed`. `DbFault` leads to the catch block
  (`RecordFailure`, then `Throw`), or straight to `Throw` for the two calls before the `try` and
  for the catch block's own update.
* BullMQ is external and modelled from how the code configures it: `Return`
  completes the job, `Throw` retries it until `attempts`, `Crash` makes it stall
  (handed out again `MaxStalls` times, then failed), `Evict` drops a finished job
  (`removeOnComplete`, `removeOnFail`) and frees its id. Backoff delays are left
  out: a waiting job may start at any time, which includes every delay.
* The gateways are one: `Kind[e]` says whether an event reports a success, a
  failure or something the worker ignores; `PaymentOf[e]` is the payment its id
  leads to. Amounts and messages do not matter to any property.
* The ledger is enabled, as it is unless `LEDGER_ENABLED` is `false` (`config/env.js`).
* `dismissed` is a history variable: events a run of which found no payment.

### IdempotentPayments and the code

* Middleware: `Reserve` (atomic insert), `Lookup` (the existing row is read and
  judged: replay, 409, or reset), `ResetForRetry` (a separate update by id),
  then createPayment(): `FindUser`, `CreateCustomer`, `SaveCustomer`,
  `CallGateway`, `SavePayment` (one transaction), `CancelPayment` (compensation).
  `Respond` and `Refuse` are the wrapped `res.json`: the client is answered and
  `update` notes the record update that runs on its own (`UpdateRecord`).
* Validation of amount, currency and body is one of the ways `Fault` ends in an
  error response. `LoseAnswer`: the gateway call or the transaction takes effect
  but fails for the caller. `LoseUpdate`: a failing record update is only logged.
* `computeRequestHash` keeps every field of a body but of its metadata only the names
  the body has as well: the list given to JSON.stringify (idempotency.middleware.js:10) to sort
  the names is a filter at every level. A fingerprint is that record.
* `CancelPayment` has an effect at Stripe only. For Cashfree the service passes the payment
  session's id, or else its own order's (payment.service.js:174), where the gateway's
  cancelPayment() expects the number the request made up; both adapters answer
  `success: false` instead of throwing, and nobody reads it. A Stripe cancellation that
  fails is a `Fault` at this stage.
* `expiresAt` is set once and never moved, so `expired` only grows.
* The requests are one user's, since keys and customers are per user. The legacy
  endpoint has no key; it behaves like a request with a key of its own.

### Refunds and the code

* One payment, since refunds of different payments share nothing. It starts
  SUCCESS with its order PAID, its webhook events done. `ReadPayment` (status check),
  `ReadTotal` (`_getTotalRefundedAmount()` and the amount checks; `seen` and
  `wanted` are `totalRefunded` and `refundAmount`), `CreateRefund` (the PaymentIntent
  is retrieved, which changes nothing, and the refund is created), `SaveRefund` and
  `NumberCollision` (the retry loop), `ReadStatus` / `WritePayment` / `WriteOrder`
  (`transition()`), `RecordRefundDebit`. `Fail` is any call failing or the process
  dying: the code does the same in all cases, it stops.
* Stripe is external. A refund without an amount gives back what is left of the
  charge, one with an amount is refused when less is left; a pending refund counts
  and is decided later (`Decide`), which no reachable handler notices. A known
  idempotency key with other parameters is refused, and the parameters always differ
  because each request puts its own refund number into the metadata. Keys do not expire
  in the model.
* The payment, rows and what Stripe gives are whole cents (`Decimal(12,2)`, minor units); what a
  request asks for is in tenths of a cent, since validation admits any number of decimals.
  `Rounded` is what the amount sent (refund.service.js:245) and the row become; `IsFull`, like the
  checks before it, uses the amount as it was asked for. `Sum` counts cents, so that it
  needs no recursion. `overlapped` is a history variable.

### Invoices and the code

* One order, since orders share nothing: a file is named after its invoice's
  unique number. `Runs` are the queue's `Job` (`TakeJob`, `FindInvoice`: the worker
  looks for a row before it calls createInvoice()) and the `Requests` (`Arrive`).
  `ReadOrder`, `Lookup` (an issued invoice is returned, a bare one gets its PDF),
  `Create` and `NumberCollision`, `OpenFile` / `FinishFile`, `SaveUrl`, `SendInvoice`.
* `invoice` is the row's stage and `file` what lies under its name: nothing, a whole
  PDF, or the run that is writing it. A second writer truncates the
  file of the first, and the clean-up unlinks whatever has the name.
* `CallFails`, `PdfFails` and `SaveFails` are failing calls with their clean-up;
  in `SaveFails` the update may have been committed (`lost`). Mail errors are
  swallowed (`SendInvoice` may send nothing). `Crash` ends one run; a job is
  handed out again `MaxStalls` times.
* `lost`, `gaveUp` and `overlapped` are history variables. `overlapped` tells the
  promises that hold for one run after another from those that hold always.

### Reconciliation and the code

* Payments are numbered in the order of their rows' creation, so `Selected` is
  the query's `orderBy` and `take`. All lie in the lookback window, which therefore
  is not modelled; a payment outside it is one that is not in `Payments`.
* `SelectPayments` reads all payments of a gateway at once (`read`);
  `QueryGateway` asks for one and compares it with what was read, then
  `SaveMismatch`; `QueryFails` leads to `SaveReview` (the catch block), as does
  `SaveFails`, because the first create lies inside the `try`. `FinishGateway` goes on
  to the next gateway or ends the job. `Throw` and `Crash` lose the local state;
  the attempt that follows repeats every gateway.
* `QueryFails` has no bound. A gateway may refuse for good, and Cashfree is
  asked with the payment session's id (`gatewayRef` prefers `gatewayPaymentId`,
  which the mapper fills with it), not with its order's.
* Both sides of a payment move while the job runs: `RemoteMoves` and `Decline` at
  the gateway, `StripeEvent` and `Refund` in the database, in more orders than
  `WebhookPipeline` and `Refunds` produce. Amount and currency never change after
  creation, and every row has a reference, so a difference is one of status.
  Refunding leaves Stripe's `succeeded` as it is, so a refunded payment differs.
* `Resolve` is findById() and the update, merged because records are never
  deleted. `AuditFails` is the audit's swallowed error, a lost answer of the update and the
  death of the process between the two: all leave a resolved record without an entry.
* `flagged`, `lasting` and `differed` are history variables about the current attempt.

### SettlementAndRefunds and the code

* `transition()` is called by workers and by createRefund() on the same rows. The
  module extends `WebhookPipeline` and instantiates `Refunds` with the payment `Paid`
  and its order (`payment <- payment[Paid]`, `order <- order[Paid]`): a step is one of either,
  whole, and leaves the variables of the other alone except those two rows.
* The ledger is the two modules' own: `credits` and `debited`.
* `runsOverlapped` and `mixed` are history variables that tell which callers of
  `transition()` have been in progress together, since it checks what it read earlier.

### ServerLifecycle and the code

* `boot` is how far `startServer()` is: `ConnectDatabase` (the database, then without a
  pause the client and the workers, of which any may fail to start), `VerifyAndListen`.
  The queues connect when their modules are loaded, so the client exists before.
* A client that `closeRedis()` has made null is replaced by `getRedisClient()`, which only
  start-up still calls: `Clients` are the first and its replacement. ioredis reconnects
  (`LoseConnection`, `Connected`) until the retry strategy ends it (`GiveUp`); both are external.
* Each signal and each crash is a sequence with its own place in `step`: `Signal` closes the
  server, sets the timer and waits for open requests (`Drained`); `Crash` does none of
  these. Then both run `CloseAllWorkers`, `AwaitWorkers`, `Quit` and its answer,
  `Disconnect`, `Exit`, each interrupted by the others at every await, on the same
  `workersRunning` and `redisClient`.
* `busy` are the workers in the middle of a job; a job needs nothing to end and may never
  end. A worker closes when its job has ended. Each of the four workers takes
  one job at a time here, since closing waits for all of a worker's jobs alike.
* `Enqueue` is addWebhookJob() and the answer 200 that follows whatever became of the job. It is queued,
  or a connected Redis refuses it (`refused`: an error reply, swallowed at webhook.queue.js:50), or
  there is no queue (`hasQueue`, webhook.queue.js:19) or no connection any more. On a client that
  reconnects it waits, as `maxRetriesPerRequest: null` makes it.
* `firstAlarm` is a history variable: how far start-up was when the first sequence began.

## 3. Runs

All bounds are constants of the modules; the guards that use them are the only
place where the models stop what the code would allow.

| Run | Instance | Shows |
| --- | --- | --- |
| `webhook_redelivery` | 1 event, 2 handlers, 2 deliveries, 2 workers, 1 administrator; 1 fault, 1 crash, 1 reprocess | `ProcessedHasEffect`, `OrderInStep`, `UnattendedNeedsFailure`, `TypeOK`; the pipeline implements `SettlementOnce`, at most one credit per event included |
| `webhook_recovery` | a success and a failure event of one payment, fair workers, 1 fault, 1 crash | `EffectsFollowTransition`, `QueuedEventSettles`, `TransientFaultsRecovered` |
| `webhook_lost_event` | violation | an event whose enqueueing failed stays RECEIVED for ever |
| `webhook_illegal_transition` | violation | two runs that read PENDING write SUCCESS and FAILED |
| `idempotency_key` | 3 requests, 1 key, 3 bodies (two differ in their metadata only), both gateways; 2 faults, 1 lost answer or update, 1 crash, expiry | `OncePerKey`, `ReplayMatchesFields`, `ConfirmedPaymentExists`, `DivergenceIsPaidFor`, `KeySettles`, `TypeOK`; requests implement `ConfirmedPayments` |
| `idempotency_retry_race` | violation; 1 fault | two retries of a FAILED key both create a payment |
| `refunds` | 3 requests for a payment of 3 cents (1 cent, 1.6 cents, no amount), one with a key of its own; 1 failure, 2 collisions | `RefundedIsEarned`, `RowsMatchStripe`, `UnrecordedIsPaidFor`, `BooksAgree`, `DebitsWithinPayment`, `TypeOK` |
| `refund_overdraft` | violation; no failure | a partial refund beside one of the whole payment: the ledger debits 4 of 3 |
| `invoices` | the job and 2 requests for one order; 2 attempts, 2 collisions, 1 failing call, 1 crash, 1 stall | `UrlHasFile`, `OneMailWithPdf`, `NoOrphanFile`, `JobSettles`, `TransientFaultsGiveInvoice`, `TypeOK` |
| `reconciliation` | a job over both gateways, 1 Cashfree and 2 Stripe payments, one created during the run, limit 1, 2 moves; 2 attempts, 1 fault, 1 crash, 1 stall; 1 administrator | `NothingOverlooked`, `AlarmWasTrue`, `DuplicatesArePaidFor`, `UnauditedIsPaidFor`, `TransientFaultsReconciled`, `TypeOK` |
| `settlement_and_refunds` | 1 event, 1 handler, 1 worker, 1 administrator, a refund of the whole payment; 1 fault, 1 dead worker, 1 reprocess | `UncoveredDebitsShow`, `RefundsAreNotUndone` |
| `server_lifecycle` | 2 workers, 2 requests, 1 signal, 1 crash, 1 outage, with and without a queue | `JobsKeepTheirProcess`, `ShutdownLosesNoJob`, `ShutdownEnds`, `TypeOK` |

Why the bounds are enough: two workers, two handlers and one administrator give
every pairwise race on an event (find against create, transition against
transition, worker against manual run), and a second event on the same payment
gives the races between events. One fault and one crash reach each recovery path;
`MaxAttempts` 2 gives a retry and a last attempt. For keys, a failed first request and
two retries is the smallest race of retries, and two faults are the smallest
number that leaves an orphan at Stripe without a crash or a lost answer; at Cashfree one does. For refunds, three requests
include every pair of a partial and a full refund, two partial ones that add up to the payment once rounded, and a
third that repeats the amount, and so the key, of another. For invoices, a job and
two requests give every pair of callers and a third that finds what the pair has left.
For reconciliation, a limit of 1 lets the third payment push the second out of the
selection, and two moves make a payment differ and agree again, or move on both sides,
between its selection and its query. For the composition, one event gives a worker and an
administrator's run of it, beside and after one refund: every pair of callers of
`transition()` but two refunds, which `refunds` has. `overlapped` therefore stays FALSE
there; a second refund, with the same faults, does not finish in five minutes. For the
process, a signal and a crash are two sequences, the one with and the one without a
timer, and two overlapping sequences are what the shared client and flag are
exposed to; two workers and two requests let one be done while the other is not. Workers, and requests that differ
in nothing, are symmetric; symmetry is used only where no liveness is checked.
Deadlock is not checked: when all events are settled, or all requests answered,
the system rightly stops.

The violations are disagreements between the code and its own documentation;
PROJECT.json quotes the lines. `OncePerKey`, `QueuedEventSettles`
and `ProcessedHasEffect` state what does hold in the same situations, and under which condition.

Several properties have a condition, and each condition is a way the code really
fails; without it TLC finds a counterexample:

* `OrderInStep` (`faults = 0 /\ crashes = 0`): payment and order are two updates with no transaction. When
  the second does not happen, the retry returns early (paymentStateMachine.js:63) because
  the payment is in its target status, and the order stays PENDING for ever.
* `UnattendedNeedsFailure` (the same): a load or an update that fails outside the `try` block
  on the last attempt (webhook.worker.js:51), a failed enqueueing, or a manual run that fails
  (admin.controller.js:144) leaves an event that nobody will look at.
* `BooksAgree` (`Orderly`): the slower of two overlapping partial refunds may be refused its
  transition after the money has gone (refund.service.js:371), and is then never debited.
* `DebitsWithinPayment` (no overlap, or partial refunds only): a refund of the whole payment is
  sent without an amount (refund.service.js:244), so that Stripe gives back what is left while
  row and debit record the whole.
* `RefundsAreNotUndone` (no overlap of runs, of refunds, or for the order of both): `transition()` writes the
  order from what it read before, so a run that has written SUCCESS makes the order PAID
  after a refund has cancelled it.
* `UncoveredDebitsShow`: the success whose run stopped between transition and credit and was
  retried after the refund is refused its transition; its credit is never written, and
  the event's status is the only sign of it. With a failure, two overlapping
  runs can remove even that.
* `ReplayMatchesFields` (but for the metadata, and `Calm`): bodies that differ only inside their metadata
  have the same fingerprint, and one is answered with the other's payment.
* `DivergenceIsPaidFor` counts an orphan at Cashfree against a single failing call, because its
  compensation has no effect.
* `ShutdownLosesNoJob`, `JobsKeepTheirProcess`: a job that Redis refuses, or for which there is no queue, is
  answered 200 all the same; a crash handler closes Redis while the server goes on
  answering, a client whose retries are exhausted never returns, and a signal before the
  end of start-up closes what is started afterwards.

### Fairness

`WebhookPipeline`: a started handler or run goes on (Node runs what it started; weak
fairness of `HandlerStep`, `RunStep`), and a free worker slot takes a waiting job.
`IdempotentPayments`: a started request goes on, and so does the record update it
left behind. `Invoices` and `Reconciliation`: the free worker takes the job and what
has been started goes on. `ServerLifecycle`: each sequence goes on when what it awaits has
happened, an idle worker that was told to close closes, and the timer fires; a job need
not end and Redis need not return, which is why `ShutdownEnds` rests on the timer after a
signal and excepts an endless job after a crash. Nothing is assumed of deliveries, administrators, clients, payments' moves,
faults, crashes, expiry or eviction. A fault may pre-empt a step only as often as its bound allows.

## 4. Proofs

The theorems hold for all constants that satisfy `ConstantsAssumption`,
`RequestsAssumption`, `AmountsAssumption`, `RefundsAssumption`, `InvoicesAssumption`,
`ReconciliationAssumption`, `LifecycleAssumption` and, for the composition, `PaidAssumption`
(there is a payment that is refunded): any sets of events, payments, workers, administrators,
handlers, requests, signals and crashes (the payments of a reconciliation and the refunds of a payment finite in number), any
attempts, any limit and any number of faults and crashes.
TLC evaluates the assumptions in every run.

`WebhookPipelineProofs`
* `TypeCorrect`: `TypeOK`, action by action.
* `ProcessedSuccessHasEffect`, `EffectsAreOrdered`: the two
  invariants are not inductive, because what a run will do depends on what it has
  seen. `MoneyInv` adds `CreditAtMostOnce`, which the refinement and the composition need,
  and `StageInv`: for each stage of a run, what must already be
  true of its event (a run past `findPayment` has an existing payment, a run past
  the transition has moved it, a run past the ledger has its credit). Payments
  never return to PENDING and credits never disappear, so what a run has seen
  stays true while others move. `EffectsFollowTransition` includes the downstream jobs.
* `WorkersKeepApart`: `WorkersInv`, a run of a worker has its job active in the queue, so
  the queue's at most one job per event keeps workers apart, also after evictions and stalls.
* `OrdersKeepInStep`, `NoneIsUnattended`: `CalmInv` says what holds of every run while
  nothing has failed: what each stage has written, and that whatever is not processed
  is on its way. The first fault ends it, and the conditions of the two invariants with it.
* `PipelineImplementsSettlementOnce`: with `KnownInv` (whatever a handler, job or
  run refers to is stored) every step is a step of `SettlementOnce` or leaves its
  variables alone.

`IdempotentPaymentsProofs`
* `RequestsTypeCorrect`: `TypeOK`.
* `ConfirmationsAreReal`: `ConfirmInv` says that whatever is shown, stored or about
  to be stored as a success was made by a request that is done; a payment can only be
  cancelled by its own request, which no longer can (`SettledForGood`).
* `KeyPaysOnce`, `ReplaysMatch`: while no call fails and the key lives, the request
  that inserted the record is its only claimant (`KeyClaim`), and the record's
  fingerprint stays the claimant's. Crashes are allowed: they only remove claimants.
  Equal fingerprints mean equal fields, and no more of the metadata (`EqualHashes`).
* `DivergenceIsBounded`: an orphan is only seen to be paid for when its request is done, so
  `CostInv` counts earlier: a request that has charged and can no longer save owes one
  failure, and one at Stripe a second one when it can no longer cancel either; `PlaceInv` says at which
  stages it has charged or saved. A failure adds one request at most to each count.
* `RequestsImplementConfirmedPayments`: a payment counts as made once it is in the database
  and at the gateway and not about to be cancelled. A failing or dying compensation makes it,
  which the abstract specification allows because the client has had no answer
  (`AnswerInv`). `PlaceInv` gives that a request that is replayed has made none. What a key
  remembers is forgotten when the record is reset or fails, and so nothing is assumed of
  expiry, of lost updates or of who overwrites whom.

`RefundAmountsProofs`
* `SumAdds`, `SumMonotone`: recording an amount adds it to the sum, because its units are new
  ones, and smaller amounts have a smaller sum; `RoundedBounds`: rounding crosses
  no whole cent (the library's theorems on cardinalities; no
  induction).

`RefundsProofs`
* `RefundsTypeCorrect`: `TypeOK`.
* `RowsAreBacked`: `ProgressInv` says which of refund and row exist at each stage.
* `FullRefundsAreEarned`: the total a request has seen is stale when it is used;
  `SeenInv` says it is a lower bound of the real one, because rows are never deleted and
  never lose SUCCEEDED (`TotalGrows`), and that it covers the request's own refund
  once that is saved.
* `UnrecordedRefundsArePaidFor`: each failure or exhausted retry adds one refund at
  most to those without a row; no other step adds any.
* `OrderlyBooksAgree`, for amounts finer than the cents of the books: `BooksAgree` speaks of the end only; `SettledInv` says for each stage of the one
  request in progress which books it has written. Its total is then exact, what is left at Stripe
  is what the rows leave (`LeftIsKnown`), and no transition is refused. What payment and order then are depends also on whether a debited
  request fell short of the payment before it was rounded (`Short`). `Calm`, its condition, never
  comes back once it is lost (`CalmEnds`).
* `OverdraftTakesOverlap`, the positive half of the violation `refund_overdraft`, has two
  arguments. Without overlap the total a request has seen is exact, failures or not
  (`InTurnInv`), so the rows that count stay within the amount. Partial refunds need no such
  order: Stripe never gives back more than the charge (`StripeInv`), and a debit of less than the
  whole payment is what Stripe gave (`RowsMatchStripe`).

`InvoicesProofs`
* `InvoicesTypeCorrect`: `TypeOK`.
* `SuccessMeansInvoice`: `RowInv` says what a run at each stage knows of the row; rows
  never go back, so it stays true however runs overlap.
* `FilesAreReferred`: `FileInv`, a file without a URL belongs to a run that will save or
  unlink it. It needs no knowledge of which run wrote it, because clean-up is by name.
* `UrlsHaveFiles`, `OneMailOnly`: `AloneInv` gives, while no runs overlap, what the one
  run in progress knows of row, file and mails.

`ReconciliationProofs`
* `ReconciliationTypeCorrect`: `TypeOK`.
* `AlarmsWereTrue`: a payment in the snapshot that has not differed since the selection
  still is as it was read (`AlarmInv`); so an answer unlike the snapshot comes from one that has.
* `LastingDifferencesAreFlagged`: the converse needs more. A payment may move on both sides
  and still differ all along; that its snapshot then never equals the answer follows
  from what the sides can be together (`RemoteInv`, `SnapshotInv`). `CoverInv` says which
  payments are flagged at each stage; newer payments only push others out of reach (`ReachShrinks`).
* `DuplicatesAreBounded`: `CountInv`, one record fewer than the bound for a payment the
  attempt may still come to (`Ahead`), by the library's theorems on cardinalities.
* `UnauditedArePaidFor`: `Unaudited` is the set of resolved records without an entry that is there or
  pending of the one who resolved it last; only a failing audit adds to it. With anybody's pending
  entry in place of the last resolver's it would not be inductive.

`ServerLifecycleProofs`
* `LifecycleTypeCorrect`: `TypeOK`.
* `JobsAreNotKilled`: `LifecycleInv`. Once some sequence is past `AwaitWorkers`, all workers are
  closed or never started, and they stay so because only start-up starts workers and it has done
  so before the first alarm (`AlarmInv`); before that
  no sequence has touched Redis or the database (`WorkersInv`).
* `GracefulShutdownLosesNoJob`: before the first sequence quits Redis every request has ended and the
  server takes no more (`RequestsInv`).

`SettlementAndRefundsProofs`
* The composition's invariants are proved in layers, each from the ones below: `BaseInv` (types,
  `MoneyInv` and `KnownInv` of the pipeline, and that nothing is refunded before a success was
  written), `TotalsInv` (rows and totals of the refunds), `JointInv` (what a caller of `transition()`
  has read, while no overlap has been recorded), `CreditIsDue` and `EvidenceInv`.
* A webhook's step moves of the refunds' variables only payment and order (`WebhookMoves`), a refund's
  of the pipeline's only those two, and only along what `MoneyInv` tolerates (`RefundMoves`), so that
  the pipeline's own lemmas carry over.
  `EffectsAreOrderedDespiteRefunds` and `SettlementSurvivesRefunds` follow from `BaseInv`,
  `FullRefundsStayEarned` from `TotalsInv`.
* `RefundsStand`: `TransitionInv` says that the status a run or a request has read is still the
  row's, unless another caller overlapped, which the history variables (`HistoryInv`) record.
* `UncoveredDebitsAreSeen`: for a payment that can be or is being refunded (`Stake`) one of two things
  keeps its credit from being forgotten. While nothing has failed, it is written or the run that
  moved the payment is about to write it (`CreditIsDue`). While runs do not overlap, it is written
  or the row of a success is unfinished (`EvidenceInv`, because a run that finds the payment moved
  and the credit missing never reaches `MarkProcessed`). With both a failure and an overlap
  neither holds, hence the property's condition.
* The theorems of an instantiated module cannot be cited, so what the composition needs
  of `Refunds` is proved again for the instance, from the lemmas of `RefundAmountsProofs`.

Only model-checked: the liveness properties (`QueuedEventSettles`, `TransientFaultsRecovered`,
`KeySettles`, `JobSettles`, `TransientFaultsGiveInvoice`, `TransientFaultsReconciled`,
`ShutdownEnds`), which are out of the prover's reach as ENABLED and fairness are. Every safety
property of a passing run is a theorem; `OneWorkerPerEvent` and `DoneMeansInvoiced` are theorems
that no run needs to repeat.

## 5. Where code and documentation part

Four runs end in a violation (section 3). These disagreements are as plain in the models and
have no run of their own, to keep the suite short; the named property says what does hold.

* docs/idempotency.md:90 says that a key sent with a different body is rejected. One that differs only
  inside the metadata is replayed (`ReplayMatchesFields`).
* docs/payment-flow.md:85 says that compensation voids or terminates the gateway's payment. At Cashfree
  it never does, and at Stripe nobody learns that it did not (`DivergenceIsPaidFor`).
* docs/transaction-ledger.md:73 says that refunds equal to the credit make the payment REFUNDED. After
  a last refund that was rounded up to do so it stays PARTIALLY_REFUNDED (`BooksAgree`).
* docs/reconciliation.md:82 says that all resolutions produce an audit entry. When the audit
  fails the resolution stands without (audit.service.js:47, `UnauditedIsPaidFor`).
* ledger.service.js:10 says that every financial movement generates an entry. A refund whose
  transition is refused beside an overlapping one is never debited (`BooksAgree`).

## 6. Not modelled, and why

* `handlePaymentIntent*`, `handleChargeRefunded`, `handleRefundUpdated` of
  `webhook.service.js`, with `confirmPayment`, `markPaymentFailed` and
  `cancelPayment` of `payment.service.js`, have no caller. `handleGatewayWebhook` is called by
  tests only: no route leads to it, so Cashfree events are never delivered.
* The payment queue: nothing adds to it and nothing consumes it.
* Commit-unknown errors of the webhook path's single updates, and a worker that loses its
  lock while still running, which needs the event loop to block for BullMQ's lock
  duration.
* Of the gateway adapters: field mapping, error text, signatures. Of mail and PDF: layout
  and wording. Of the audit log: entries other than those of resolutions.
* Authentication keeps no state but its users; registration's find-then-create ends in
  an error of the unique column. Configuration and routing are wiring.
* The health endpoints only read. Readiness answers 200 with `DEGRADED` when Redis is gone
  (health.controller.js:43), where README.md:748 of the repository promises a non-success response;
  one comparison needs no model.
* The notification worker reads a payment and sends a mail whose errors it never sees; of it
  only start and close are modelled.
* A second start of the program beside the first: instances share rows and queues, which the
  other modules' workers and handlers stand for, and no state of `ServerLifecycle`.
* `MISSING_INTERNAL_PAYMENT` (docs/reconciliation.md:48) is written by no code: the job
  starts from the rows, so a payment that exists only at the gateway is never found.

## 7. Plan

Done: `WebhookPipeline`, `IdempotentPayments`, `Refunds`, `Invoices`, `Reconciliation`,
`SettlementAndRefunds` and `ServerLifecycle`, with their runs; every safety property they check
has a theorem. What is left, in this order:

1. Abstract specification of an order's invoice (one row, one URL, one mail), and the
   condition under which createInvoice() implements it.
2. `ConfirmedPayments` in the composition of keys and webhooks: a confirmed payment is the one
   whose events are credited.
3. The disagreements of section 5 as violations, each in the place of a run that two others cover.

A new run is added only in the place of a merged one, to keep the whole suite short.
