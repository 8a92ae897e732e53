------------------------------ MODULE Invoices ------------------------------
(***************************************************************************)
(* The invoice of one order: createInvoice() called by the order's job in  *)
(* the invoice queue and by requests, which find or create the row, write  *)
(* the PDF, save its URL and send the mail.  Orders share nothing here: a  *)
(* file is named after its invoice's number, which is unique.  One action  *)
(* is one awaited call together with the synchronous code up to the next.  *)
(*                                                                         *)
(* The payment has succeeded and the webhook worker has added the job      *)
(* (AddInvoiceJob of WebhookPipeline).  What ownership checks reject       *)
(* changes nothing and is left out.                                        *)
(***************************************************************************)
EXTENDS PaymentStateMachine, Integers

CONSTANTS
  Job,                     \* the run of the queue's job for the order
  Requests,                \* POST /api/invoice requests for the order
  MaxAttempts,             \* of the job: env.invoiceMaxAttempts
  MaxStalls,               \* how often BullMQ restarts a stalled job
  MaxRetries,              \* of creating the row when numbers collide: 3
  MaxFailures, MaxCrashes  \* bounds of the model

Runs == Requests \cup {Job}

ASSUME InvoicesAssumption ==
  /\ Job \notin Requests /\ {"none", "whole"} \cap Runs = {}
  /\ MaxAttempts \in Nat \ {0} /\ MaxRetries \in Nat \ {0}
  /\ MaxStalls \in Nat /\ MaxFailures \in Nat /\ MaxCrashes \in Nat

VARIABLES
  payment,                 \* status of the order's payment
  invoice,                 \* the row: "none", "bare" (no pdfUrl) or "issued"
  file,                    \* the PDF: "none", "whole", or the run that is writing it
  job, attempts, stalls,   \* the queue's job
  pc,                      \* stage of each run
  collisions,              \* its retryCount
  result,                  \* the answer of each request
  mailed,                  \* the mail each run has sent
  failures, crashes,
  lost,                    \* history: the URL was saved by an update that failed for its caller
  gaveUp,                  \* history: a run met MaxRetries collisions
  overlapped               \* history: two runs have been in progress at once

jobVars == <<job, attempts, stalls>>
endVars == <<job, attempts, result>>
faultVars == <<failures, crashes, lost>>
vars == <<payment, invoice, file, job, attempts, stalls, pc, collisions, result, mailed,
          failures, crashes, lost, gaveUp, overlapped>>

Stage == {"idle", "exists", "order", "lookup", "create", "open", "write", "save", "mail"}
Mail == {"no", "withoutPdf", "tornPdf", "withPdf"}

Init ==
  /\ payment = "SUCCESS" /\ invoice = "none" /\ file = "none"
  /\ job = "waiting" /\ attempts = 0 /\ stalls = 0
  /\ pc = [r \in Runs |-> "idle"] /\ collisions = [r \in Runs |-> 0]
  /\ result = [q \in Requests |-> "none"] /\ mailed = [r \in Runs |-> "no"]
  /\ failures = 0 /\ crashes = 0
  /\ lost = FALSE /\ gaveUp = FALSE /\ overlapped = FALSE

Goto(r, stage) == pc' = [pc EXCEPT ![r] = stage]
InProgress(r) == pc[r] # "idle"

\* Run r begins: its retry counter is fresh.
Begin(r, stage) ==
  /\ ~InProgress(r)
  /\ Goto(r, stage)
  /\ collisions' = [collisions EXCEPT ![r] = 0]
  /\ overlapped' = (overlapped \/ \E q \in Runs : InProgress(q))

\* It returns: the job is completed, or the request answered 201.
Return(r) ==
  /\ Goto(r, "idle")
  /\ job' = IF r = Job THEN "completed" ELSE job
  /\ result' = [q \in Requests |-> IF q = r THEN "ok" ELSE result[q]]
  /\ UNCHANGED attempts

\* Faulty variant: the last attempt is never made.
ThrowEarly(r) ==
  /\ Goto(r, "idle")
  /\ attempts' = IF r = Job THEN attempts + 1 ELSE attempts
  /\ job' = IF r # Job THEN job ELSE IF attempts + 2 < MaxAttempts THEN "waiting" ELSE "failed"
  /\ result' = [q \in Requests |-> IF q = r THEN "error" ELSE result[q]]

\* Faulty variant: the queue is not told of the failure.
ThrowNothing(r) ==
  /\ Goto(r, "idle")
  /\ result' = [q \in Requests |-> IF q = r THEN "error" ELSE result[q]]
  /\ UNCHANGED <<job, attempts>>

\* It throws: the job is tried again while attempts are left, a request fails.
Throw(r) ==
  /\ Goto(r, "idle")
  /\ attempts' = IF r = Job THEN attempts + 1 ELSE attempts
  /\ job' = IF r # Job THEN job ELSE IF attempts + 1 < MaxAttempts THEN "waiting" ELSE "failed"
  /\ result' = [q \in Requests |-> IF q = r THEN "error" ELSE result[q]]

----------------------------------------------------------------------------
(* Who calls createInvoice().                                              *)

TakeJob ==
  /\ job = "waiting" /\ job' = "active"
  /\ Begin(Job, "exists")
  /\ UNCHANGED <<payment, invoice, file, attempts, stalls, result, mailed, faultVars, gaveUp>>

\* processInvoiceJob(): any row will do, one without a PDF as well.
FindInvoice ==
  /\ pc[Job] = "exists"
  /\ \/ invoice # "none" /\ Return(Job)
     \/ invoice = "none" /\ Goto(Job, "order") /\ UNCHANGED endVars
  /\ UNCHANGED <<payment, invoice, file, stalls, collisions, mailed, faultVars, gaveUp, overlapped>>

Arrive(q) ==
  /\ result[q] = "none"
  /\ Begin(q, "order")
  /\ UNCHANGED <<payment, invoice, file, jobVars, result, mailed, faultVars, gaveUp>>

\* A refund moves the payment on.
RefundPayment ==
  /\ \E s \in PaymentStatus : CanTransition(payment, s) /\ payment' = s
  /\ UNCHANGED <<invoice, file, jobVars, pc, collisions, result, mailed, faultVars, gaveUp, overlapped>>

----------------------------------------------------------------------------
(* The row.                                                                *)

\* Order and payment are read once; what follows uses this reading.
ReadOrder(r) ==
  /\ pc[r] = "order"
  /\ IF payment = "SUCCESS" THEN Goto(r, "lookup") /\ UNCHANGED endVars ELSE Throw(r)
  /\ UNCHANGED <<payment, invoice, file, stalls, collisions, mailed, faultVars, gaveUp, overlapped>>

\* Faulty variant: the PDF is always made again.
LookupRegenerating(r) ==
  /\ pc[r] = "lookup"
  /\ Goto(r, IF invoice = "none" THEN "create" ELSE "open")
  /\ UNCHANGED <<payment, invoice, file, jobVars, collisions, result, mailed, faultVars, gaveUp, overlapped>>

Lookup(r) ==
  /\ pc[r] = "lookup"
  /\ \/ invoice = "issued" /\ Return(r)
     \/ invoice = "bare" /\ Goto(r, "open") /\ UNCHANGED endVars
     \/ invoice = "none" /\ Goto(r, "create") /\ UNCHANGED endVars
  /\ UNCHANGED <<payment, invoice, file, stalls, collisions, mailed, faultVars, gaveUp, overlapped>>

\* Faulty variant: the row is created with the URL the file is going to have.
CreateIssued(r) ==
  /\ pc[r] = "create"
  /\ IF invoice = "none" THEN invoice' = "issued" /\ Goto(r, "open") /\ UNCHANGED endVars
                         ELSE Throw(r) /\ UNCHANGED invoice
  /\ UNCHANGED <<payment, file, stalls, collisions, mailed, faultVars, gaveUp, overlapped>>

\* orderId is unique: the later of two creations fails, and is not retried.
Create(r) ==
  /\ pc[r] = "create"
  /\ IF invoice = "none" THEN invoice' = "bare" /\ Goto(r, "open") /\ UNCHANGED endVars
                         ELSE Throw(r) /\ UNCHANGED invoice
  /\ UNCHANGED <<payment, file, stalls, collisions, mailed, faultVars, gaveUp, overlapped>>

\* Faulty variant: the last attempt does not count as one.
NumberCollisionOffByOne(r) ==
  /\ pc[r] = "create"
  /\ collisions' = [collisions EXCEPT ![r] = @ + 1]
  /\ IF collisions[r] + 1 > MaxRetries THEN Throw(r) /\ gaveUp' = TRUE
                                       ELSE Goto(r, "create") /\ UNCHANGED <<endVars, gaveUp>>
  /\ UNCHANGED <<payment, invoice, file, stalls, mailed, faultVars, overlapped>>

\* Another invoice has the number: the row is tried again with new ones.
NumberCollision(r) ==
  /\ pc[r] = "create"
  /\ collisions' = [collisions EXCEPT ![r] = @ + 1]
  /\ IF collisions[r] + 1 >= MaxRetries THEN Throw(r) /\ gaveUp' = TRUE
                                        ELSE Goto(r, "create") /\ UNCHANGED <<endVars, gaveUp>>
  /\ UNCHANGED <<payment, invoice, file, stalls, mailed, faultVars, overlapped>>

----------------------------------------------------------------------------
(* The PDF, its URL and the mail.                                          *)

\* Opening the stream truncates whatever is there.
OpenFile(r) ==
  /\ pc[r] = "open"
  /\ file' = r
  /\ Goto(r, "write")
  /\ UNCHANGED <<payment, invoice, jobVars, collisions, result, mailed, faultVars, gaveUp, overlapped>>

\* The stream finishes.  When the file has been truncated again, or unlinked,
\* since r opened it, that shows nowhere and changes nothing.
FinishFile(r) ==
  /\ pc[r] = "write"
  /\ file' = IF file = r THEN "whole" ELSE file
  /\ Goto(r, "save")
  /\ UNCHANGED <<payment, invoice, jobVars, collisions, result, mailed, faultVars, gaveUp, overlapped>>

SaveUrl(r) ==
  /\ pc[r] = "save"
  /\ invoice' = "issued"
  /\ Goto(r, "mail")
  /\ UNCHANGED <<payment, file, jobVars, collisions, result, mailed, faultVars, gaveUp, overlapped>>

\* sendInvoiceEmail() attaches the file if there is one.
Attachment == CASE file = "none" -> "withoutPdf" [] file = "whole" -> "withPdf" [] OTHER -> "tornPdf"

\* sendInvoice() reports a mail that failed to nobody.
SendInvoice(r) ==
  /\ pc[r] = "mail"
  /\ mailed' \in {mailed, [mailed EXCEPT ![r] = Attachment]}
  /\ Return(r)
  /\ UNCHANGED <<payment, invoice, file, stalls, collisions, faultVars, gaveUp, overlapped>>

----------------------------------------------------------------------------
(* What goes wrong.                                                        *)

Failing == failures < MaxFailures /\ failures' = failures + 1

\* A read, the creation or mkdir() fails, or creates the row and then fails.
CallFails(r) ==
  /\ pc[r] \in {"exists", "order", "lookup", "create", "open"}
  /\ Failing /\ Throw(r)
  /\ UNCHANGED <<payment, invoice, file, stalls, collisions, mailed, crashes, lost, gaveUp, overlapped>>

\* Rendering or the stream fails: generate() unlinks the file.
PdfFails(r) ==
  /\ pc[r] \in {"open", "write"}
  /\ Failing /\ Throw(r)
  /\ file' = "none"
  /\ UNCHANGED <<payment, invoice, stalls, collisions, mailed, crashes, lost, gaveUp, overlapped>>

\* Faulty variant: the file is kept for the next attempt.
SaveFailsKeepingFile(r) ==
  /\ pc[r] = "save"
  /\ Failing /\ Throw(r)
  /\ lost' \in {lost, TRUE}
  /\ invoice' = IF lost' THEN "issued" ELSE invoice
  /\ UNCHANGED <<payment, file, stalls, collisions, mailed, crashes, gaveUp, overlapped>>

\* The update fails, or is made and fails for its caller: the file is unlinked.
SaveFails(r) ==
  /\ pc[r] = "save"
  /\ Failing /\ Throw(r)
  /\ file' = "none"
  /\ \/ UNCHANGED <<invoice, lost>>
     \/ invoice' = "issued" /\ lost' = TRUE
  /\ UNCHANGED <<payment, stalls, collisions, mailed, crashes, gaveUp, overlapped>>

\* The process dies and cleans nothing up; the job stalls.
Crash(r) ==
  /\ InProgress(r) /\ crashes < MaxCrashes
  /\ crashes' = crashes + 1
  /\ Goto(r, "idle")
  /\ stalls' = IF r = Job THEN stalls + 1 ELSE stalls
  /\ job' = IF r # Job THEN job ELSE IF stalls < MaxStalls THEN "waiting" ELSE "failed"
  /\ result' = [q \in Requests |-> IF q = r THEN "error" ELSE result[q]]
  /\ UNCHANGED <<payment, invoice, file, attempts, collisions, mailed, failures, lost, gaveUp, overlapped>>

----------------------------------------------------------------------------
Step(r) ==
  \/ ReadOrder(r) \/ Lookup(r) \/ Create(r) \/ NumberCollision(r)
  \/ OpenFile(r) \/ FinishFile(r) \/ SaveUrl(r) \/ SendInvoice(r)

Fault(r) == CallFails(r) \/ PdfFails(r) \/ SaveFails(r) \/ Crash(r)

Next ==
  \/ TakeJob \/ FindInvoice \/ RefundPayment
  \/ \E q \in Requests : Arrive(q)
  \/ \E r \in Runs : Step(r) \/ Fault(r)

Spec == Init /\ [][Next]_vars

\* A free worker takes the job; Node goes on with what it has started.
Fairness == WF_vars(TakeJob) /\ WF_vars(FindInvoice) /\ \A r \in Runs : WF_vars(Step(r))

FairSpec == Spec /\ Fairness

----------------------------------------------------------------------------
TypeOK ==
  /\ payment \in PaymentStatus
  /\ invoice \in {"none", "bare", "issued"}
  /\ file \in {"none", "whole"} \cup Runs
  /\ job \in {"waiting", "active", "completed", "failed"}
  /\ attempts \in 0..MaxAttempts /\ (attempts = MaxAttempts => job = "failed")
  /\ stalls \in Nat
  /\ pc \in [Runs -> Stage]
  /\ (job = "active") = InProgress(Job)
  /\ collisions \in [Runs -> 0..MaxRetries]
  /\ \A r \in Runs : collisions[r] = MaxRetries => ~InProgress(r)
  /\ result \in [Requests -> {"none", "ok", "error"}]
  /\ mailed \in [Runs -> Mail]
  /\ failures \in Nat /\ crashes \in Nat
  /\ lost \in BOOLEAN /\ gaveUp \in BOOLEAN /\ overlapped \in BOOLEAN

\* A saved pdfUrl leads to a whole file, whatever failed before, as long as runs
\* do not overlap and no saved update fails for its caller: clean-up by name
\* (invoice.service.js:167) removes the file of whoever wrote it last.
UrlHasFile == invoice = "issued" /\ ~overlapped /\ ~lost => file = "whole"

\* Retries and repeated requests send one mail in all, with the PDF, as long as
\* runs do not overlap (invoice.service.js:282 and :291).
OneMailWithPdf ==
  ~overlapped => \A r, q \in Runs : mailed[r] # "no" => mailed[r] = "withPdf" /\ (mailed[q] # "no" => q = r)

\* Success is reported to a client only of an invoice with a URL, to the queue
\* of any row (invoice.service.js:282, invoice.worker.js:24).
DoneMeansInvoiced ==
  /\ \A q \in Requests : result[q] = "ok" => invoice = "issued"
  /\ job = "completed" => invoice # "none"

\* No failing call leaves a file that no row refers to, however runs overlap;
\* only a process that dies does (invoice.service.js:167, invoicePdf.js:66).
NoOrphanFile ==
  crashes = 0 /\ (\A r \in Runs : ~InProgress(r)) /\ invoice # "issued" => file = "none"

\* The job ends, whatever fails (docs/async-processing.md:33).
JobSettles == <>(job \in {"completed", "failed"})

\* Fewer failing calls than attempts, and no more crashes than stalls are
\* forgiven, do not keep a paid order from getting its row.
TransientFaultsGiveInvoice ==
  ([](payment = "SUCCESS") /\ []~gaveUp) => <>(invoice # "none")
=============================================================================
