--------------------------- MODULE InvoicesProofs ---------------------------
(***************************************************************************)
(* For any number of requests beside the job, and any number of failures   *)
(* and crashes: the types of Invoices, what a reported success means, when *)
(* a file can be left over, and what runs that do not overlap achieve.     *)
(***************************************************************************)
EXTENDS Invoices, TLAPS

(* How a run ends.                                                         *)

LEMMA ReturnTypes ==
  ASSUME TypeOK, NEW r \in Runs, InProgress(r), Return(r)
  PROVE  /\ job' \in {"waiting", "active", "completed", "failed"}
         /\ attempts' \in 0..MaxAttempts /\ (attempts' = MaxAttempts => job' = "failed")
         /\ pc' = [pc EXCEPT ![r] = "idle"] /\ pc' \in [Runs -> Stage]
         /\ (job' = "active") = InProgress(Job)'
         /\ result' \in [Requests -> {"none", "ok", "error"}]
<1> USE InvoicesAssumption DEF TypeOK, Return, Goto, InProgress, Runs, Stage
<1>1. pc' = [pc EXCEPT ![r] = "idle"] /\ pc' \in [Runs -> Stage]
  OBVIOUS
<1>2. result' \in [Requests -> {"none", "ok", "error"}]
  OBVIOUS
<1> QED
  BY <1>1, <1>2

LEMMA ThrowTypes ==
  ASSUME TypeOK, NEW r \in Runs, InProgress(r), Throw(r)
  PROVE  /\ job' \in {"waiting", "active", "completed", "failed"}
         /\ attempts' \in 0..MaxAttempts /\ (attempts' = MaxAttempts => job' = "failed")
         /\ pc' = [pc EXCEPT ![r] = "idle"] /\ pc' \in [Runs -> Stage]
         /\ (job' = "active") = InProgress(Job)'
         /\ result' \in [Requests -> {"none", "ok", "error"}]
<1> USE InvoicesAssumption DEF TypeOK, Throw, Goto, InProgress, Runs, Stage
<1>1. pc' = [pc EXCEPT ![r] = "idle"] /\ pc' \in [Runs -> Stage]
  OBVIOUS
<1>2. result' \in [Requests -> {"none", "ok", "error"}]
  OBVIOUS
<1>3. CASE r = Job
  BY <1>1, <1>2, <1>3
<1>4. CASE r # Job
  BY <1>1, <1>2, <1>4
<1> QED
  BY <1>3, <1>4

\* A run that goes on from one stage to another.
LEMMA GotoTypes ==
  ASSUME TypeOK, NEW r \in Runs, InProgress(r), NEW s \in Stage \ {"idle"}, Goto(r, s), UNCHANGED endVars
  PROVE  /\ job' \in {"waiting", "active", "completed", "failed"}
         /\ attempts' \in 0..MaxAttempts /\ (attempts' = MaxAttempts => job' = "failed")
         /\ pc' \in [Runs -> Stage]
         /\ (job' = "active") = InProgress(Job)'
         /\ result' \in [Requests -> {"none", "ok", "error"}]
         /\ \A q \in Runs : InProgress(q)' = InProgress(q)
BY InvoicesAssumption DEF TypeOK, Goto, InProgress, Runs, Stage, endVars

----------------------------------------------------------------------------
(* Types.                                                                  *)

\* What an action must still show when its run ends or goes on.
LEMMA Ended ==
  ASSUME TypeOK, NEW r \in Runs, InProgress(r), Return(r) \/ Throw(r),
         payment' = payment, UNCHANGED stalls,
         invoice' \in {"none", "bare", "issued"}, file' \in {"none", "whole"} \cup Runs,
         collisions' = collisions \/ collisions' = [collisions EXCEPT ![r] = @ + 1],
         mailed' \in [Runs -> Mail], failures' \in Nat, crashes' \in Nat,
         lost' \in BOOLEAN, gaveUp' \in BOOLEAN, overlapped' \in BOOLEAN
  PROVE  TypeOK'
<1>1. \A q \in Runs : q # r => InProgress(q)' = InProgress(q)
  BY ReturnTypes, ThrowTypes DEF TypeOK, InProgress
<1>2. ~InProgress(r)'
  BY ReturnTypes, ThrowTypes DEF TypeOK, InProgress
<1>3. collisions[r] \in 0..MaxRetries /\ collisions[r] # MaxRetries
  BY DEF TypeOK
<1>4. collisions' \in [Runs -> 0..MaxRetries]
  BY <1>3, InvoicesAssumption DEF TypeOK
<1>5. \A q \in Runs : collisions'[q] = MaxRetries => ~InProgress(q)'
  BY <1>1, <1>2, <1>3 DEF TypeOK
<1> QED
  BY <1>4, <1>5, ReturnTypes, ThrowTypes DEF TypeOK

LEMMA Continued ==
  ASSUME TypeOK, NEW r \in Runs, InProgress(r), NEW s \in Stage \ {"idle"}, Goto(r, s),
         UNCHANGED <<payment, stalls, mailed, faultVars, overlapped, gaveUp>>, UNCHANGED endVars,
         invoice' \in {"none", "bare", "issued"}, file' \in {"none", "whole"} \cup Runs,
         \/ collisions' = collisions
         \/ collisions[r] + 1 # MaxRetries /\ collisions' = [collisions EXCEPT ![r] = @ + 1]
  PROVE  TypeOK'
<1>1. collisions[r] \in 0..MaxRetries /\ collisions[r] # MaxRetries
  BY DEF TypeOK
<1>2. collisions' \in [Runs -> 0..MaxRetries]
  BY <1>1, InvoicesAssumption DEF TypeOK
<1>3. \A q \in Runs : collisions'[q] = MaxRetries => ~InProgress(q)'
  BY <1>1, GotoTypes DEF TypeOK
<1> QED
  BY <1>2, <1>3, GotoTypes DEF TypeOK, faultVars

LEMMA StepTypes ==
  ASSUME TypeOK, NEW r \in Runs, Step(r) \/ Fault(r)
  PROVE  TypeOK'
<1> USE DEF Stage
<1>0. InProgress(r)
  BY DEF Step, Fault, ReadOrder, Lookup, Create, NumberCollision, OpenFile, FinishFile, SaveUrl,
         SendInvoice, CallFails, PdfFails, SaveFails, Crash, InProgress
<1>1. CASE ReadOrder(r)
  BY <1>0, <1>1, Ended, Continued DEF ReadOrder, TypeOK, faultVars
<1>2. CASE Lookup(r)
  BY <1>0, <1>2, Ended, Continued DEF Lookup, TypeOK, faultVars
<1>3. CASE Create(r)
  BY <1>0, <1>3, Ended, Continued DEF Create, TypeOK, faultVars
<1>4. CASE NumberCollision(r)
  <2>1. CASE Throw(r) /\ gaveUp' = TRUE
    BY <1>0, <1>4, <2>1, Ended DEF NumberCollision, TypeOK, faultVars
  <2>2. CASE Goto(r, "create") /\ UNCHANGED <<endVars, gaveUp>> /\ ~(collisions[r] + 1 >= MaxRetries)
    <3>1. collisions[r] + 1 # MaxRetries
      BY <2>2, InvoicesAssumption DEF TypeOK
    <3> QED
      BY <1>0, <1>4, <2>2, <3>1, Continued DEF NumberCollision, TypeOK
  <2> QED
    BY <1>4, <2>1, <2>2 DEF NumberCollision
<1>5. CASE OpenFile(r)
  BY <1>0, <1>5, Continued DEF OpenFile, TypeOK, jobVars, endVars
<1>6. CASE FinishFile(r)
  BY <1>0, <1>6, Continued DEF FinishFile, TypeOK, jobVars, endVars
<1>7. CASE SaveUrl(r)
  BY <1>0, <1>7, Continued DEF SaveUrl, TypeOK, jobVars, endVars
<1>8. CASE SendInvoice(r)
  <2>1. mailed' \in [Runs -> Mail]
    BY <1>8 DEF SendInvoice, TypeOK, Attachment, Mail
  <2> QED
    BY <1>0, <1>8, <2>1, Ended DEF SendInvoice, TypeOK, faultVars
<1>9. CASE CallFails(r)
  BY <1>0, <1>9, Ended DEF CallFails, Failing, TypeOK
<1>10. CASE PdfFails(r)
  BY <1>0, <1>10, Ended DEF PdfFails, Failing, TypeOK
<1>11. CASE SaveFails(r)
  <2>1. lost' \in BOOLEAN
    BY <1>11, Zenon DEF SaveFails, TypeOK
  <2>2. failures' \in Nat
    BY <1>11 DEF SaveFails, Failing, TypeOK
  <2>3. invoice' \in {"none", "bare", "issued"} /\ file' \in {"none", "whole"} \cup Runs
    BY <1>11 DEF SaveFails, TypeOK
  <2> QED
    BY <1>0, <1>11, <2>1, <2>2, <2>3, Ended DEF SaveFails, TypeOK
<1>12. CASE Crash(r)
  <2> USE InvoicesAssumption DEF Crash, TypeOK, Goto, InProgress, Runs
  <2>1. pc' \in [Runs -> Stage] /\ result' \in [Requests -> {"none", "ok", "error"}]
    BY <1>12
  <2>2. (job' = "active") = InProgress(Job)'
    BY <1>12
  <2>3. attempts' = MaxAttempts => job' = "failed"
    BY <1>12
  <2>4. stalls' \in Nat /\ crashes' \in Nat
    BY <1>12
  <2>5. \A q \in Runs : collisions'[q] = MaxRetries => ~InProgress(q)'
    BY <1>12
  <2>6. job' \in {"waiting", "active", "completed", "failed"}
    BY <1>12
  <2> QED
    BY <1>12, <2>1, <2>2, <2>3, <2>4, <2>5, <2>6
<1> QED
  BY <1>1, <1>2, <1>3, <1>4, <1>5, <1>6, <1>7, <1>8, <1>9, <1>10, <1>11, <1>12 DEF Step, Fault

LEMMA TypeStep == TypeOK /\ [Next]_vars => TypeOK'
<1> SUFFICES ASSUME TypeOK, [Next]_vars
             PROVE  TypeOK'
  OBVIOUS
<1> USE InvoicesAssumption DEF Stage
<1>1. CASE TakeJob
  BY <1>1 DEF TakeJob, Begin, Goto, InProgress, TypeOK, Runs, faultVars
<1>2. CASE FindInvoice
  <2>1. Job \in Runs /\ InProgress(Job)
    BY <1>2 DEF FindInvoice, InProgress, Runs
  <2> QED
    BY <1>2, <2>1, Ended, Continued DEF FindInvoice, TypeOK, faultVars
<1>3. CASE RefundPayment
  BY <1>3 DEF RefundPayment, TypeOK, jobVars, faultVars, InProgress
<1>4. ASSUME NEW q \in Requests, Arrive(q)
      PROVE  TypeOK'
  BY <1>4 DEF Arrive, Begin, Goto, InProgress, TypeOK, Runs, jobVars, faultVars
<1>5. CASE \E r \in Runs : Step(r) \/ Fault(r)
  BY <1>5, StepTypes
<1>6. CASE UNCHANGED vars
  BY <1>6 DEF vars, TypeOK, InProgress
<1> QED
  BY <1>1, <1>2, <1>3, <1>4, <1>5, <1>6 DEF Next

LEMMA TypeInit == Init => TypeOK
<1> SUFFICES ASSUME Init
             PROVE  TypeOK
  OBVIOUS
<1>1. pc \in [Runs -> Stage] /\ mailed \in [Runs -> Mail] /\ ~InProgress(Job) /\ \A r \in Runs : ~InProgress(r)
  BY DEF Init, Stage, Mail, InProgress, Runs
<1>2. attempts \in 0..MaxAttempts /\ attempts # MaxAttempts /\ collisions \in [Runs -> 0..MaxRetries]
  BY InvoicesAssumption DEF Init
<1> QED
  BY <1>1, <1>2 DEF Init, TypeOK, PaymentStatus, InProgress

\* Every variable keeps its type; in particular the job is active exactly while
\* a worker runs it, its last attempt leaves it failed, and a run that met
\* maxRetries collisions is over (invoice.worker.js:17, invoice.service.js:53).
THEOREM InvoicesTypeCorrect == Spec => []TypeOK
<1> QED
  BY TypeInit, TypeStep, PTL DEF Spec

----------------------------------------------------------------------------
(* The row: what a run has done or may report depends on a row that never  *)
(* goes back.                                                              *)

RowInv ==
  /\ \A r \in Runs : pc[r] \in {"open", "write", "save"} => invoice # "none"
  /\ \A r \in Runs : pc[r] = "mail" => invoice = "issued"
  /\ \A r \in Runs : mailed[r] # "no" => invoice = "issued"
  /\ lost => invoice = "issued"
  /\ DoneMeansInvoiced

LEMMA RowSteps ==
  ASSUME TypeOK, RowInv, NEW r \in Runs, Step(r) \/ Fault(r)
  PROVE  RowInv'
<1> USE DEF TypeOK, RowInv, DoneMeansInvoiced, Goto, Return, Throw, Runs, endVars, jobVars, faultVars
<1>1. CASE ReadOrder(r)
  BY <1>1 DEF ReadOrder
<1>2. CASE Lookup(r)
  BY <1>2 DEF Lookup
<1>3. CASE Create(r)
  BY <1>3 DEF Create
<1>4. CASE NumberCollision(r)
  BY <1>4 DEF NumberCollision
<1>5. CASE OpenFile(r)
  BY <1>5 DEF OpenFile
<1>6. CASE FinishFile(r)
  BY <1>6 DEF FinishFile
<1>7. CASE SaveUrl(r)
  BY <1>7 DEF SaveUrl
<1>8. CASE SendInvoice(r)
  BY <1>8 DEF SendInvoice
<1>9. CASE CallFails(r)
  BY <1>9 DEF CallFails
<1>10. CASE PdfFails(r)
  BY <1>10 DEF PdfFails
<1>11. CASE SaveFails(r)
  BY <1>11 DEF SaveFails
<1>12. CASE Crash(r)
  BY <1>12 DEF Crash
<1> QED
  BY <1>1, <1>2, <1>3, <1>4, <1>5, <1>6, <1>7, <1>8, <1>9, <1>10, <1>11, <1>12 DEF Step, Fault

LEMMA RowStep == TypeOK /\ RowInv /\ [Next]_vars => RowInv'
<1> SUFFICES ASSUME TypeOK, RowInv, [Next]_vars
             PROVE  RowInv'
  OBVIOUS
<1> USE DEF TypeOK, RowInv, DoneMeansInvoiced, Goto, Begin, Runs, endVars, jobVars, faultVars
<1>1. CASE TakeJob
  BY <1>1 DEF TakeJob
<1>2. CASE FindInvoice
  BY <1>2, InvoicesAssumption DEF FindInvoice, Return
<1>3. CASE RefundPayment
  BY <1>3 DEF RefundPayment
<1>4. ASSUME NEW q \in Requests, Arrive(q)
      PROVE  RowInv'
  BY <1>4 DEF Arrive
<1>5. CASE \E r \in Runs : Step(r) \/ Fault(r)
  BY <1>5, RowSteps
<1>6. CASE UNCHANGED vars
  BY <1>6 DEF vars
<1> QED
  BY <1>1, <1>2, <1>3, <1>4, <1>5, <1>6 DEF Next

\* A client is told of success only when the invoice has its URL, the queue
\* only when there is a row (invoice.service.js:282, invoice.worker.js:24).
THEOREM SuccessMeansInvoice == Spec => []DoneMeansInvoiced
<1>1. Init => RowInv
  BY DEF Init, RowInv, DoneMeansInvoiced, Runs
<1>2. TypeOK /\ RowInv /\ [Next]_vars => RowInv'
  BY RowStep
<1>3. RowInv => DoneMeansInvoiced
  BY DEF RowInv
<1> QED
  BY <1>1, <1>2, <1>3, InvoicesTypeCorrect, PTL DEF Spec

----------------------------------------------------------------------------
(* Files without a row: while nothing crashes, a file that no URL refers   *)
(* to belongs to a run that will save its URL or unlink it.                *)

FileInv ==
  crashes = 0 /\ invoice # "issued" /\ file # "none" => \E r \in Runs : pc[r] \in {"write", "save"}

LEMMA FileSteps ==
  ASSUME TypeOK, FileInv, NEW r \in Runs, Step(r) \/ Fault(r)
  PROVE  FileInv'
<1> USE DEF TypeOK, FileInv, Goto, Return, Throw, faultVars
<1>1. CASE ReadOrder(r)
  BY <1>1 DEF ReadOrder
<1>2. CASE Lookup(r)
  BY <1>2 DEF Lookup
<1>3. CASE Create(r)
  BY <1>3 DEF Create
<1>4. CASE NumberCollision(r)
  BY <1>4 DEF NumberCollision
<1>5. CASE OpenFile(r)
  BY <1>5 DEF OpenFile
<1>6. CASE FinishFile(r)
  BY <1>6 DEF FinishFile
<1>7. CASE SaveUrl(r)
  BY <1>7 DEF SaveUrl
<1>8. CASE SendInvoice(r)
  BY <1>8 DEF SendInvoice
<1>9. CASE CallFails(r)
  BY <1>9 DEF CallFails
<1>10. CASE PdfFails(r)
  BY <1>10 DEF PdfFails
<1>11. CASE SaveFails(r)
  BY <1>11 DEF SaveFails
<1>12. CASE Crash(r)
  BY <1>12 DEF Crash
<1> QED
  BY <1>1, <1>2, <1>3, <1>4, <1>5, <1>6, <1>7, <1>8, <1>9, <1>10, <1>11, <1>12 DEF Step, Fault

LEMMA FileStep == TypeOK /\ FileInv /\ [Next]_vars => FileInv'
<1> SUFFICES ASSUME TypeOK, FileInv, [Next]_vars
             PROVE  FileInv'
  OBVIOUS
<1> USE DEF TypeOK, FileInv, Goto, Begin, Runs, faultVars, InProgress
<1>1. CASE TakeJob
  BY <1>1 DEF TakeJob
<1>2. CASE FindInvoice
  BY <1>2 DEF FindInvoice, Return
<1>3. CASE RefundPayment
  BY <1>3 DEF RefundPayment
<1>4. ASSUME NEW q \in Requests, Arrive(q)
      PROVE  FileInv'
  BY <1>4 DEF Arrive
<1>5. CASE \E r \in Runs : Step(r) \/ Fault(r)
  BY <1>5, FileSteps
<1>6. CASE UNCHANGED vars
  BY <1>6 DEF vars
<1> QED
  BY <1>1, <1>2, <1>3, <1>4, <1>5, <1>6 DEF Next

\* When all runs are over and none has crashed, no file is left that no pdfUrl
\* refers to, however the runs overlapped (invoice.service.js:167,
\* invoicePdf.js:66).
THEOREM FilesAreReferred == Spec => []NoOrphanFile
<1>1. Init => FileInv
  BY DEF Init, FileInv
<1>2. TypeOK /\ FileInv /\ [Next]_vars => FileInv'
  BY FileStep
<1>3. FileInv => NoOrphanFile
  BY DEF FileInv, NoOrphanFile, InProgress
<1> QED
  BY <1>1, <1>2, <1>3, InvoicesTypeCorrect, PTL DEF Spec

----------------------------------------------------------------------------
(* One run at a time: the run in progress knows the row, the file and that *)
(* no mail has been sent.                                                  *)

AloneInv ==
  ~overlapped =>
    /\ \A r, q \in Runs : pc[r] # "idle" /\ pc[q] # "idle" => r = q
    /\ \A r \in Runs : pc[r] \in {"open", "write", "save"} => invoice = "bare"
    /\ \A r \in Runs : pc[r] = "write" => file = r
    /\ \A r \in Runs : pc[r] \in {"save", "mail"} => file = "whole"
    /\ \A r \in Runs : pc[r] = "mail" => \A q \in Runs : mailed[q] = "no"
    /\ UrlHasFile
    /\ OneMailWithPdf

LEMMA AloneSteps ==
  ASSUME TypeOK, RowInv, AloneInv, NEW r \in Runs, Step(r) \/ Fault(r)
  PROVE  AloneInv'
<1> USE DEF TypeOK, RowInv, AloneInv, UrlHasFile, OneMailWithPdf, Goto, Return, Throw, endVars, jobVars, faultVars
<1>1. CASE ReadOrder(r)
  BY <1>1 DEF ReadOrder
<1>2. CASE Lookup(r)
  BY <1>2 DEF Lookup
<1>3. CASE Create(r)
  BY <1>3 DEF Create
<1>4. CASE NumberCollision(r)
  BY <1>4 DEF NumberCollision
<1>5. CASE OpenFile(r)
  BY <1>5 DEF OpenFile
<1>6. CASE FinishFile(r)
  BY <1>6, InvoicesAssumption DEF FinishFile
<1>7. CASE SaveUrl(r)
  BY <1>7 DEF SaveUrl
<1>8. CASE SendInvoice(r)
  BY <1>8 DEF SendInvoice, Attachment, Mail
<1>9. CASE CallFails(r)
  BY <1>9 DEF CallFails
<1>10. CASE PdfFails(r)
  BY <1>10 DEF PdfFails
<1>11. CASE SaveFails(r)
  BY <1>11 DEF SaveFails
<1>12. CASE Crash(r)
  BY <1>12 DEF Crash
<1> QED
  BY <1>1, <1>2, <1>3, <1>4, <1>5, <1>6, <1>7, <1>8, <1>9, <1>10, <1>11, <1>12 DEF Step, Fault

LEMMA AloneStep == TypeOK /\ RowInv /\ AloneInv /\ [Next]_vars => AloneInv'
<1> SUFFICES ASSUME TypeOK, RowInv, AloneInv, [Next]_vars
             PROVE  AloneInv'
  OBVIOUS
<1> USE DEF TypeOK, AloneInv, UrlHasFile, OneMailWithPdf, Goto, Begin, InProgress, Runs, endVars, jobVars, faultVars
<1>1. CASE TakeJob
  BY <1>1 DEF TakeJob
<1>2. CASE FindInvoice
  BY <1>2 DEF FindInvoice, Return
<1>3. CASE RefundPayment
  BY <1>3 DEF RefundPayment
<1>4. ASSUME NEW q \in Requests, Arrive(q)
      PROVE  AloneInv'
  BY <1>4 DEF Arrive
<1>5. CASE \E r \in Runs : Step(r) \/ Fault(r)
  BY <1>5, AloneSteps
<1>6. CASE UNCHANGED vars
  BY <1>6 DEF vars
<1> QED
  BY <1>1, <1>2, <1>3, <1>4, <1>5, <1>6 DEF Next

LEMMA AloneAlways == Spec => []AloneInv
<1>1. Init => RowInv /\ AloneInv
  BY DEF Init, RowInv, DoneMeansInvoiced, AloneInv, UrlHasFile, OneMailWithPdf, Runs
<1>2. TypeOK /\ RowInv /\ AloneInv /\ [Next]_vars => (RowInv /\ AloneInv)'
  BY RowStep, AloneStep
<1> QED
  BY <1>1, <1>2, InvoicesTypeCorrect, PTL DEF Spec

\* Without overlap a saved pdfUrl leads to a whole file, whatever failed or
\* crashed before, unless a saved update failed for its caller
\* (invoice.service.js:167).
THEOREM UrlsHaveFiles == Spec => []UrlHasFile
<1>1. AloneInv => UrlHasFile
  BY DEF AloneInv, UrlHasFile
<1> QED
  BY <1>1, AloneAlways, PTL

\* Without overlap one mail is sent at most, and with the PDF
\* (invoice.service.js:197).
THEOREM OneMailOnly == Spec => []OneMailWithPdf
<1>1. AloneInv => OneMailWithPdf
  BY DEF AloneInv, OneMailWithPdf
<1> QED
  BY <1>1, AloneAlways, PTL
=============================================================================
