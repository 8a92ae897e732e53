------------------------ MODULE ReconciliationProofs ------------------------
(***************************************************************************)
(* Theorems about Reconciliation.  What a snapshot is worth while payments *)
(* move: RemoteInv says what the two sides of a payment can be together,   *)
(* AlarmInv and SnapshotInv what the snapshot still says about a payment   *)
(* that has, or has not, differed meanwhile, and CoverInv which payments   *)
(* the job has already flagged at each of its stages.                      *)
(***************************************************************************)
EXTENDS Reconciliation, FiniteSetTheorems, SequenceTheorems, TLAPS

Working == pc \in {"query", "save", "review"}
InReach(p) == Cardinality(Newer(p)) < Limit

\* A payment that has succeeded here has succeeded at Stripe; Cashfree's are pending.
RemoteInv ==
  \A p \in Payments :
    /\ status[p] \in {"SUCCESS", "PARTIALLY_REFUNDED", "REFUNDED"} => remote[p] = "succeeded"
    /\ GatewayOf[p] = "CASHFREE" => remote[p] \in CashfreeStatus /\ status[p] \in {"ABSENT", "PENDING"}
    /\ p \in declined => GatewayOf[p] = "STRIPE"
    /\ GatewayOf[p] = "STRIPE" => remote[p] \in StripeStatus

\* A payment that has not differed since the selection is as it was then.
AlarmInv ==
  /\ Working => \A p \in todo :
       /\ read[p] # "ABSENT"
       /\ p \notin differed => read[p] = status[p] /\ ~Differs(p)
  /\ AlarmWasTrue

\* The snapshot of a payment that has differed all the time is no answer of the gateway's.
SnapshotInv ==
  /\ \A p \in lasting : Differs(p)
  /\ Working => \A p \in todo :
       /\ read[p] = "SUCCESS" => remote[p] = "succeeded"
       /\ read[p] = "FAILED" => remote[p] = "succeeded" \/ status[p] = "FAILED"
       /\ p \in lasting => read[p] # Mapped(remote[p])

\* At each stage, the payments that must be flagged already.
CoverInv ==
  \A p \in lasting : InReach(p) =>
    /\ pc # "idle" /\ gateway # FirstGateway /\ GatewayOf[p] = FirstGateway => p \in flagged
    /\ Working /\ GatewayOf[p] = gateway => p \in flagged \cup todo
    /\ job = "completed" /\ Asked \in {"ALL", GatewayOf[p]} => p \in flagged

OrderInv == gateway = FirstGateway \/ (Asked = "ALL" /\ gateway = "CASHFREE")

\* The records of p, and whether this attempt may still file one.
RecordsOf(p) == {i \in DOMAIN records : records[i].payment = p}
Ahead(p) ==
  \/ job = "waiting"
  \/ pc = "select" /\ GatewayOf[p] = gateway
  \/ gateway = "STRIPE" /\ GatewayOf[p] = "CASHFREE"
  \/ p \in todo

CountInv ==
  \A p \in Payments :
    /\ IsFiniteSet(RecordsOf(p))
    /\ Cardinality(RecordsOf(p)) <= faults + crashes + 1
    /\ (Ahead(p) => Cardinality(RecordsOf(p)) <= faults + crashes)

----------------------------------------------------------------------------
(* Types.                                                                  *)

LEMMA FileTypes ==
  ASSUME TypeOK, NEW p \in Payments, NEW s \in {"MISMATCH", "MANUAL_REVIEW"}, File(p, s)
  PROVE  /\ records' \in Seq(Record) /\ DOMAIN records' = 1..(Len(records) + 1)
         /\ DOMAIN records = 1..Len(records) /\ Len(records) \in Nat
         /\ \A i \in DOMAIN records : records'[i] = records[i]
         /\ records'[Len(records) + 1].payment = p
         /\ flagged' \subseteq Payments
BY DEF File, Record, TypeOK

\* A step of the worker or of a failing call that leaves payments and administrators alone.
WorkerTypes ==
  /\ gateway \in Gateways
  /\ job \in {"waiting", "active", "completed", "failed"}
  /\ attempts \in 0..MaxAttempts /\ (attempts = MaxAttempts => job = "failed")
  /\ stalls \in Nat
  /\ pc \in {"idle", "select", "query", "save", "review"}
  /\ (job = "active") = (pc # "idle")
  /\ todo \subseteq Of(gateway) /\ (pc \in {"idle", "select"} => todo = {})
  /\ read \in [Payments -> PaymentStatus]
  /\ answer \in {"none", "QUERY_FAILED"} \cup PaymentStatus

RecordTypes ==
  /\ records \in Seq(Record)
  /\ auditLog \subseteq Admins \X (DOMAIN records)
  /\ admin \in [Admins -> [stage : {"idle", "audit", "done"}, record : {0} \cup DOMAIN records]]
  /\ \A a \in Admins : admin[a].stage = "audit" => admin[a].record \in DOMAIN records

OtherTypes ==
  /\ status \in [Payments -> PaymentStatus]
  /\ remote \in [Payments -> StripeStatus \cup CashfreeStatus]
  /\ declined \subseteq Payments
  /\ moves \in Nat /\ faults \in Nat /\ crashes \in Nat
  /\ flagged \subseteq Payments /\ lasting \subseteq Payments /\ differed \subseteq Payments

LEMMA TypeParts ==
  /\ TypeOK <=> WorkerTypes /\ RecordTypes /\ OtherTypes
  /\ TypeOK' <=> WorkerTypes' /\ RecordTypes' /\ OtherTypes'
BY DEF TypeOK, WorkerTypes, RecordTypes, OtherTypes

LEMMA FiledTypes ==
  ASSUME TypeOK, NEW p \in Payments, NEW s \in {"MISMATCH", "MANUAL_REVIEW"}, File(p, s), UNCHANGED adminVars
  PROVE  RecordTypes' /\ flagged' \subseteq Payments
<1>1. DOMAIN records \subseteq DOMAIN records'
  BY FileTypes
<1>2. admin' = admin /\ auditLog' = auditLog
  BY DEF adminVars
<1>3. auditLog' \subseteq Admins \X (DOMAIN records')
  BY <1>1, <1>2 DEF TypeOK
<1>4. admin' \in [Admins -> [stage : {"idle", "audit", "done"}, record : {0} \cup DOMAIN records']]
  <2>1. \A a \in Admins : admin[a] \in [stage : {"idle", "audit", "done"}, record : {0} \cup DOMAIN records]
    BY DEF TypeOK
  <2>2. \A a \in Admins : admin[a] \in [stage : {"idle", "audit", "done"}, record : {0} \cup DOMAIN records']
    BY <1>1, <2>1
  <2> QED
    BY <1>2, <2>2 DEF TypeOK
<1>5. \A a \in Admins : admin'[a].stage = "audit" => admin'[a].record \in DOMAIN records'
  BY <1>1, <1>2 DEF TypeOK
<1> QED
  BY <1>3, <1>4, <1>5, FileTypes DEF RecordTypes

LEMMA SameRecords ==
  ASSUME TypeOK, UNCHANGED records, UNCHANGED adminVars
  PROVE  RecordTypes'
BY DEF TypeOK, RecordTypes, adminVars

LEMMA MoveTypes ==
  ASSUME TypeOK, NEW p \in Payments, CreatePayment(p) \/ RemoteMoves(p) \/ Decline(p) \/ StripeEvent(p) \/ Refund(p)
  PROVE  TypeOK'
<1> USE DEF CreatePayment, RemoteMoves, Decline, StripeEvent, Refund, PaymentMoves, Others
<1>1. WorkerTypes'
  BY DEF TypeOK, WorkerTypes, jobVars
<1>2. RecordTypes'
  BY SameRecords
<1>3. status' \in [Payments -> PaymentStatus]
  BY DEF TypeOK, PaymentStatus
<1>4. remote' \in [Payments -> StripeStatus \cup CashfreeStatus]
  BY DEF TypeOK, StripeStatus, CashfreeStatus
<1>5. /\ declined' \subseteq Payments /\ flagged' \subseteq Payments
      /\ moves' \in Nat /\ faults' \in Nat /\ crashes' \in Nat
  BY DEF TypeOK
<1>6. lasting' \subseteq Payments /\ differed' \subseteq Payments
  BY DEF TypeOK, Observe
<1> QED
  BY <1>1, <1>2, <1>3, <1>4, <1>5, <1>6, TypeParts DEF OtherTypes

LEMMA JobTypes ==
  ASSUME TypeOK, JobStep \/ Throw \/ Crash \/ \E p \in Payments : SaveFails(p)
  PROVE  TypeOK'
<1> USE DEF paymentVars, jobVars, historyVars
<1>m. \A s : Mapped(s) \in PaymentStatus
  BY DEF Mapped, PaymentStatus
<1>g. FirstGateway \in Gateways
  BY ReconciliationAssumption DEF FirstGateway, Gateways
<1>n. [p \in Payments |-> "ABSENT"] \in [Payments -> PaymentStatus]
  BY DEF PaymentStatus
<1>1. CASE TakeJob
  <2>1. WorkerTypes'
    BY <1>1, <1>g DEF TakeJob, TypeOK, WorkerTypes
  <2>2. OtherTypes'
    BY <1>1 DEF TakeJob, TypeOK, OtherTypes
  <2> QED
    BY <1>1, <2>1, <2>2, SameRecords, TypeParts DEF TakeJob
<1>2. CASE SelectPayments
  <2>1. todo' \subseteq Of(gateway) /\ read' \in [Payments -> PaymentStatus]
    BY <1>2 DEF SelectPayments, Selected, TypeOK, PaymentStatus
  <2>2. WorkerTypes' /\ OtherTypes'
    BY <1>2, <2>1 DEF SelectPayments, TypeOK, WorkerTypes, OtherTypes
  <2> QED
    BY <1>2, <2>2, SameRecords, TypeParts DEF SelectPayments
<1>3. CASE FinishGateway
  <2>1. WorkerTypes' /\ OtherTypes'
    BY <1>3 DEF FinishGateway, TypeOK, WorkerTypes, OtherTypes, Gateways, Of
  <2> QED
    BY <1>3, <2>1, SameRecords, TypeParts DEF FinishGateway
<1>4. ASSUME NEW p \in Payments, QueryGateway(p) \/ QueryFails(p)
      PROVE  TypeOK'
  <2>1. WorkerTypes' /\ OtherTypes'
    BY <1>4, <1>m DEF QueryGateway, QueryFails, Tick, TypeOK, WorkerTypes, OtherTypes, PaymentStatus
  <2> QED
    BY <1>4, <2>1, SameRecords, TypeParts DEF QueryGateway, QueryFails
<1>5. ASSUME NEW p \in Payments, SaveMismatch(p) \/ SaveReview(p)
      PROVE  TypeOK'
  <2>1. WorkerTypes'
    BY <1>5 DEF SaveMismatch, SaveReview, Tick, TypeOK, WorkerTypes, PaymentStatus
  <2>2. RecordTypes' /\ flagged' \subseteq Payments
    BY <1>5, FiledTypes DEF SaveMismatch, SaveReview
  <2> QED
    BY <1>5, <2>1, <2>2, TypeParts DEF SaveMismatch, SaveReview, TypeOK, OtherTypes
<1>6. ASSUME NEW p \in Payments, SaveFails(p)
      PROVE  TypeOK'
  <2>1. WorkerTypes'
    BY <1>6 DEF SaveFails, TypeOK, WorkerTypes
  <2>2. RecordTypes' /\ flagged' \subseteq Payments
    BY <1>6, FiledTypes, SameRecords DEF SaveFails, TypeOK
  <2> QED
    BY <1>6, <2>1, <2>2, TypeParts DEF SaveFails, Failing, TypeOK, OtherTypes
<1>7. CASE Throw
  <2>0. attempts + 1 \in 0..MaxAttempts
    BY <1>7, ReconciliationAssumption DEF Throw, TypeOK
  <2>1. WorkerTypes'
    BY <1>7, <1>n, <2>0, ReconciliationAssumption DEF Throw, Forget, TypeOK, WorkerTypes
  <2>2. RecordTypes' /\ flagged' \subseteq Payments
    <3>1. CASE UNCHANGED <<records, flagged>>
      BY <1>7, <3>1, SameRecords DEF Throw, TypeOK
    <3>2. ASSUME NEW p \in todo, File(p, "MANUAL_REVIEW")
          PROVE  RecordTypes' /\ flagged' \subseteq Payments
      <4>1. p \in Payments
        BY DEF TypeOK, Of
      <4> QED
        BY <1>7, <3>2, <4>1, FiledTypes DEF Throw
    <3> QED
      BY <1>7, <3>1, <3>2 DEF Throw
  <2> QED
    BY <1>7, <2>1, <2>2, TypeParts DEF Throw, Failing, TypeOK, OtherTypes
<1>8. CASE Crash
  <2>1. WorkerTypes'
    BY <1>8, <1>n, ReconciliationAssumption DEF Crash, Forget, TypeOK, WorkerTypes
  <2> QED
    BY <1>8, <2>1, SameRecords, TypeParts DEF Crash, TypeOK, OtherTypes
<1> QED
  BY <1>1, <1>2, <1>3, <1>4, <1>5, <1>6, <1>7, <1>8 DEF JobStep

LEMMA AdminTypes ==
  ASSUME TypeOK, NEW a \in Admins, (\E i \in DOMAIN records : Resolve(a, i)) \/ Audit(a) \/ AuditFails(a)
  PROVE  TypeOK'
<1>1. WorkerTypes'
  BY DEF AdminStep, jobVars, Resolve, Audit, AuditFails, TypeOK, WorkerTypes
<1>2. OtherTypes'
  BY DEF AdminStep, paymentVars, historyVars, Resolve, Audit, AuditFails, Failing, TypeOK, OtherTypes
<1>3. ASSUME NEW i \in DOMAIN records, Resolve(a, i)
      PROVE  TypeOK'
  <2> DEFINE e == [payment |-> records[i].payment, status |-> "RESOLVED", resolvedBy |-> a]
  <2>0. records \in Seq(Record) /\ i \in 1..Len(records)
    BY <1>3, LenProperties DEF TypeOK
  <2>1. records[i] \in Record /\ e \in Record
    <3>1. records[i] \in Record
      BY <2>0, ElementOfSeq
    <3> QED
      BY <3>1 DEF Record
  <2>2. records' = [records EXCEPT ![i] = e]
    BY <1>3, <2>1 DEF Resolve, Overwrite
  <2>3. records' \in Seq(Record) /\ Len(records') = Len(records)
    BY <2>0, <2>1, <2>2, ExceptSeq
  <2>4. DOMAIN records' = DOMAIN records
    BY <2>0, <2>3, LenProperties
  <2>5. RecordTypes'
    BY <1>3, <2>3, <2>4 DEF Resolve, TypeOK, RecordTypes
  <2> QED
    BY <1>1, <1>2, <2>5, TypeParts
<1>4. CASE Audit(a)
  BY <1>1, <1>2, <1>4, TypeParts DEF Audit, EndRequest, TypeOK, RecordTypes
<1>5. CASE AuditFails(a)
  BY <1>1, <1>2, <1>5, TypeParts DEF AuditFails, EndRequest, TypeOK, RecordTypes
<1> QED
  BY <1>3, <1>4, <1>5

LEMMA InitTypes == Init => TypeOK
<1> SUFFICES ASSUME Init PROVE TypeOK
  OBVIOUS
<1>1. FirstGateway \in Gateways
  BY ReconciliationAssumption DEF FirstGateway, Gateways
<1>2. WorkerTypes
  BY <1>1, ReconciliationAssumption DEF Init, WorkerTypes, PaymentStatus
<1>3. RecordTypes
  BY EmptySeq DEF Init, RecordTypes
<1>4. OtherTypes
  BY DEF Init, OtherTypes, PaymentStatus, StripeStatus, CashfreeStatus
<1> QED
  BY <1>2, <1>3, <1>4, TypeParts

LEMMA NextTypes == TypeOK /\ [Next]_vars => TypeOK'
<1> SUFFICES ASSUME TypeOK, [Next]_vars PROVE TypeOK'
  OBVIOUS
<1>1. CASE Next
  BY <1>1, MoveTypes, JobTypes, AdminTypes DEF Next
<1>2. CASE UNCHANGED vars
  BY <1>2 DEF vars, paymentVars, jobVars, adminVars, historyVars, TypeOK, Of
<1> QED
  BY <1>1, <1>2

\* Every variable keeps its type, for any payments and administrators; among it that
\* the list of a run holds payments of its gateway only (reconciliation.service.js:17).
THEOREM ReconciliationTypeCorrect == Spec => []TypeOK
BY InitTypes, NextTypes, PTL DEF Spec

----------------------------------------------------------------------------
(* Alarms, and what is overlooked.                                         *)

PaymentMove(p) == CreatePayment(p) \/ RemoteMoves(p) \/ Decline(p) \/ StripeEvent(p) \/ Refund(p)

LEMMA MappedValues ==
  /\ Mapped("requires_payment_method") = "PENDING" /\ Mapped("ACTIVE") = "PENDING"
  /\ Mapped("succeeded") = "SUCCESS" /\ Mapped("PAID") = "SUCCESS"
  /\ Mapped("canceled") = "FAILED" /\ Mapped("EXPIRED") = "FAILED"
  /\ \A s : Mapped(s) \in {"PENDING", "SUCCESS", "FAILED"}
BY DEF Mapped

\* One side of a payment moves at a time, and rows do not go away.
LEMMA OneSideMoves ==
  ASSUME TypeOK, NEW p \in Payments, PaymentMove(p)
  PROVE  /\ UNCHANGED <<job, pc, gateway, todo, read, flagged, records, faults, crashes>>
         /\ Observe
         /\ \A q \in Payments : status'[q] = status[q] \/ remote'[q] = remote[q]
         /\ \A q \in Payments : remote[q] = "succeeded" => remote'[q] = "succeeded"
         /\ \A q \in Payments : status[q] # "ABSENT" => status'[q] # "ABSENT"
<1> USE DEF PaymentMove, CreatePayment, RemoteMoves, Decline, StripeEvent, Refund, PaymentMoves, Others
<1>1. UNCHANGED <<job, pc, gateway, todo, read, flagged, records, faults, crashes>> /\ Observe
  BY DEF jobVars
<1>2. \A q \in Payments : status'[q] = status[q] \/ remote'[q] = remote[q]
  BY DEF TypeOK
<1>3. \A q \in Payments : remote[q] = "succeeded" => remote'[q] = "succeeded"
  BY DEF TypeOK
<1>4. \A q \in Payments : status[q] # "ABSENT" => status'[q] # "ABSENT"
  BY DEF TypeOK
<1> QED
  BY <1>1, <1>2, <1>3, <1>4

LEMMA MoveKeepsRemote ==
  ASSUME TypeOK, RemoteInv, NEW p \in Payments, PaymentMove(p)
  PROVE  RemoteInv'
<1> SUFFICES ASSUME NEW q \in Payments
             PROVE  /\ status'[q] \in {"SUCCESS", "PARTIALLY_REFUNDED", "REFUNDED"} => remote'[q] = "succeeded"
                    /\ GatewayOf[q] = "CASHFREE" =>
                         remote'[q] \in CashfreeStatus /\ status'[q] \in {"ABSENT", "PENDING"}
                    /\ q \in declined' => GatewayOf[q] = "STRIPE"
                    /\ GatewayOf[q] = "STRIPE" => remote'[q] \in StripeStatus
  BY DEF RemoteInv
<1>g. GatewayOf[q] \in Gateways
  BY ReconciliationAssumption
<1>1. CASE CreatePayment(p)
  BY <1>1 DEF CreatePayment, RemoteInv, TypeOK
<1>2. CASE RemoteMoves(p)
  BY <1>2, <1>g DEF RemoteMoves, RemoteInv, TypeOK, StripeStatus, CashfreeStatus, Gateways
<1>3. CASE Decline(p)
  BY <1>3, <1>g DEF Decline, RemoteInv, TypeOK, CashfreeStatus, Gateways
<1>4. CASE StripeEvent(p)
  BY <1>4, <1>g DEF StripeEvent, RemoteInv, TypeOK, CashfreeStatus, Gateways
<1>5. CASE Refund(p)
  BY <1>5, <1>g DEF Refund, RemoteInv, TypeOK, CashfreeStatus, Gateways
<1> QED
  BY <1>1, <1>2, <1>3, <1>4, <1>5 DEF PaymentMove

LEMMA MoveKeepsAlarm ==
  ASSUME TypeOK, AlarmInv, NEW p \in Payments, PaymentMove(p)
  PROVE  AlarmInv'
<1>1. todo \subseteq Payments
  BY DEF TypeOK, Of
<1>2. \A q \in Payments : q \notin differed' => q \notin differed /\ ~Differs(q)'
  BY OneSideMoves DEF Observe
<1>0. Working' => \A q \in todo' : read'[q] # "ABSENT"
  BY OneSideMoves DEF AlarmInv, Working
<1>3. ASSUME Working', NEW q \in todo', q \notin differed'
      PROVE  read'[q] = status'[q] /\ ~Differs(q)'
  <2>1. q \in todo /\ q \in Payments /\ Working /\ read' = read
    BY <1>1, <1>3, OneSideMoves DEF Working
  <2>2. read[q] = status[q] /\ ~Differs(q) /\ ~Differs(q)'
    BY <1>2, <1>3, <2>1 DEF AlarmInv
  <2>3. CASE status'[q] = status[q]
    BY <2>1, <2>2, <2>3
  <2>4. CASE status'[q] # status[q]
    <3>1. remote'[q] = remote[q]
      BY <2>1, <2>4, OneSideMoves
    <3>2. CASE status[q] = "ABSENT"
      BY <2>1, <2>2, <3>2 DEF AlarmInv
    <3>3. CASE status[q] # "ABSENT"
      BY <2>1, <2>2, <3>1, <3>3, OneSideMoves DEF Differs
    <3> QED
      BY <3>2, <3>3
  <2> QED
    BY <2>3, <2>4
<1>4. AlarmWasTrue'
  BY OneSideMoves DEF AlarmInv, AlarmWasTrue, First, Observe
<1> QED
  BY <1>0, <1>3, <1>4 DEF AlarmInv

LEMMA MoveKeepsSnapshot ==
  ASSUME TypeOK, SnapshotInv, NEW p \in Payments, PaymentMove(p)
  PROVE  SnapshotInv'
<1>0. todo \subseteq Payments /\ lasting \subseteq Payments
  BY DEF TypeOK, Of
<1>1. \A q \in lasting' : Differs(q)' /\ q \in lasting
  BY OneSideMoves DEF Observe
<1>2. SUFFICES ASSUME Working', NEW q \in todo'
               PROVE  /\ read'[q] = "SUCCESS" => remote'[q] = "succeeded"
                      /\ read'[q] = "FAILED" => remote'[q] = "succeeded" \/ status'[q] = "FAILED"
                      /\ q \in lasting' => read'[q] # Mapped(remote'[q])
  BY <1>1 DEF SnapshotInv
<1>3. Working /\ q \in todo /\ q \in Payments /\ read' = read
  BY <1>0, <1>2, OneSideMoves DEF Working
<1>4. read[q] = "SUCCESS" => remote'[q] = "succeeded"
  BY <1>3, OneSideMoves DEF SnapshotInv
<1>5. read[q] = "FAILED" => remote'[q] = "succeeded" \/ status'[q] = "FAILED"
  <2>1. CASE CreatePayment(p)
    BY <1>3, <2>1 DEF CreatePayment, SnapshotInv, TypeOK
  <2>2. CASE RemoteMoves(p)
    BY <1>3, <2>2 DEF RemoteMoves, SnapshotInv, TypeOK
  <2>3. CASE Decline(p)
    BY <1>3, <2>3 DEF Decline, SnapshotInv, TypeOK
  <2>4. CASE StripeEvent(p)
    BY <1>3, <2>4 DEF StripeEvent, SnapshotInv, TypeOK
  <2>5. CASE Refund(p)
    BY <1>3, <2>5 DEF Refund, SnapshotInv, TypeOK
  <2> QED
    BY <2>1, <2>2, <2>3, <2>4, <2>5 DEF PaymentMove
<1>6. ASSUME q \in lasting' PROVE read[q] # Mapped(remote'[q])
  <2>1. read[q] # Mapped(remote[q]) /\ Differs(q)'
    BY <1>1, <1>3, <1>6 DEF SnapshotInv
  <2>2. CASE remote'[q] = remote[q]
    BY <2>1, <2>2
  <2>3. CASE remote'[q] # remote[q]
    <3>1. /\ status'[q] = status[q] /\ remote[q] # "succeeded"
          /\ remote'[q] \in {"succeeded", "canceled", "PAID", "EXPIRED"}
      BY <1>3, <2>3 DEF PaymentMove, CreatePayment, RemoteMoves, Decline, StripeEvent, Refund, TypeOK
    <3>2. CASE remote'[q] \in {"succeeded", "PAID"}
      BY <1>3, <3>1, <3>2, MappedValues DEF SnapshotInv
    <3>3. CASE remote'[q] \in {"canceled", "EXPIRED"}
      BY <1>3, <2>1, <3>1, <3>3, MappedValues DEF SnapshotInv, Differs
    <3> QED
      BY <3>1, <3>2, <3>3
  <2> QED
    BY <2>2, <2>3
<1> QED
  BY <1>3, <1>4, <1>5, <1>6

LEMMA ReachShrinks ==
  ASSUME NEW q \in Payments, Stored \subseteq Stored', InReach(q)'
  PROVE  InReach(q)
<1>1. Newer(q) \subseteq Newer(q)' /\ Newer(q)' \subseteq Payments
  BY DEF Newer, Stored
<1>2. IsFiniteSet(Newer(q)')
  BY <1>1, FS_Subset, ReconciliationAssumption
<1>3. /\ Cardinality(Newer(q)) <= Cardinality(Newer(q)')
      /\ Cardinality(Newer(q)) \in Nat /\ Cardinality(Newer(q)') \in Nat
  BY <1>1, <1>2, FS_Subset, FS_CardinalityType
<1> QED
  BY <1>3, ReconciliationAssumption DEF InReach

LEMMA MoveKeepsCover ==
  ASSUME TypeOK, CoverInv, NEW p \in Payments, PaymentMove(p)
  PROVE  CoverInv'
<1>1. Stored \subseteq Stored'
  BY OneSideMoves DEF Stored
<1>2. \A q \in lasting' : q \in lasting /\ q \in Payments
  BY OneSideMoves DEF Observe, TypeOK
<1>3. \A q \in lasting' : InReach(q)' => InReach(q)
  BY <1>1, <1>2, ReachShrinks
<1> QED
  BY <1>2, <1>3, OneSideMoves DEF CoverInv, Working, FirstGateway

Inv == TypeOK /\ OrderInv /\ RemoteInv /\ AlarmInv /\ SnapshotInv /\ CoverInv

LEMMA MoveKeepsInv ==
  ASSUME Inv, NEW p \in Payments, PaymentMove(p)
  PROVE  Inv'
<1>1. TypeOK'
  BY MoveTypes DEF Inv, PaymentMove
<1>2. OrderInv'
  BY OneSideMoves DEF Inv, OrderInv, FirstGateway
<1> QED
  BY <1>1, <1>2, MoveKeepsRemote, MoveKeepsAlarm, MoveKeepsSnapshot, MoveKeepsCover DEF Inv

\* A step that moves no payment: what the invariants say of payments stays.
LEMMA SamePayments ==
  ASSUME UNCHANGED paymentVars
  PROVE  /\ \A q \in Payments : Differs(q)' = Differs(q) /\ InReach(q)' = InReach(q)
         /\ RemoteInv => RemoteInv'
BY DEF paymentVars, Differs, InReach, Newer, Stored, RemoteInv

LEMMA QuietKeepsInv ==
  ASSUME Inv, TypeOK', UNCHANGED <<paymentVars, job, pc, gateway, todo, read, flagged, historyVars>>
  PROVE  Inv'
<1> USE SamePayments DEF paymentVars, historyVars, Inv, Working
<1>1. OrderInv'
  BY DEF OrderInv, FirstGateway
<1>2. AlarmInv'
  BY DEF AlarmInv, AlarmWasTrue, First, TypeOK, Of
<1>3. SnapshotInv'
  BY DEF SnapshotInv, TypeOK, Of
<1>4. CoverInv'
  BY DEF CoverInv, FirstGateway, TypeOK
<1> QED
  BY <1>1, <1>2, <1>3, <1>4

\* The worker is idle again and the job is not completed.
LEMMA IdleKeepsInv ==
  ASSUME Inv, TypeOK', pc' = "idle", job' # "completed", UNCHANGED <<paymentVars, gateway, historyVars>>
  PROVE  Inv'
<1> USE SamePayments DEF paymentVars, historyVars, Inv
<1>1. OrderInv'
  BY DEF OrderInv, FirstGateway
<1>2. AlarmInv' /\ SnapshotInv' /\ CoverInv'
  BY DEF AlarmInv, AlarmWasTrue, SnapshotInv, CoverInv, Working, TypeOK
<1> QED
  BY <1>1, <1>2

LEMMA TakeKeepsInv == ASSUME Inv, TypeOK', TakeJob PROVE Inv'
<1> USE SamePayments DEF TakeJob, Inv
<1>1. OrderInv'
  BY DEF OrderInv, FirstGateway
<1>2. AlarmInv' /\ SnapshotInv' /\ CoverInv'
  BY DEF AlarmInv, AlarmWasTrue, SnapshotInv, CoverInv, Working, FirstGateway
<1> QED
  BY <1>1, <1>2

LEMMA SelectKeepsInv == ASSUME Inv, TypeOK', SelectPayments PROVE Inv'
<1> USE SamePayments DEF Inv
<1>0. /\ pc = "select" /\ pc' = "query" /\ todo' = Selected(gateway) /\ todo' \subseteq Payments
      /\ UNCHANGED <<status, remote, job, gateway, flagged, lasting>>
      /\ \A q \in todo' : read'[q] = status[q] /\ status[q] # "ABSENT"
      /\ differed' = {q \in Payments : Differs(q)}
  BY DEF SelectPayments, Selected, Stored, paymentVars, jobVars
<1>1. OrderInv'
  BY <1>0 DEF OrderInv, FirstGateway
<1>2. AlarmInv'
  <2>1. \A q \in todo' : read'[q] # "ABSENT" /\ (q \notin differed' => read'[q] = status'[q] /\ ~Differs(q)')
    BY <1>0 DEF Differs
  <2> QED
    BY <1>0, <2>1 DEF AlarmInv, AlarmWasTrue
<1>3. SnapshotInv'
  <2>1. ASSUME NEW q \in lasting' PROVE Differs(q)'
    BY <1>0 DEF SnapshotInv, Differs
  <2>2. ASSUME NEW q \in todo'
        PROVE  /\ read'[q] = "SUCCESS" => remote'[q] = "succeeded"
               /\ read'[q] = "FAILED" => remote'[q] = "succeeded" \/ status'[q] = "FAILED"
               /\ q \in lasting' => read'[q] # Mapped(remote'[q])
    <3>1. q \in lasting' => Differs(q)
      BY <1>0 DEF SnapshotInv
    <3> QED
      BY <1>0, <3>1 DEF RemoteInv, Differs
  <2> QED
    BY <2>1, <2>2 DEF SnapshotInv
<1>4. CoverInv'
  <2> SUFFICES ASSUME NEW q \in lasting', InReach(q)'
               PROVE  /\ gateway' # FirstGateway' /\ GatewayOf[q] = FirstGateway' => q \in flagged'
                      /\ GatewayOf[q] = gateway' => q \in todo'
                      /\ job' # "completed"
    BY DEF CoverInv
  <2>1. q \in lasting /\ q \in Payments /\ Differs(q) /\ job = "active"
    BY <1>0 DEF TypeOK, SnapshotInv
  <2>2. InReach(q)
    BY <2>1, SelectPayments DEF SelectPayments
  <2>3. q \in Stored
    BY <2>1 DEF Stored, Differs
  <2>4. GatewayOf[q] = gateway => q \in Selected(gateway)
    BY <2>1, <2>2, <2>3 DEF Selected, InReach, Of
  <2> QED
    BY <1>0, <2>1, <2>2, <2>4 DEF CoverInv, FirstGateway
<1> QED
  BY <1>1, <1>2, <1>3, <1>4 DEF SelectPayments

LEMMA FinishKeepsInv == ASSUME Inv, TypeOK', FinishGateway PROVE Inv'
<1> USE SamePayments DEF Inv, FinishGateway
<1>1. OrderInv'
  BY ReconciliationAssumption DEF OrderInv, FirstGateway, Gateways
<1>2. AlarmInv'
  BY DEF AlarmInv, AlarmWasTrue, Working
<1>3. SnapshotInv'
  BY DEF SnapshotInv, Working, historyVars, TypeOK
<1>4. CoverInv'
  <2> SUFFICES ASSUME NEW q \in lasting', InReach(q)'
               PROVE  /\ pc' # "idle" /\ gateway' # FirstGateway' /\ GatewayOf[q] = FirstGateway' => q \in flagged'
                      /\ Working' /\ GatewayOf[q] = gateway' => q \in flagged' \cup todo'
                      /\ job' = "completed" /\ Asked \in {"ALL", GatewayOf[q]} => q \in flagged'
    BY DEF CoverInv
  <2>1. /\ q \in lasting /\ q \in Payments /\ InReach(q)
        /\ flagged' = flagged /\ todo = {} /\ job = "active" /\ pc = "query"
    BY DEF TypeOK, historyVars
  <2>2. GatewayOf[q] = gateway => q \in flagged
    BY <2>1 DEF CoverInv, Working
  <2>3. gateway # FirstGateway /\ GatewayOf[q] = FirstGateway => q \in flagged
    BY <2>1 DEF CoverInv
  <2>4. GatewayOf[q] \in Gateways
    BY <2>1, ReconciliationAssumption
  <2>5. CASE Asked = "ALL" /\ gateway = "STRIPE"
    BY <2>1, <2>2, <2>5 DEF Working, FirstGateway
  <2>6. CASE ~(Asked = "ALL" /\ gateway = "STRIPE")
    BY <2>1, <2>2, <2>3, <2>4, <2>6 DEF Working, FirstGateway, OrderInv, Gateways
  <2> QED
    BY <2>5, <2>6
<1> QED
  BY <1>1, <1>2, <1>3, <1>4

\* One payment's turn: what is left of the list keeps its snapshot, and the payment is
\* flagged or does not differ.
LEMMA TurnKeepsInv ==
  ASSUME Inv, TypeOK', Working, Working', NEW p \in todo,
         UNCHANGED <<paymentVars, job, gateway, historyVars>>,
         \/ todo' = todo /\ read' = read /\ flagged \subseteq flagged'
         \/ /\ todo' = todo \ {p} /\ read' = [read EXCEPT ![p] = "ABSENT"]
            /\ flagged' = flagged \cup {p} \/ (flagged' = flagged /\ Mapped(remote[p]) = read[p]),
         pc' = "save" => todo' = todo /\ First(p) /\ Mapped(remote[p]) # read[p]
  PROVE  Inv'
<1> USE SamePayments DEF Inv
<1>0. /\ UNCHANGED <<status, remote, job, gateway, lasting, differed>>
      /\ todo \subseteq Payments /\ p \in Payments /\ lasting \subseteq Payments
      /\ \A q \in todo' : q \in todo /\ read'[q] = read[q]
  BY DEF paymentVars, historyVars, TypeOK, Of
<1>1. OrderInv'
  BY <1>0 DEF OrderInv, FirstGateway
<1>2. ASSUME NEW q \in todo'
      PROVE  read'[q] # "ABSENT" /\ (q \notin differed' => read'[q] = status'[q] /\ ~Differs(q)')
  BY <1>0 DEF AlarmInv
<1>3. AlarmWasTrue'
  <2> SUFFICES ASSUME pc' = "save", NEW q \in todo', First(q)' PROVE q \in differed'
    BY DEF AlarmWasTrue
  <2>1. q = p
    <3>1. q <= p /\ p <= q
      BY <1>0 DEF First
    <3>2. q \in Nat /\ p \in Nat
      BY <1>0, ReconciliationAssumption
    <3> QED
      BY <3>1, <3>2
  <2> QED
    BY <1>0, <2>1 DEF AlarmInv, Differs
<1>4. AlarmInv'
  BY <1>2, <1>3 DEF AlarmInv
<1>5. SnapshotInv'
  BY <1>0 DEF SnapshotInv
<1>6. CoverInv'
  <2> SUFFICES ASSUME NEW q \in lasting', InReach(q)'
               PROVE  /\ gateway' # FirstGateway' /\ GatewayOf[q] = FirstGateway' => q \in flagged'
                      /\ GatewayOf[q] = gateway' => q \in flagged' \cup todo'
                      /\ job' # "completed"
    BY DEF CoverInv
  <2>1. q \in lasting /\ q \in Payments /\ InReach(q) /\ pc # "idle" /\ job = "active" /\ flagged \subseteq flagged'
    BY <1>0 DEF TypeOK, Working
  <2>2. gateway # FirstGateway /\ GatewayOf[q] = FirstGateway => q \in flagged
    BY <2>1 DEF CoverInv
  <2>3. GatewayOf[q] = gateway => q \in flagged \cup todo
    BY <2>1 DEF CoverInv
  <2>4. q \in todo => q \in flagged' \cup todo'
    <3>1. q \in todo => read[q] # Mapped(remote[q])
      BY <2>1 DEF SnapshotInv
    <3> QED
      BY <3>1
  <2> QED
    BY <1>0, <2>1, <2>2, <2>3, <2>4 DEF FirstGateway
<1> QED
  BY <1>0, <1>1, <1>4, <1>5, <1>6

LEMMA PaymentTurn ==
  ASSUME Inv, TypeOK', NEW p \in Payments,
         QueryGateway(p) \/ QueryFails(p) \/ SaveMismatch(p) \/ SaveReview(p) \/ SaveFails(p)
  PROVE  Inv'
<1>0. p \in todo /\ First(p) /\ Working /\ Working' /\ UNCHANGED <<paymentVars, job, gateway, historyVars>>
  BY DEF QueryGateway, QueryFails, SaveMismatch, SaveReview, SaveFails, First, Working, Tick, jobVars
<1>1. CASE QueryGateway(p)
  BY <1>0, <1>1, TurnKeepsInv DEF QueryGateway, Tick
<1>2. CASE QueryFails(p)
  BY <1>0, <1>2, TurnKeepsInv DEF QueryFails
<1>3. CASE SaveMismatch(p) \/ SaveReview(p)
  BY <1>0, <1>3, TurnKeepsInv DEF SaveMismatch, SaveReview, File, Tick
<1>4. CASE SaveFails(p)
  BY <1>0, <1>4, TurnKeepsInv DEF SaveFails, File
<1> QED
  BY <1>1, <1>2, <1>3, <1>4

LEMMA NextKeepsInv == Inv /\ [Next]_vars => Inv'
<1> SUFFICES ASSUME Inv, [Next]_vars PROVE Inv'
  OBVIOUS
<1>0. TypeOK'
  BY NextTypes DEF Inv
<1>1. ASSUME NEW p \in Payments, PaymentMove(p) PROVE Inv'
  BY <1>1, MoveKeepsInv
<1>2. CASE TakeJob \/ SelectPayments \/ FinishGateway
  BY <1>0, <1>2, TakeKeepsInv, SelectKeepsInv, FinishKeepsInv
<1>3. ASSUME NEW p \in Payments,
             QueryGateway(p) \/ QueryFails(p) \/ SaveMismatch(p) \/ SaveReview(p) \/ SaveFails(p)
      PROVE  Inv'
  BY <1>0, <1>3, PaymentTurn
<1>4. CASE Throw \/ Crash
  BY <1>0, <1>4, IdleKeepsInv DEF Throw, Crash, Forget
<1>5. ASSUME NEW a \in Admins, (\E i \in DOMAIN records : Resolve(a, i)) \/ Audit(a) \/ AuditFails(a)
      PROVE  Inv'
  BY <1>0, <1>5, QuietKeepsInv DEF Resolve, Audit, AuditFails, AdminStep, jobVars
<1>6. CASE UNCHANGED vars
  BY <1>0, <1>6, QuietKeepsInv DEF vars, jobVars
<1> QED
  BY <1>1, <1>2, <1>3, <1>4, <1>5, <1>6 DEF Next, JobStep, PaymentMove

LEMMA InitInv == Init => Inv
<1> SUFFICES ASSUME Init PROVE Inv
  OBVIOUS
<1>1. TypeOK
  BY InitTypes
<1>2. OrderInv /\ AlarmInv /\ SnapshotInv /\ CoverInv
  BY DEF Init, OrderInv, AlarmInv, AlarmWasTrue, SnapshotInv, CoverInv, Working
<1>3. RemoteInv
  BY ReconciliationAssumption DEF Init, RemoteInv, StripeStatus, CashfreeStatus, Gateways
<1> QED
  BY <1>1, <1>2, <1>3 DEF Inv

LEMMA InvAlways == Spec => []Inv
BY InitInv, NextKeepsInv, PTL DEF Spec

\* A payment that moves on both sides while the run goes on is reported late at worst:
\* what is filed as a mismatch has been one since the selection (reconciliation.service.js:60).
THEOREM AlarmsWereTrue == Spec => []AlarmWasTrue
<1>1. Inv => AlarmWasTrue
  BY DEF Inv, AlarmInv
<1> QED
  BY <1>1, InvAlways, PTL

\* A completed job has flagged whatever differed all the time it ran and was within its
\* limit, for any payments, moves, failures and crashes (reconciliation.service.js:17).
THEOREM LastingDifferencesAreFlagged == Spec => []NothingOverlooked
<1>1. Inv => NothingOverlooked
  <2> SUFFICES ASSUME Inv, job = "completed", NEW p \in lasting,
                      Asked \in {"ALL", GatewayOf[p]}, Cardinality(Newer(p)) < Limit
               PROVE  p \in flagged
    BY DEF NothingOverlooked
  <2> QED
    BY DEF Inv, CoverInv, InReach
<1> QED
  BY <1>1, InvAlways, PTL

----------------------------------------------------------------------------
(* How often a payment is filed.                                           *)

\* A new record counts for its payment and for no other.
LEMMA FileCounts ==
  ASSUME TypeOK, CountInv, NEW p \in Payments, NEW s \in {"MISMATCH", "MANUAL_REVIEW"}, File(p, s)
  PROVE  /\ \A q \in Payments : q # p => RecordsOf(q)' = RecordsOf(q)
         /\ IsFiniteSet(RecordsOf(p)')
         /\ Cardinality(RecordsOf(p)') = Cardinality(RecordsOf(p)) + 1
<1>1. /\ DOMAIN records = 1..Len(records) /\ DOMAIN records' = 1..(Len(records) + 1) /\ Len(records) \in Nat
      /\ \A i \in DOMAIN records : records'[i] = records[i]
      /\ records'[Len(records) + 1].payment = p
  BY FileTypes
<1>2. DOMAIN records' = DOMAIN records \cup {Len(records) + 1} /\ Len(records) + 1 \notin DOMAIN records
  BY <1>1
<1>3. \A q \in Payments : q # p => RecordsOf(q)' = RecordsOf(q)
  BY <1>1, <1>2 DEF RecordsOf
<1>4. RecordsOf(p)' = RecordsOf(p) \cup {Len(records) + 1} /\ Len(records) + 1 \notin RecordsOf(p)
  BY <1>1, <1>2 DEF RecordsOf
<1>5. IsFiniteSet(RecordsOf(p))
  BY DEF CountInv
<1> QED
  BY <1>3, <1>4, <1>5, FS_AddElement

LEMMA Order == \A k, l, m \in Nat : k <= l + m => k <= l + m + 1
OBVIOUS

LEMMA OrderSucc ==
  ASSUME NEW k \in Nat, NEW l \in Nat, NEW m \in Nat, NEW n \in Nat, NEW o \in Nat, k <= l + m
  PROVE  /\ n + o = l + m => k + 1 <= n + o + 1
         /\ n + o = l + m + 1 => k + 1 <= n + o
OBVIOUS

\* What a payment may have had filed covers it after a step that files nothing of it.
LEMMA Allowance ==
  ASSUME NEW p \in Payments, NEW n \in Nat, n <= faults + crashes + 1 /\ (Ahead(p) => n <= faults + crashes),
         faults \in Nat, crashes \in Nat, faults' \in Nat, crashes' \in Nat,
         \/ faults' + crashes' = faults + crashes /\ (Ahead(p)' => Ahead(p))
         \/ faults' + crashes' = faults + crashes + 1
  PROVE  n <= faults' + crashes' + 1 /\ (Ahead(p)' => n <= faults' + crashes')
<1>1. CASE faults' + crashes' = faults + crashes + 1
  <2>1. n <= faults + crashes + 1
    OBVIOUS
  <2>2. n <= faults' + crashes'
    BY <1>1, <2>1
  <2>3. n <= faults' + crashes' + 1
    BY <2>2, Order
  <2> QED
    BY <2>2, <2>3
<1>2. CASE faults' + crashes' = faults + crashes /\ ~Ahead(p)'
  <2>1. n <= faults + crashes + 1
    OBVIOUS
  <2> QED
    BY <1>2, <2>1
<1>3. CASE faults' + crashes' = faults + crashes /\ Ahead(p)' /\ Ahead(p)
  BY <1>3
<1> QED
  BY <1>1, <1>2, <1>3

\* A step that files nothing and opens no payment for filing, or that is paid for.
LEMMA NothingFiled ==
  ASSUME TypeOK, TypeOK', CountInv,
         \A p \in Payments : RecordsOf(p)' = RecordsOf(p),
         \/ faults' + crashes' = faults + crashes /\ \A p \in Payments : Ahead(p)' => Ahead(p)
         \/ faults' + crashes' = faults + crashes + 1
  PROVE  CountInv'
<1> SUFFICES ASSUME NEW p \in Payments
             PROVE  /\ IsFiniteSet(RecordsOf(p)')
                    /\ Cardinality(RecordsOf(p)') <= faults' + crashes' + 1
                    /\ (Ahead(p)' => Cardinality(RecordsOf(p)') <= faults' + crashes')
  BY DEF CountInv
<1>1. /\ IsFiniteSet(RecordsOf(p)) /\ Cardinality(RecordsOf(p)) \in Nat
      /\ Cardinality(RecordsOf(p)) <= faults + crashes + 1
      /\ (Ahead(p) => Cardinality(RecordsOf(p)) <= faults + crashes)
  BY FS_CardinalityType DEF CountInv
<1>2. faults \in Nat /\ crashes \in Nat /\ faults' \in Nat /\ crashes' \in Nat
  BY DEF TypeOK
<1>3. RecordsOf(p)' = RecordsOf(p)
  OBVIOUS
<1>4. /\ Cardinality(RecordsOf(p)) <= faults' + crashes' + 1
      /\ (Ahead(p)' => Cardinality(RecordsOf(p)) <= faults' + crashes')
  BY <1>1, <1>2, Allowance
<1> QED
  BY <1>1, <1>3, <1>4

\* A step that files a record of the payment whose turn it is.
LEMMA OneFiled ==
  ASSUME TypeOK, TypeOK', CountInv, NEW p \in todo, NEW s \in {"MISMATCH", "MANUAL_REVIEW"}, File(p, s),
         \/ /\ faults' + crashes' = faults + crashes /\ ~Ahead(p)'
            /\ \A q \in Payments : Ahead(q)' => Ahead(q)
         \/ faults' + crashes' = faults + crashes + 1
  PROVE  CountInv'
<1>0. p \in Payments /\ Ahead(p)
  BY DEF TypeOK, Of, Ahead
<1> SUFFICES ASSUME NEW q \in Payments
             PROVE  /\ IsFiniteSet(RecordsOf(q)')
                    /\ Cardinality(RecordsOf(q)') <= faults' + crashes' + 1
                    /\ (Ahead(q)' => Cardinality(RecordsOf(q)') <= faults' + crashes')
  BY DEF CountInv
<1>1. /\ IsFiniteSet(RecordsOf(q)) /\ Cardinality(RecordsOf(q)) \in Nat
      /\ Cardinality(RecordsOf(q)) <= faults + crashes + 1
      /\ (Ahead(q) => Cardinality(RecordsOf(q)) <= faults + crashes)
  BY FS_CardinalityType DEF CountInv
<1>2. faults \in Nat /\ crashes \in Nat /\ faults' \in Nat /\ crashes' \in Nat
  BY DEF TypeOK
<1>3. CASE q = p
  <2>1. Cardinality(RecordsOf(q)) <= faults + crashes
    BY <1>0, <1>1, <1>2, <1>3
  <2>2. IsFiniteSet(RecordsOf(q)') /\ Cardinality(RecordsOf(q)') = Cardinality(RecordsOf(q)) + 1
    BY <1>0, <1>3, FileCounts
  <2>3. /\ Cardinality(RecordsOf(q)) + 1 <= faults' + crashes' + 1
        /\ (Ahead(q)' => Cardinality(RecordsOf(q)) + 1 <= faults' + crashes')
    <3>1. CASE faults' + crashes' = faults + crashes /\ ~Ahead(p)'
      <4>1. Cardinality(RecordsOf(q)) + 1 <= faults' + crashes' + 1
        BY ONLY <1>1, <1>2, <2>1, <3>1, OrderSucc
      <4> QED
        BY <1>3, <3>1, <4>1
    <3>2. CASE faults' + crashes' = faults + crashes + 1
      <4>1. Cardinality(RecordsOf(q)) + 1 <= faults' + crashes'
        BY ONLY <1>1, <1>2, <2>1, <3>2, OrderSucc
      <4>2. Cardinality(RecordsOf(q)) + 1 \in Nat
        BY <1>1
      <4>3. Cardinality(RecordsOf(q)) + 1 <= faults' + crashes' + 1
        BY ONLY <1>2, <4>1, <4>2, Order
      <4> QED
        BY <4>1, <4>3
    <3> QED
      BY <3>1, <3>2
  <2> QED
    BY <2>2, <2>3
<1>4. CASE q # p
  <2>1. RecordsOf(q)' = RecordsOf(q)
    BY <1>0, <1>4, FileCounts
  <2>2. /\ Cardinality(RecordsOf(q)) <= faults' + crashes' + 1
        /\ (Ahead(q)' => Cardinality(RecordsOf(q)) <= faults' + crashes')
    BY <1>1, <1>2, Allowance
  <2> QED
    BY <1>1, <2>1, <2>2
<1> QED
  BY <1>3, <1>4

LEMMA NextKeepsCount == TypeOK /\ OrderInv /\ CountInv /\ [Next]_vars => CountInv'
<1> SUFFICES ASSUME TypeOK, OrderInv, CountInv, [Next]_vars PROVE CountInv'
  OBVIOUS
<1>0. TypeOK' /\ todo \subseteq Payments /\ faults \in Nat /\ crashes \in Nat
  BY NextTypes DEF TypeOK, Of
<1>s. records' = records => \A p \in Payments : RecordsOf(p)' = RecordsOf(p)
  BY DEF RecordsOf
<1>1. ASSUME NEW p \in Payments, PaymentMove(p) PROVE CountInv'
  BY <1>0, <1>1, <1>s, OneSideMoves, NothingFiled DEF Ahead
<1>2. CASE TakeJob
  BY <1>0, <1>2, <1>s, NothingFiled DEF TakeJob, Ahead
<1>3. CASE SelectPayments
  BY <1>0, <1>3, <1>s, NothingFiled DEF SelectPayments, Ahead, Selected, Of, jobVars
<1>4. CASE FinishGateway
  <2>1. \A p \in Payments : Ahead(p)' => Ahead(p)
    BY <1>4 DEF FinishGateway, Ahead, TypeOK, Of
  <2> QED
    BY <1>0, <1>4, <1>s, <2>1, NothingFiled DEF FinishGateway
<1>5. ASSUME NEW p \in Payments, QueryGateway(p) \/ QueryFails(p) PROVE CountInv'
  <2>1. /\ UNCHANGED <<records, job, gateway, faults, crashes>> /\ pc' # "select" /\ todo' \subseteq todo
    BY <1>5 DEF QueryGateway, QueryFails, Tick, jobVars
  <2>2. \A q \in Payments : Ahead(q)' => Ahead(q)
    BY <2>1 DEF Ahead
  <2> QED
    BY <1>0, <1>s, <2>1, <2>2, NothingFiled
<1>6. ASSUME NEW p \in Payments, SaveMismatch(p) \/ SaveReview(p) PROVE CountInv'
  <2>1. /\ p \in todo /\ todo' = todo \ {p} /\ pc' = "query" /\ UNCHANGED <<job, gateway, faults, crashes>>
        /\ File(p, "MISMATCH") \/ File(p, "MANUAL_REVIEW")
        /\ pc # "idle"
    BY <1>6 DEF SaveMismatch, SaveReview, First, Tick, jobVars
  <2>2. \A q \in Payments : Ahead(q)' => Ahead(q)
    BY <2>1 DEF Ahead
  <2>3. ~Ahead(p)'
    BY <2>1 DEF Ahead, TypeOK, Of
  <2> QED
    BY <1>0, <2>1, <2>2, <2>3, OneFiled
<1>7. ASSUME NEW p \in Payments, SaveFails(p) PROVE CountInv'
  <2>1. faults' + crashes' = faults + crashes + 1 /\ p \in todo
    <3>1. faults' = faults + 1 /\ crashes' = crashes /\ p \in todo
      BY <1>7 DEF SaveFails, Failing, First
    <3> QED
      BY <1>0, <3>1
  <2>2. CASE UNCHANGED <<records, flagged>>
    BY <1>0, <1>s, <2>1, <2>2, NothingFiled
  <2>3. CASE File(p, "MISMATCH")
    BY <1>0, <2>1, <2>3, OneFiled
  <2> QED
    BY <1>7, <2>2, <2>3 DEF SaveFails
<1>8. CASE Throw
  <2>1. faults' + crashes' = faults + crashes + 1
    <3>1. faults' = faults + 1 /\ crashes' = crashes
      BY <1>8 DEF Throw, Failing
    <3> QED
      BY <1>0, <3>1
  <2>2. CASE UNCHANGED <<records, flagged>>
    BY <1>0, <1>s, <2>1, <2>2, NothingFiled
  <2>3. ASSUME NEW p \in todo, File(p, "MANUAL_REVIEW") PROVE CountInv'
    BY <1>0, <2>1, <2>3, OneFiled
  <2> QED
    BY <1>8, <2>2, <2>3 DEF Throw
<1>9. CASE Crash
  <2>1. faults' + crashes' = faults + crashes + 1
    BY <1>0, <1>9 DEF Crash
  <2> QED
    BY <1>0, <1>9, <1>s, <2>1, NothingFiled DEF Crash
<1>10. ASSUME NEW a \in Admins, (\E i \in DOMAIN records : Resolve(a, i)) \/ Audit(a) \/ AuditFails(a)
       PROVE  CountInv'
  <2>1. \A p \in Payments : RecordsOf(p)' = RecordsOf(p)
    <3>1. ASSUME NEW i \in DOMAIN records, Resolve(a, i)
          PROVE  \A p \in Payments : RecordsOf(p)' = RecordsOf(p)
      <4>1. DOMAIN records' = DOMAIN records /\ \A j \in DOMAIN records : records'[j].payment = records[j].payment
        BY <3>1 DEF Resolve, Overwrite, TypeOK
      <4> QED
        BY <4>1 DEF RecordsOf
    <3> QED
      BY <1>10, <1>s, <3>1 DEF Audit, AuditFails
  <2>2. crashes' = crashes /\ (faults' = faults \/ faults' = faults + 1)
    BY <1>10 DEF Resolve, Audit, AuditFails, AdminStep, Failing
  <2>3. \A p \in Payments : Ahead(p)' = Ahead(p)
    BY <1>10 DEF Resolve, Audit, AuditFails, AdminStep, Ahead, jobVars
  <2> QED
    BY <1>0, <2>1, <2>2, <2>3, NothingFiled
<1>11. CASE UNCHANGED vars
  BY <1>0, <1>11, <1>s, NothingFiled DEF vars, jobVars, Ahead
<1> QED
  BY <1>1, <1>2, <1>3, <1>4, <1>5, <1>6, <1>7, <1>8, <1>9, <1>10, <1>11 DEF Next, JobStep, PaymentMove

\* Every record of a payment beyond the first is owed to a failed call or a dead worker,
\* whatever the bounds (reconciliation.service.js:71 and :109).
THEOREM DuplicatesAreBounded == Spec => []DuplicatesArePaidFor
<1>1. Init => CountInv
  <2> SUFFICES ASSUME Init, NEW p \in Payments
               PROVE  /\ IsFiniteSet(RecordsOf(p))
                      /\ Cardinality(RecordsOf(p)) <= faults + crashes + 1
                      /\ (Ahead(p) => Cardinality(RecordsOf(p)) <= faults + crashes)
    BY DEF CountInv
  <2>1. RecordsOf(p) = {}
    BY DEF Init, RecordsOf
  <2> QED
    BY <2>1, FS_EmptySet DEF Init, Ahead
<1>2. TypeOK /\ CountInv => DuplicatesArePaidFor
  <2> SUFFICES ASSUME TypeOK, CountInv, NEW p \in Payments
               PROVE  Cardinality(RecordsOf(p)) <= 1 + faults + crashes
    BY DEF DuplicatesArePaidFor, RecordsOf
  <2>1. /\ Cardinality(RecordsOf(p)) \in Nat /\ faults \in Nat /\ crashes \in Nat
        /\ Cardinality(RecordsOf(p)) <= faults + crashes + 1
        /\ (Ahead(p) => Cardinality(RecordsOf(p)) <= faults + crashes)
    BY FS_CardinalityType DEF CountInv, TypeOK
  <2> QED
    BY <2>1
<1>3. Inv => TypeOK /\ OrderInv
  BY DEF Inv
<1> QED
  BY <1>1, <1>2, <1>3, InvAlways, NextKeepsCount, PTL DEF Spec

----------------------------------------------------------------------------
(* Resolutions and the audit log.                                          *)

\* Filing adds a record that nobody has resolved.
LEMMA FilingKeepsAudit ==
  ASSUME TypeOK, NEW p \in Payments, NEW s \in {"MISMATCH", "MANUAL_REVIEW"}, File(p, s),
         UNCHANGED adminVars
  PROVE  Unaudited' = Unaudited
<1>1. /\ DOMAIN records = 1..Len(records) /\ DOMAIN records' = 1..(Len(records) + 1) /\ Len(records) \in Nat
      /\ \A i \in DOMAIN records : records'[i] = records[i]
  BY FileTypes
<1>2. records'[Len(records) + 1].status # "RESOLVED"
  BY DEF File, TypeOK
<1>3. DOMAIN records' = DOMAIN records \cup {Len(records) + 1}
  BY <1>1
<1> QED
  BY <1>1, <1>2, <1>3 DEF Unaudited, adminVars

\* A resolution is the entry its administrator is about to make.
LEMMA ResolveKeepsAudit ==
  ASSUME TypeOK, NEW a \in Admins, NEW i \in DOMAIN records, Resolve(a, i)
  PROVE  Unaudited' \subseteq Unaudited
<1>1. /\ DOMAIN records' = DOMAIN records /\ auditLog' = auditLog
      /\ records'[i].resolvedBy = a
      /\ \A j \in DOMAIN records : j # i => records'[j] = records[j]
  BY DEF Resolve, Overwrite, TypeOK
<1>2. /\ admin[a].stage = "idle" /\ admin'[a].stage = "audit" /\ admin'[a].record = i
      /\ \A b \in Admins : b # a => admin'[b] = admin[b]
  BY DEF Resolve, TypeOK
<1> QED
  BY <1>1, <1>2 DEF Unaudited

LEMMA EntryKeepsAudit ==
  ASSUME TypeOK, NEW a \in Admins, Audit(a) \/ AuditFails(a)
  PROVE  /\ Unaudited' \subseteq Unaudited \cup {admin[a].record}
         /\ Audit(a) => Unaudited' \subseteq Unaudited
<1>1. /\ records' = records /\ auditLog \subseteq auditLog'
      /\ Audit(a) => <<a, admin[a].record>> \in auditLog'
  BY DEF Audit, AuditFails
<1>2. /\ admin'[a].stage # "audit"
      /\ \A b \in Admins : b # a => admin'[b] = admin[b]
  BY DEF Audit, AuditFails, EndRequest, TypeOK
<1> QED
  BY <1>1, <1>2 DEF Unaudited

LEMMA NextKeepsAudit ==
  ASSUME TypeOK, TypeOK', [Next]_vars
  PROVE  \/ Unaudited' \subseteq Unaudited /\ faults' \in {faults, faults + 1}
         \/ faults' = faults + 1 /\ \E i : Unaudited' \subseteq Unaudited \cup {i}
<1>s. UNCHANGED <<records, adminVars>> => Unaudited' = Unaudited
  BY DEF Unaudited, adminVars
<1>1. ASSUME NEW p \in Payments, PaymentMove(p) PROVE Unaudited' = Unaudited /\ faults' = faults
  BY <1>1, <1>s DEF PaymentMove, CreatePayment, RemoteMoves, Decline, StripeEvent, Refund, PaymentMoves, Others
<1>2. CASE TakeJob \/ SelectPayments \/ FinishGateway \/ Crash
  BY <1>2, <1>s DEF TakeJob, SelectPayments, FinishGateway, Crash
<1>3. ASSUME NEW p \in Payments, QueryGateway(p) \/ QueryFails(p) PROVE Unaudited' = Unaudited /\ faults' = faults
  BY <1>3, <1>s DEF QueryGateway, QueryFails
<1>4. ASSUME NEW p \in Payments, SaveMismatch(p) \/ SaveReview(p) PROVE Unaudited' = Unaudited /\ faults' = faults
  BY <1>4, FilingKeepsAudit DEF SaveMismatch, SaveReview
<1>5. ASSUME NEW p \in Payments, SaveFails(p) PROVE Unaudited' = Unaudited /\ faults' = faults + 1
  BY <1>5, <1>s, FilingKeepsAudit DEF SaveFails, Failing
<1>6. CASE Throw
  <2>1. UNCHANGED adminVars /\ faults' = faults + 1
    BY <1>6 DEF Throw, Failing
  <2>2. UNCHANGED records \/ \E p \in Payments : File(p, "MANUAL_REVIEW")
    BY <1>6 DEF Throw, TypeOK, Of
  <2> QED
    BY <1>s, <2>1, <2>2, FilingKeepsAudit
<1>7. ASSUME NEW a \in Admins, NEW i \in DOMAIN records, Resolve(a, i)
      PROVE  Unaudited' \subseteq Unaudited /\ faults' = faults
  BY <1>7, ResolveKeepsAudit DEF Resolve
<1>8. ASSUME NEW a \in Admins, Audit(a)
      PROVE  Unaudited' \subseteq Unaudited /\ faults' = faults
  BY <1>8, EntryKeepsAudit DEF Audit
<1>9. ASSUME NEW a \in Admins, AuditFails(a)
      PROVE  Unaudited' \subseteq Unaudited \cup {admin[a].record} /\ faults' = faults + 1
  BY <1>9, EntryKeepsAudit DEF AuditFails, Failing
<1>10. CASE UNCHANGED vars
  BY <1>10, <1>s DEF vars
<1> QED
  BY <1>1, <1>2, <1>3, <1>4, <1>5, <1>6, <1>7, <1>8, <1>9, <1>10 DEF Next, JobStep, PaymentMove

AuditInv == IsFiniteSet(Unaudited) /\ UnauditedIsPaidFor

\* However administrators overwrite each other's resolutions, a record whose last
\* resolution is missing in the audit log is owed to a failed call of its own
\* (reconciliation.service.js:148-182).
THEOREM UnauditedArePaidFor == Spec => []UnauditedIsPaidFor
<1>1. Init => AuditInv
  <2> SUFFICES ASSUME Init PROVE AuditInv
    OBVIOUS
  <2>1. Unaudited = {} /\ faults = 0
    BY DEF Init, Unaudited
  <2> QED
    BY <2>1, FS_EmptySet DEF AuditInv, UnauditedIsPaidFor
<1>2. TypeOK /\ AuditInv /\ [Next]_vars => AuditInv'
  <2> SUFFICES ASSUME TypeOK, AuditInv, [Next]_vars PROVE AuditInv'
    OBVIOUS
  <2>0. TypeOK'
    BY NextTypes
  <2>1. IsFiniteSet(Unaudited) /\ Cardinality(Unaudited) \in Nat /\ faults \in Nat
        /\ Cardinality(Unaudited) <= faults
    BY FS_CardinalityType DEF AuditInv, UnauditedIsPaidFor, TypeOK
  <2>2. CASE Unaudited' \subseteq Unaudited /\ faults' \in {faults, faults + 1}
    <3>1. IsFiniteSet(Unaudited') /\ Cardinality(Unaudited') <= Cardinality(Unaudited)
          /\ Cardinality(Unaudited') \in Nat
      BY <2>1, <2>2, FS_Subset, FS_CardinalityType
    <3> QED
      BY <2>1, <2>2, <3>1 DEF AuditInv, UnauditedIsPaidFor
  <2>3. ASSUME faults' = faults + 1, NEW i, Unaudited' \subseteq Unaudited \cup {i}
        PROVE  AuditInv'
    <3>1. IsFiniteSet(Unaudited \cup {i}) /\ Cardinality(Unaudited \cup {i}) \in Nat
          /\ Cardinality(Unaudited \cup {i}) <= Cardinality(Unaudited) + 1
      <4>1. /\ IsFiniteSet(Unaudited \cup {i})
            /\ Cardinality(Unaudited \cup {i}) =
                 IF i \in Unaudited THEN Cardinality(Unaudited) ELSE Cardinality(Unaudited) + 1
        BY <2>1, FS_AddElement
      <4> QED
        BY <2>1, <4>1
    <3>2. IsFiniteSet(Unaudited') /\ Cardinality(Unaudited') <= Cardinality(Unaudited \cup {i})
          /\ Cardinality(Unaudited') \in Nat
      BY <2>3, <3>1, FS_Subset, FS_CardinalityType
    <3> QED
      BY <2>1, <2>3, <3>1, <3>2 DEF AuditInv, UnauditedIsPaidFor
  <2> QED
    BY <2>0, <2>2, <2>3, NextKeepsAudit
<1>3. Inv => TypeOK
  BY DEF Inv
<1>4. AuditInv => UnauditedIsPaidFor
  BY DEF AuditInv
<1> QED
  BY <1>1, <1>2, <1>3, <1>4, InvAlways, PTL DEF Spec
=============================================================================
