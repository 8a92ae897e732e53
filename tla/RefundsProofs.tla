--------------------------- MODULE RefundsProofs ---------------------------
(***************************************************************************)
(* For any number of refund requests of a payment of any amount, and any   *)
(* number of failures: the types of Refunds, what its rows say about       *)
(* Stripe, when a payment becomes REFUNDED, how much money can leave       *)
(* without a row, and that all books agree after refunds in a row.         *)
(***************************************************************************)
EXTENDS Refunds, RefundAmountsProofs

LEMMA CountedType ==
  ASSUME TypeOK
  PROVE  Counted \in Amounts /\ TotalRefunded \in Nat
<1>1. Counted \in Amounts
  BY AmountsAssumption, RefundsAssumption DEF TypeOK, Counted, Amounts
<1> QED
  BY <1>1, SumType DEF TotalRefunded

LEMMA LeftType ==
  ASSUME TypeOK
  PROVE  Left \in Int /\ Left <= Amount
<1> DEFINE out == [r \in Requests |-> IF stripe[r] \in {"PENDING", "SUCCEEDED"} THEN given[r] ELSE 0]
<1>1. out \in Amounts
  BY AmountsAssumption, RefundsAssumption DEF TypeOK, Amounts
<1>2. Sum(out) \in Nat
  BY <1>1, SumType
<1> QED
  BY <1>2, AmountsAssumption, RefundsAssumption DEF Left

\* What a request is worth in cents.
LEMMA CentsType ==
  ASSUME TypeOK, NEW r \in Requests
  PROVE  /\ Rounded(wanted[r]) \in 0..Amount
         /\ wanted[r] = 10 * Amount => Rounded(wanted[r]) = Amount
<1>1. wanted[r] \in Nat /\ wanted[r] <= 10 * Amount /\ Amount \in Nat
  BY AmountsAssumption DEF TypeOK
<1> QED
  BY <1>1, RoundedBounds

LEMMA StepTypes ==
  ASSUME TypeOK, NEW r \in Requests, ReadPayment(r) \/ Step(r) \/ Fail(r) \/ Decide(r)
  PROVE  TypeOK'
<1> USE AmountsAssumption, RefundsAssumption DEF TypeOK, Stage, Goto, stateVars, requestVars, stripeVars, rowVars
<1>1. CASE ReadPayment(r)
  BY <1>1 DEF ReadPayment
<1>2. CASE ReadTotal(r)
  BY <1>2, CountedType DEF ReadTotal
<1>3. CASE CreateRefund(r)
  <2>1. CASE \E s \in RefundStatus \ {"NONE"} :
               Refunded(r, s) /\ answer' = [answer EXCEPT ![r] = s] /\ Goto(r, "save")
    <3>1. Payout(r) \in 0..Amount
      BY <2>1, LeftType DEF Refunded
    <3> QED
      BY <1>3, <2>1, <3>1 DEF CreateRefund, Refunded
  <2>2. CASE Goto(r, "done") /\ UNCHANGED <<stripeVars, answer>>
    BY <1>3, <2>2 DEF CreateRefund
  <2> QED
    BY <1>3, <2>1, <2>2 DEF CreateRefund
<1>4. CASE SaveRefund(r)
  BY <1>4, CentsType DEF SaveRefund
<1>5. CASE NumberCollision(r)
  BY <1>5 DEF NumberCollision
<1>6. CASE ReadStatus(r)
  BY <1>6 DEF ReadStatus
<1>7. CASE WritePayment(r)
  BY <1>7 DEF WritePayment, Target, PaymentStatus
<1>8. CASE WriteOrder(r)
  BY <1>8 DEF WriteOrder, SyncedOrder, OrderStatus
<1>9. CASE RecordRefundDebit(r)
  BY <1>9 DEF RecordRefundDebit
<1>10. CASE Fail(r)
  BY <1>10 DEF Fail
<1>11. CASE Decide(r)
  BY <1>11 DEF Decide, RefundStatus
<1> QED
  BY <1>1, <1>2, <1>3, <1>4, <1>5, <1>6, <1>7, <1>8, <1>9, <1>10, <1>11 DEF Step

LEMMA TypeStep == TypeOK /\ [Next]_vars => TypeOK'
<1> SUFFICES ASSUME TypeOK, [Next]_vars
             PROVE  TypeOK'
  OBVIOUS
<1>1. CASE Next
  BY <1>1, StepTypes DEF Next
<1>2. CASE UNCHANGED vars
  BY <1>2 DEF vars, TypeOK
<1> QED
  BY <1>1, <1>2

LEMMA TypeInit == Init => TypeOK
<1> SUFFICES ASSUME Init
             PROVE  TypeOK
  OBVIOUS
<1> USE AmountsAssumption, RefundsAssumption DEF Init, NothingRefunded
<1>1. 0 \in 0..Amount /\ 0 \in 0..10 * Amount /\ 0 \in 0..MaxRetries /\ MaxRetries # 0
  OBVIOUS
<1>2. \A r \in Requests : collisions[r] # MaxRetries
  BY <1>1
<1> QED
  BY <1>1, <1>2 DEF TypeOK, PaymentStatus, OrderStatus, Stage, RefundStatus

\* Every variable keeps its type; in particular a request never reads a total,
\* wants a refund or gets one outside 0..Amount, and gives up at MaxRetries
\* collisions (refund.service.js:165-190 and :293-344).
THEOREM RefundsTypeCorrect == Spec => []TypeOK
<1> QED
  BY TypeInit, TypeStep, PTL DEF Spec

----------------------------------------------------------------------------
(* Rows against Stripe.  What a request has done so far decides which of   *)
(* its refund and its row exist.                                           *)

Booking == {"transition", "writePayment", "writeOrder", "debit"}

ProgressInv ==
  \A r \in Requests :
    /\ pc[r] \in {"new", "total", "refund"} => stripe[r] = "NONE"
    /\ pc[r] \in {"new", "total", "refund", "save"} => rowStatus[r] = "NONE"
    /\ pc[r] = "save" => /\ stripe[r] # "NONE" /\ answer[r] # "NONE"
                         /\ given[r] <= Rounded(wanted[r])
                         /\ given[r] = Rounded(wanted[r]) \/ Rounded(wanted[r]) = Amount
    /\ pc[r] \in Booking => rowStatus[r] = "SUCCEEDED"

RowsInv == TypeOK /\ ProgressInv /\ RowsMatchStripe

LEMMA RowsStep ==
  ASSUME RowsInv, NEW r \in Requests, ReadPayment(r) \/ Step(r) \/ Fail(r) \/ Decide(r)
  PROVE  RowsInv'
<1> USE AmountsAssumption, RefundsAssumption DEF ProgressInv, RowsMatchStripe, Booking, Goto,
        stateVars, requestVars, stripeVars, rowVars
<1> TypeOK'
  BY StepTypes DEF RowsInv
<1> SUFFICES (ProgressInv /\ RowsMatchStripe)'
  BY DEF RowsInv
<1> TypeOK /\ ProgressInv /\ RowsMatchStripe
  BY DEF RowsInv
<1>1. CASE ReadPayment(r)
  BY <1>1 DEF ReadPayment, TypeOK
<1>2. CASE ReadTotal(r)
  BY <1>2 DEF ReadTotal, TypeOK
<1>3. CASE CreateRefund(r)
  <2>1. CASE \E s \in RefundStatus \ {"NONE"} :
               Refunded(r, s) /\ answer' = [answer EXCEPT ![r] = s] /\ Goto(r, "save")
    <3>1. /\ Payout(r) <= Rounded(wanted[r])
          /\ Payout(r) = Rounded(wanted[r]) \/ Rounded(wanted[r]) = Amount
      BY LeftType, CentsType DEF Payout
    <3>2. PICK s \in RefundStatus \ {"NONE"} :
            Refunded(r, s) /\ answer' = [answer EXCEPT ![r] = s] /\ Goto(r, "save")
      BY <2>1
    <3>3. rowStatus[r] = "NONE" /\ r \notin debited
      BY <1>3 DEF CreateRefund
    <3> QED
      BY <1>3, <3>1, <3>2, <3>3 DEF CreateRefund, Refunded, TypeOK
  <2>2. CASE Goto(r, "done") /\ UNCHANGED <<stripeVars, answer>>
    BY <1>3, <2>2 DEF CreateRefund, TypeOK
  <2> QED
    BY <1>3, <2>1, <2>2 DEF CreateRefund
<1>4. CASE SaveRefund(r)
  BY <1>4 DEF SaveRefund, TypeOK
<1>5. CASE NumberCollision(r)
  BY <1>5 DEF NumberCollision, TypeOK
<1>6. CASE ReadStatus(r)
  BY <1>6 DEF ReadStatus, TypeOK
<1>7. CASE WritePayment(r)
  BY <1>7 DEF WritePayment, TypeOK
<1>8. CASE WriteOrder(r)
  BY <1>8 DEF WriteOrder, TypeOK
<1>9. CASE RecordRefundDebit(r)
  BY <1>9 DEF RecordRefundDebit, TypeOK
<1>10. CASE Fail(r)
  BY <1>10 DEF Fail, TypeOK
<1>11. CASE Decide(r)
  BY <1>11 DEF Decide, TypeOK
<1> QED
  BY <1>1, <1>2, <1>3, <1>4, <1>5, <1>6, <1>7, <1>8, <1>9, <1>10, <1>11 DEF Step

LEMMA RowsInductive == (Init => RowsInv) /\ (RowsInv /\ [Next]_vars => RowsInv')
<1>1. Init => RowsInv
  BY TypeInit DEF Init, NothingRefunded, RowsInv, ProgressInv, RowsMatchStripe, Booking
<1>2. ASSUME RowsInv, Next
      PROVE  RowsInv'
  BY <1>2, RowsStep DEF Next
<1>3. ASSUME RowsInv, UNCHANGED vars
      PROVE  RowsInv'
  BY <1>3 DEF vars, RowsInv, TypeOK, ProgressInv, RowsMatchStripe
<1> QED
  BY <1>1, <1>2, <1>3

\* A Refund row stands for a refund at Stripe and never understates it, only
\* SUCCEEDED rows are debited (refund.service.js:297-381).
THEOREM RowsAreBacked == Spec => []RowsMatchStripe
<1>1. RowsInv => RowsMatchStripe
  BY DEF RowsInv
<1> QED
  BY <1>1, RowsInductive, PTL DEF Spec

----------------------------------------------------------------------------
(* The total a request has seen is out of date when it is used, but rows   *)
(* are never deleted and never lose SUCCEEDED: it is a lower bound.        *)

LEMMA TotalGrows ==
  ASSUME RowsInv, NEW r \in Requests, ReadPayment(r) \/ Step(r) \/ Fail(r) \/ Decide(r)
  PROVE  /\ TotalRefunded \in Nat
         /\ IF SaveRefund(r) /\ answer[r] = "SUCCEEDED"
              THEN TotalRefunded' = TotalRefunded + Rounded(wanted[r])
              ELSE TotalRefunded' = TotalRefunded
<1> USE AmountsAssumption, RefundsAssumption DEF RowsInv
<1>1. TotalRefunded \in Nat /\ Counted \in Amounts
  BY CountedType
<1>2. CASE SaveRefund(r) /\ answer[r] = "SUCCEEDED"
  <2>1. Counted[r] = 0 /\ Rounded(wanted[r]) \in 0..Amount
    BY <1>2, CentsType DEF SaveRefund, ProgressInv, Counted, TypeOK
  <2>2. Counted' = [Counted EXCEPT ![r] = Rounded(wanted[r])]
    BY <1>2 DEF SaveRefund, Counted, TypeOK
  <2>3. Sum([Counted EXCEPT ![r] = Rounded(wanted[r])]) = Sum(Counted) + Rounded(wanted[r])
    BY <1>1, <2>1, SumAdds
  <2>4. TotalRefunded' = Sum([Counted EXCEPT ![r] = Rounded(wanted[r])])
    BY <2>2 DEF TotalRefunded, Sum, Units
  <2> QED
    BY <1>1, <1>2, <2>3, <2>4 DEF TotalRefunded
<1>3. CASE ~(SaveRefund(r) /\ answer[r] = "SUCCEEDED")
  <2>1. Counted' = Counted
    <3>1. CASE SaveRefund(r)
      BY <1>3, <3>1 DEF SaveRefund, Counted, TypeOK, ProgressInv
    <3>2. CASE ~SaveRefund(r)
      <4>1. UNCHANGED rowVars
        BY <3>2 DEF Step, ReadPayment, ReadTotal, CreateRefund, NumberCollision, ReadStatus,
                    WritePayment, WriteOrder, RecordRefundDebit, Fail, Decide
      <4> QED
        BY <4>1 DEF rowVars, Counted
    <3> QED
      BY <3>1, <3>2
  <2>2. TotalRefunded' = TotalRefunded
    BY <2>1 DEF TotalRefunded, Sum, Units
  <2> QED
    BY <1>1, <1>3, <2>2
<1> QED
  BY <1>2, <1>3

SeenInv ==
  \A r \in Requests :
    /\ pc[r] \in {"refund", "save"} => seen[r] <= TotalRefunded
    /\ pc[r] \in Booking => seen[r] + Rounded(wanted[r]) <= TotalRefunded
    /\ pc[r] = "writeOrder" => TotalRefunded >= Amount

EarnedInv == RowsInv /\ SeenInv /\ RefundedIsEarned

LEMMA EarnedStep ==
  ASSUME EarnedInv, NEW r \in Requests, ReadPayment(r) \/ Step(r) \/ Fail(r) \/ Decide(r)
  PROVE  EarnedInv'
<1> USE AmountsAssumption, RefundsAssumption DEF SeenInv, RefundedIsEarned, Booking, Goto,
        stateVars, requestVars, stripeVars, rowVars
<1>0. RowsInv'
  BY RowsStep DEF EarnedInv
<1> /\ TotalRefunded \in Nat
    /\ IF SaveRefund(r) /\ answer[r] = "SUCCEEDED"
         THEN TotalRefunded' = TotalRefunded + Rounded(wanted[r])
         ELSE TotalRefunded' = TotalRefunded
  BY TotalGrows DEF EarnedInv
<1> TypeOK /\ ProgressInv /\ SeenInv /\ RefundedIsEarned
  BY DEF EarnedInv, RowsInv
<1>c. \A q \in Requests : Rounded(wanted[q]) \in 0..Amount
  BY CentsType
<1>a. TotalRefunded' \in Nat /\ TotalRefunded' >= TotalRefunded
  BY <1>c
<1> SUFFICES (SeenInv /\ RefundedIsEarned)'
  BY <1>0 DEF EarnedInv
<1>1. CASE ReadPayment(r)
  BY <1>1, <1>a, <1>c DEF ReadPayment, TypeOK
<1>2. CASE ReadTotal(r)
  BY <1>2, <1>a, <1>c DEF ReadTotal, TypeOK
<1>3. CASE CreateRefund(r)
  <2>1. pc' \in {[pc EXCEPT ![r] = "save"], [pc EXCEPT ![r] = "done"]}
    BY <1>3 DEF CreateRefund
  <2> QED
    BY <1>3, <1>a, <1>c, <2>1 DEF CreateRefund, TypeOK
<1>4. CASE SaveRefund(r)
  BY <1>4, <1>a, <1>c DEF SaveRefund, TypeOK
<1>5. CASE NumberCollision(r)
  BY <1>5, <1>a, <1>c DEF NumberCollision, TypeOK
<1>6. CASE ReadStatus(r)
  BY <1>6, <1>a, <1>c DEF ReadStatus, TypeOK
<1>7. CASE WritePayment(r)
  <2>1. seen[r] \in 0..Amount /\ wanted[r] \in Nat /\ Amount - seen[r] \in Nat
    BY DEF TypeOK
  <2>2. IsFull(r) => seen[r] + Rounded(wanted[r]) >= Amount
    BY <2>1, RoundedBounds, <1>c DEF IsFull
  <2> QED
    BY <1>7, <1>a, <1>c, <2>1, <2>2 DEF WritePayment, Target, TypeOK
<1>8. CASE WriteOrder(r)
  BY <1>8, <1>a, <1>c DEF WriteOrder, TypeOK
<1>9. CASE RecordRefundDebit(r)
  BY <1>9, <1>a, <1>c DEF RecordRefundDebit, TypeOK
<1>10. CASE Fail(r)
  BY <1>10, <1>a, <1>c DEF Fail, TypeOK
<1>11. CASE Decide(r)
  BY <1>11, <1>a, <1>c DEF Decide, TypeOK
<1> QED
  BY <1>1, <1>2, <1>3, <1>4, <1>5, <1>6, <1>7, <1>8, <1>9, <1>10, <1>11 DEF Step

LEMMA EarnedInductive == (Init => EarnedInv) /\ (EarnedInv /\ [Next]_vars => EarnedInv')
<1>1. Init => EarnedInv
  <2> SUFFICES ASSUME Init PROVE EarnedInv
    OBVIOUS
  <2>1. RowsInv
    BY RowsInductive
  <2>2. SeenInv /\ RefundedIsEarned
    BY DEF Init, NothingRefunded, SeenInv, Booking, RefundedIsEarned
  <2> QED
    BY <2>1, <2>2 DEF EarnedInv
<1>2. ASSUME EarnedInv, Next
      PROVE  EarnedInv'
  BY <1>2, EarnedStep DEF Next
<1>3. ASSUME EarnedInv, UNCHANGED vars
      PROVE  EarnedInv'
  <2>1. RowsInv'
    BY <1>3, RowsInductive DEF EarnedInv
  <2>2. TotalRefunded' = TotalRefunded
    BY <1>3 DEF vars, TotalRefunded, Counted, Sum, Units
  <2> QED
    BY <1>3, <2>1, <2>2 DEF vars, EarnedInv, SeenInv, RefundedIsEarned
<1> QED
  BY <1>1, <1>2, <1>3

\* A payment is REFUNDED, and its order CANCELLED, only when its SUCCEEDED
\* refunds cover its amount, however requests overlap (refund.service.js:367).
THEOREM FullRefundsAreEarned == Spec => []RefundedIsEarned
<1>1. EarnedInv => RefundedIsEarned
  BY DEF EarnedInv
<1> QED
  BY <1>1, EarnedInductive, PTL DEF Spec

----------------------------------------------------------------------------
(* Each failure, and each request that gives up, leaves at most one refund *)
(* without a row.                                                          *)

Unrecorded == {r \in Requests : stripe[r] # "NONE" /\ rowStatus[r] = "NONE" /\ pc[r] = "done"}

PaidInv == RowsInv /\ UnrecordedIsPaidFor

LEMMA PaidStep ==
  ASSUME PaidInv, NEW r \in Requests, ReadPayment(r) \/ Step(r) \/ Fail(r) \/ Decide(r)
  PROVE  UnrecordedIsPaidFor'
<1> USE AmountsAssumption, RefundsAssumption
<1> TypeOK /\ ProgressInv /\ RowsInv
  BY DEF PaidInv, RowsInv
<1>1. IsFiniteSet(Unrecorded) /\ IsFiniteSet(GaveUp)
  BY FS_Subset DEF Unrecorded, GaveUp
<1>2. Cardinality(Unrecorded) \in Nat /\ Cardinality(GaveUp) \in Nat /\ failures \in Nat
  BY <1>1, FS_CardinalityType DEF TypeOK
<1>3. Cardinality(Unrecorded) <= failures + Cardinality(GaveUp)
  BY DEF PaidInv, UnrecordedIsPaidFor, Unrecorded
<1>4. /\ IsFiniteSet(Unrecorded \cup {r})
      /\ Cardinality(Unrecorded \cup {r}) \in Nat
      /\ Cardinality(Unrecorded \cup {r}) <= Cardinality(Unrecorded) + 1
  <2>1. /\ IsFiniteSet(Unrecorded \cup {r})
        /\ Cardinality(Unrecorded \cup {r}) =
             IF r \in Unrecorded THEN Cardinality(Unrecorded) ELSE Cardinality(Unrecorded) + 1
    BY <1>1, FS_AddElement
  <2> QED
    BY <1>2, <2>1
<1> SUFFICES Cardinality(Unrecorded') <= failures' + Cardinality(GaveUp')
  BY DEF UnrecordedIsPaidFor, Unrecorded
<1>5. CASE Fail(r)
  <2>1. Unrecorded' \subseteq Unrecorded \cup {r} /\ GaveUp' = GaveUp /\ failures' = failures + 1
    BY <1>5 DEF Fail, Unrecorded, GaveUp, Goto, requestVars, stripeVars, rowVars, TypeOK
  <2>2. Cardinality(Unrecorded') <= Cardinality(Unrecorded \cup {r}) /\ Cardinality(Unrecorded') \in Nat
    BY <2>1, <1>4, FS_Subset, FS_CardinalityType
  <2> QED
    BY <1>2, <1>3, <1>4, <2>1, <2>2
<1>6. CASE NumberCollision(r) /\ collisions[r] + 1 = MaxRetries
  <2>1. Unrecorded' \subseteq Unrecorded \cup {r} /\ GaveUp' = GaveUp \cup {r} /\ failures' = failures
    BY <1>6 DEF NumberCollision, Unrecorded, GaveUp, Goto, stripeVars, rowVars, TypeOK
  <2>2. r \notin GaveUp
    BY <1>6 DEF NumberCollision, GaveUp, TypeOK
  <2>3. Cardinality(GaveUp') = Cardinality(GaveUp) + 1
    BY <1>1, <2>1, <2>2, FS_AddElement
  <2>4. Cardinality(Unrecorded') <= Cardinality(Unrecorded \cup {r}) /\ Cardinality(Unrecorded') \in Nat
    BY <2>1, <1>4, FS_Subset, FS_CardinalityType
  <2> QED
    BY <1>2, <1>3, <1>4, <2>1, <2>3, <2>4
<1>7. CASE ~Fail(r) /\ ~(NumberCollision(r) /\ collisions[r] + 1 = MaxRetries)
  <2>1. failures' = failures /\ GaveUp' = GaveUp
    BY <1>7 DEF Step, ReadPayment, ReadTotal, CreateRefund, SaveRefund, NumberCollision, ReadStatus,
       WritePayment, WriteOrder, RecordRefundDebit, Decide, GaveUp, requestVars, TypeOK
  <2>2. Unrecorded' \subseteq Unrecorded
    <3> USE DEF Unrecorded, Goto, ProgressInv, Booking, TypeOK, stripeVars, rowVars
    <3>1. CASE ReadPayment(r) \/ ReadTotal(r)
      BY <3>1 DEF ReadPayment, ReadTotal
    <3>2. CASE CreateRefund(r)
      BY <3>2 DEF CreateRefund, Refunded
    <3>3. CASE SaveRefund(r)
      BY <3>3 DEF SaveRefund
    <3>4. CASE NumberCollision(r)
      BY <1>7, <3>4 DEF NumberCollision
    <3>5. CASE ReadStatus(r)
      BY <3>5 DEF ReadStatus
    <3>6. CASE WritePayment(r) \/ WriteOrder(r) \/ RecordRefundDebit(r)
      BY <3>6 DEF WritePayment, WriteOrder, RecordRefundDebit
    <3>7. CASE Decide(r)
      BY <3>7 DEF Decide
    <3> QED
      BY <1>7, <3>1, <3>2, <3>3, <3>4, <3>5, <3>6, <3>7 DEF Step
  <2>3. Cardinality(Unrecorded') <= Cardinality(Unrecorded) /\ Cardinality(Unrecorded') \in Nat
    BY <1>1, <2>2, FS_Subset, FS_CardinalityType
  <2> QED
    BY <1>2, <1>3, <2>1, <2>3
<1> QED
  BY <1>5, <1>6, <1>7

\* Refunds that Stripe has made and no row records are never more than the
\* failures and the requests that ran out of refund numbers
\* (refund.service.js:293-365).
THEOREM UnrecordedRefundsArePaidFor == Spec => []UnrecordedIsPaidFor
<1>1. Init => PaidInv
  <2> SUFFICES ASSUME Init PROVE PaidInv
    OBVIOUS
  <2>1. Unrecorded = {} /\ GaveUp = {} /\ failures = 0
    BY AmountsAssumption, RefundsAssumption DEF Init, NothingRefunded, Unrecorded, GaveUp
  <2>2. UnrecordedIsPaidFor
    BY <2>1, FS_EmptySet DEF UnrecordedIsPaidFor, Unrecorded
  <2> QED
    BY <2>2, RowsInductive DEF PaidInv
<1>2. PaidInv /\ [Next]_vars => PaidInv'
  <2>1. ASSUME PaidInv, Next
        PROVE  UnrecordedIsPaidFor'
    BY <2>1, PaidStep DEF Next
  <2>2. ASSUME PaidInv, UNCHANGED vars
        PROVE  UnrecordedIsPaidFor'
    BY <2>2 DEF PaidInv, UnrecordedIsPaidFor, GaveUp, vars
  <2> QED
    BY <2>1, <2>2, RowsInductive DEF PaidInv
<1>3. PaidInv => UnrecordedIsPaidFor
  BY DEF PaidInv
<1> QED
  BY <1>1, <1>2, <1>3, PTL DEF Spec
----------------------------------------------------------------------------
(* All books.  While requests come one at a time, nothing fails and no row *)
(* is pending, there is at most one request in progress, and its stage     *)
(* says which of the books it has yet to write.                            *)

Calm ==
  /\ ~overlapped /\ failures = 0 /\ GaveUp = {}
  /\ \A r \in Requests : rowStatus[r] # "PENDING"

PaymentFor(total, short) ==
  IF total = 0 THEN "SUCCESS" ELSE IF total < Amount \/ short THEN "PARTIALLY_REFUNDED" ELSE "REFUNDED"
OrderFor(status) == IF status = "REFUNDED" THEN "CANCELLED" ELSE "PAID"

\* The last refund was rounded up to the rest of the payment.
Short == \E r \in debited : ShortOfFull(r)

\* What has been refunded and what the one request in progress has yet to write.
StageInv(r) ==
  /\ pc[r] \in {"refund", "save"} => seen[r] = TotalRefunded
  /\ pc[r] \in Booking => seen[r] + Rounded(wanted[r]) = TotalRefunded
  /\ pc[r] \in {"refund", "save"} \cup Booking => wanted[r] \in 1..10 * (Amount - seen[r])
  /\ pc[r] \in {"save"} \cup Booking => Rounded(wanted[r]) \in 1..(Amount - seen[r])
  /\ pc[r] = "save" => given[r] = Rounded(wanted[r]) /\ (stripe[r] = answer[r] \/ answer[r] = "PENDING")
  /\ pc[r] # "save" => rowStatus[r] = stripe[r] /\ rowAmount[r] = given[r]
  /\ pc[r] \in {"transition", "writePayment"} => payment = PaymentFor(seen[r], FALSE) /\ order = "PAID"
  /\ pc[r] = "writeOrder" => payment = "REFUNDED" /\ Target(r) = "REFUNDED"
  /\ pc[r] = "debit" => payment = Target(r) /\ order = OrderFor(payment)
  /\ r \in debited <=> rowStatus[r] = "SUCCEEDED" /\ pc[r] \notin Booking
  /\ r \in debited => seen[r] + Rounded(wanted[r]) <= TotalRefunded

\* What was refunded before a request is what that request has seen.
DebitsSeen ==
  \A r \in Requests : pc[r] \in Booking => \A q \in debited : seen[q] + Rounded(wanted[q]) <= seen[r]

BooksSettled == payment = PaymentFor(TotalRefunded, Short) /\ order = OrderFor(payment)

SettledInv ==
  /\ \A q, r \in Requests : InProgress(q) /\ InProgress(r) => q = r
  /\ TotalRefunded <= Amount
  /\ \A r \in Requests : StageInv(r)
  /\ DebitsSeen
  /\ (\A r \in Requests : pc[r] \notin Booking) => BooksSettled

BooksInv == RowsInv /\ (Calm => SettledInv)

\* Nothing brings the calm back once it is over.
LEMMA CalmEnds ==
  ASSUME RowsInv, NEW r \in Requests, ReadPayment(r) \/ Step(r) \/ Fail(r) \/ Decide(r), Calm'
  PROVE  Calm /\ ~Fail(r)
<1> USE AmountsAssumption, RefundsAssumption DEF Calm, GaveUp, RowsInv, TypeOK, Goto, stateVars, requestVars, stripeVars, rowVars
<1>1. CASE SaveRefund(r)
  BY <1>1 DEF SaveRefund, ProgressInv, Fail
<1>2. CASE NumberCollision(r)
  BY <1>2 DEF NumberCollision, Fail
<1>3. CASE Fail(r)
  BY <1>3 DEF Fail
<1>4. CASE ReadPayment(r) \/ Decide(r)
  BY <1>4 DEF ReadPayment, Decide, Fail
<1>5. CASE ReadTotal(r) \/ CreateRefund(r) \/ ReadStatus(r) \/ WritePayment(r) \/ WriteOrder(r)
           \/ RecordRefundDebit(r)
  BY <1>5 DEF ReadTotal, CreateRefund, ReadStatus, WritePayment, WriteOrder, RecordRefundDebit, Fail
<1> QED
  BY <1>1, <1>2, <1>3, <1>4, <1>5 DEF Step

\* Before Stripe is called its books and the rows' are the same.
LEMMA LeftIsKnown ==
  ASSUME RowsInv, Calm, SettledInv, NEW r \in Requests, pc[r] = "refund"
  PROVE  Left = Amount - TotalRefunded
<1> DEFINE out == [q \in Requests |-> IF stripe[q] \in {"PENDING", "SUCCEEDED"} THEN given[q] ELSE 0]
<1>1. \A q \in Requests : pc[q] # "save"
  BY DEF SettledInv, InProgress
<1>2. \A q \in Requests : rowStatus[q] = stripe[q] /\ rowAmount[q] = given[q] /\ rowStatus[q] # "PENDING"
  BY <1>1 DEF SettledInv, StageInv, Calm
<1>3. out = Counted
  BY <1>2 DEF Counted
<1> QED
  BY <1>3 DEF Left, TotalRefunded

LEMMA SettledStep ==
  ASSUME BooksInv, NEW r \in Requests, ReadPayment(r) \/ Step(r) \/ Fail(r) \/ Decide(r), Calm'
  PROVE  SettledInv'
<1>1. Calm /\ ~Fail(r) /\ RowsInv /\ RowsInv' /\ SettledInv
  BY CalmEnds, RowsStep DEF BooksInv
<1>2. /\ TotalRefunded \in Nat
      /\ IF SaveRefund(r) /\ answer[r] = "SUCCEEDED"
           THEN TotalRefunded' = TotalRefunded + Rounded(wanted[r])
           ELSE TotalRefunded' = TotalRefunded
  BY <1>1, TotalGrows
<1>t. TypeOK /\ ProgressInv /\ RowsMatchStripe
  BY <1>1 DEF RowsInv
<1>c. /\ ~overlapped' /\ \A q \in Requests : rowStatus[q] # "PENDING" /\ rowStatus'[q] # "PENDING"
  BY <1>1 DEF Calm
<1>s. /\ \A p, q \in Requests : InProgress(p) /\ InProgress(q) => p = q
      /\ TotalRefunded <= Amount
      /\ \A q \in Requests : StageInv(q)
      /\ DebitsSeen
      /\ (\A q \in Requests : pc[q] \notin Booking) => BooksSettled
  BY <1>1 DEF SettledInv
<1>w. \A q \in Requests : Rounded(wanted[q]) \in 0..Amount /\ seen[q] \in 0..Amount
  BY <1>t, CentsType DEF TypeOK
<1> USE AmountsAssumption, RefundsAssumption DEF TypeOK, Goto, stateVars, requestVars, stripeVars, rowVars, Booking, InProgress
<1>3. CASE ReadPayment(r)
  <2>1. \A q \in Requests : pc[q] \in {"new", "done"}
    BY <1>3, <1>c, <1>t DEF ReadPayment
  <2>2. TotalRefunded' = TotalRefunded
    BY <1>2, <1>3, <1>t DEF ReadPayment, SaveRefund
  <2>u. /\ UNCHANGED <<payment, order, seen, wanted, stripe, given, rowStatus, rowAmount, debited>>
        /\ \A q \in Requests : pc'[q] \in {"new", "total", "done"}
        /\ \A q \in Requests \ {r} : pc'[q] = pc[q]
    BY <1>3, <1>t, <2>1 DEF ReadPayment
  <2>3. \A q \in Requests : StageInv(q)'
    BY <1>s, <2>1, <2>2, <2>u DEF StageInv
  <2>4. Short' <=> Short
    BY <2>u DEF Short, ShortOfFull, IsFull
  <2>5. BooksSettled'
    BY <1>s, <2>1, <2>2, <2>4, <2>u DEF BooksSettled, PaymentFor, OrderFor
  <2> QED
    BY <1>s, <2>1, <2>2, <2>3, <2>5, <2>u DEF SettledInv, DebitsSeen
<1>4. CASE Decide(r)
  <2>1. pc[r] = "save"
    <3>1. pc[r] # "save" => rowStatus[r] = stripe[r]
      BY <1>s DEF StageInv
    <3> QED
      BY <1>4, <1>c, <3>1 DEF Decide
  <2>2. TotalRefunded' = TotalRefunded
    BY <1>2, <1>4, <1>t DEF Decide, SaveRefund
  <2>3. \A q \in Requests : StageInv(q)'
    BY <1>4, <1>s, <1>t, <2>1, <2>2 DEF Decide, StageInv, PaymentFor, OrderFor, Target, IsFull
  <2>4. BooksSettled' /\ DebitsSeen'
    BY <1>4, <1>s, <2>1, <2>2 DEF Decide, DebitsSeen, BooksSettled, PaymentFor, OrderFor, Short, ShortOfFull, IsFull
  <2> QED
    BY <1>4, <1>s, <1>t, <2>1, <2>2, <2>3, <2>4 DEF Decide, SettledInv
<1>5. CASE Step(r)
  <2>1. pc[r] \notin {"new", "done"} /\ \A q \in Requests \ {r} : pc[q] \in {"new", "done"}
    BY <1>5, <1>s, <1>t DEF Step, ReadTotal, CreateRefund, SaveRefund, NumberCollision, ReadStatus,
       WritePayment, WriteOrder, RecordRefundDebit
  <2>2. \A q \in Requests \ {r} :
          UNCHANGED <<pc[q], seen[q], wanted[q], answer[q], stripe[q], given[q], rowStatus[q], rowAmount[q]>>
    BY <1>5, <1>t DEF Step, ReadTotal, CreateRefund, Refunded, SaveRefund, NumberCollision, ReadStatus,
       WritePayment, WriteOrder, RecordRefundDebit
  <2>3. \A q \in Requests \ {r} : q \in debited' <=> q \in debited
    BY <1>5 DEF Step, ReadTotal, CreateRefund, SaveRefund, NumberCollision, ReadStatus,
       WritePayment, WriteOrder, RecordRefundDebit
  <2>g. TotalRefunded' \in Nat /\ TotalRefunded' >= TotalRefunded
    BY <1>2, <1>w
  <2>4. ASSUME NEW q \in Requests \ {r}
        PROVE  StageInv(q)'
    <3>1. StageInv(q) /\ pc[q] \notin {"refund", "save"} \cup Booking /\ pc'[q] = pc[q]
      BY <1>s, <2>1, <2>2
    <3>2. q \in debited' => seen'[q] + Rounded(wanted[q]) <= TotalRefunded'
      BY <1>2, <1>w, <2>g, <2>2, <2>3, <3>1 DEF StageInv
    <3>3. Rounded(wanted[q])' = Rounded(wanted[q])
      BY <2>2
    <3> QED
      BY <2>2, <2>3, <3>1, <3>2, <3>3 DEF StageInv
  <2>5. \A p, q \in Requests : InProgress(p)' /\ InProgress(q)' => p = q
    BY <2>1, <2>2
  <2>r. StageInv(r) /\ r \notin debited
    BY <1>s, <1>t, <2>1 DEF StageInv, ProgressInv, Stage
  <2>d. \A q \in debited : q # r /\ q \in Requests /\ seen[q] + Rounded(wanted[q]) <= TotalRefunded
    BY <1>s, <1>t, <2>r DEF StageInv
  <2>p. pc[r] \notin Booking => BooksSettled
    BY <1>s, <2>1
  <2>k. debited' = debited => (Short' <=> Short)
    BY <2>2, <2>d DEF Short, ShortOfFull, IsFull
  <2>l. ASSUME pc'[r] \in Booking => \A q \in debited' : seen'[q] + Rounded(wanted'[q]) <= seen'[r]
        PROVE  DebitsSeen'
    BY <2>1, <2>2, <2>l DEF DebitsSeen
  <2> SUFFICES /\ TotalRefunded' <= Amount
               /\ StageInv(r)'
               /\ pc'[r] \in Booking => \A q \in debited' : seen'[q] + Rounded(wanted'[q]) <= seen'[r]
               /\ pc'[r] \notin Booking => BooksSettled'
    BY <2>4, <2>5, <2>l DEF SettledInv
  <2>6. CASE ReadTotal(r)
    <3>1. /\ pc[r] = "total" /\ UNCHANGED <<stateVars, stripeVars, rowVars, debited>>
          /\ TotalRefunded' = TotalRefunded
      BY <1>2, <2>6 DEF ReadTotal, SaveRefund
    <3>2. \/ pc' = [pc EXCEPT ![r] = "done"]
          \/ /\ pc' = [pc EXCEPT ![r] = "refund"]
             /\ seen'[r] = TotalRefunded /\ wanted'[r] \in 1..10 * (Amount - TotalRefunded)
      BY <1>2, <1>t, <2>6 DEF ReadTotal
    <3> QED
      BY <1>s, <1>t, <2>k, <2>p, <2>r, <3>1, <3>2 DEF StageInv, BooksSettled, PaymentFor, OrderFor
  <2>7. CASE CreateRefund(r)
    <3>1. /\ pc[r] = "refund" /\ seen[r] = TotalRefunded /\ wanted[r] \in 1..10 * (Amount - seen[r])
          /\ rowStatus[r] = stripe[r] /\ rowAmount[r] = given[r]
          /\ r \in debited <=> rowStatus[r] = "SUCCEEDED"
      BY <2>7, <2>r DEF CreateRefund, StageInv
    <3>2. Left = Amount - TotalRefunded
      BY <1>1, <3>1, LeftIsKnown
    <3>3. Payout(r) = Rounded(wanted[r])
      <4>1. wanted[r] = 10 * Amount => Rounded(wanted[r]) = Amount
        BY <1>t, CentsType
      <4>2. wanted[r] = 10 * Amount => TotalRefunded = 0
        BY <1>2, <3>1
      <4> QED
        BY <3>2, <4>1, <4>2 DEF Payout
    <3>4. TotalRefunded' = TotalRefunded /\ UNCHANGED <<payment, order, seen, wanted, rowStatus, rowAmount, debited>>
      BY <1>2, <2>7, <3>1 DEF SaveRefund, CreateRefund
    <3>b. BooksSettled'
      BY <2>k, <2>p, <3>1, <3>4 DEF BooksSettled, PaymentFor, OrderFor
    <3>5. CASE Goto(r, "done") /\ UNCHANGED <<stripeVars, answer>>
      BY <1>s, <1>t, <2>7, <2>r, <3>b, <3>1, <3>4, <3>5 DEF CreateRefund, StageInv
    <3>6. ASSUME NEW s \in RefundStatus \ {"NONE"},
                 Refunded(r, s), answer' = [answer EXCEPT ![r] = s], Goto(r, "save")
          PROVE  StageInv(r)'
      <4>1. Rounded(wanted[r]) \in 1..(Amount - seen[r]) /\ Rounded(wanted[r])' = Rounded(wanted[r])
        BY <3>1, <3>2, <3>3, <3>4, <3>6 DEF Refunded
      <4>2. stripe'[r] = s /\ answer'[r] = s /\ given'[r] = Rounded(wanted[r]) /\ pc'[r] = "save"
        BY <1>t, <3>3, <3>6 DEF Refunded
      <4> QED
        BY <2>r, <3>1, <3>4, <4>1, <4>2 DEF StageInv
    <3>7. CASE \E s \in RefundStatus \ {"NONE"} :
                 Refunded(r, s) /\ answer' = [answer EXCEPT ![r] = s] /\ Goto(r, "save")
      BY <1>s, <1>t, <3>b, <3>4, <3>6, <3>7
    <3> QED
      BY <2>7, <3>5, <3>7 DEF CreateRefund
  <2>8. CASE SaveRefund(r)
    <3>1. /\ pc[r] = "save" /\ seen[r] = TotalRefunded /\ wanted[r] \in 1..10 * (Amount - seen[r])
          /\ Rounded(wanted[r]) \in 1..(Amount - seen[r])
          /\ given[r] = Rounded(wanted[r]) /\ (stripe[r] = answer[r] \/ answer[r] = "PENDING")
          /\ r \notin debited /\ rowStatus[r] = "NONE" /\ answer[r] # "NONE"
      BY <1>t, <2>8, <2>r DEF SaveRefund, StageInv, ProgressInv
    <3>2. /\ pc'[r] = IF answer[r] = "SUCCEEDED" THEN "transition" ELSE "done"
          /\ rowStatus'[r] = answer[r] /\ rowAmount'[r] = Rounded(wanted[r])
          /\ UNCHANGED <<payment, order, seen, wanted, answer, stripe, given, debited>>
          /\ Rounded(wanted[r])' = Rounded(wanted[r])
      BY <1>t, <2>8 DEF SaveRefund
    <3>3. answer[r] # "PENDING"
      BY <1>c, <3>2
    <3>4. CASE answer[r] = "SUCCEEDED"
      <4>1. TotalRefunded' = TotalRefunded + Rounded(wanted[r])
        BY <1>2, <2>8, <3>4
      <4>2. payment = PaymentFor(seen[r], FALSE) /\ order = "PAID"
        BY <2>p, <3>1, <1>2 DEF BooksSettled, PaymentFor, OrderFor
      <4>3. pc'[r] = "transition"
        BY <3>2, <3>4
      <4>4. StageInv(r)'
        BY <3>1, <3>2, <3>4, <4>1, <4>2, <4>3 DEF StageInv, PaymentFor
      <4>5. \A q \in debited' : seen'[q] + Rounded(wanted'[q]) <= seen'[r]
        BY <2>d, <3>1, <3>2
      <4> QED
        BY <1>2, <1>w, <3>1, <4>1, <4>3, <4>4, <4>5
    <3>5. CASE answer[r] # "SUCCEEDED"
      <4>1. TotalRefunded' = TotalRefunded
        BY <1>2, <3>5
      <4>2. BooksSettled'
        BY <2>k, <2>p, <3>1, <3>2, <4>1 DEF BooksSettled, PaymentFor, OrderFor
      <4> QED
        BY <1>s, <3>1, <3>2, <3>3, <3>5, <4>1, <4>2 DEF StageInv
    <3> QED
      BY <3>4, <3>5
  <2>9. CASE NumberCollision(r)
    <3>1. pc[r] = "save" /\ collisions[r] + 1 \in Nat
      BY <1>t, <2>9 DEF NumberCollision
    <3>2. collisions[r] + 1 < MaxRetries
      <4>1. collisions'[r] # MaxRetries /\ collisions[r] \in 0..MaxRetries /\ collisions[r] # MaxRetries
        BY <1>1, <1>t, <3>1 DEF Calm, GaveUp
      <4> QED
        BY <1>t, <2>9, <4>1 DEF NumberCollision
    <3>3. /\ UNCHANGED <<pc, payment, order, seen, wanted, answer, stripe, given, rowStatus, rowAmount, debited>>
          /\ TotalRefunded' = TotalRefunded
      <4>1. UNCHANGED <<pc, payment, order, seen, wanted, answer, stripe, given, rowStatus, rowAmount, debited>>
        BY <1>t, <2>9, <3>1, <3>2 DEF NumberCollision
      <4>2. ~SaveRefund(r)
        BY <1>t, <3>1, <4>1 DEF SaveRefund
      <4> QED
        BY <1>2, <4>1, <4>2
    <3>4. BooksSettled'
      BY <2>k, <2>p, <3>1, <3>3 DEF BooksSettled, PaymentFor, OrderFor
    <3>5. StageInv(r)'
      BY <2>r, <3>3 DEF StageInv, PaymentFor, OrderFor, Target, IsFull
    <3> QED
      BY <1>s, <3>1, <3>3, <3>4, <3>5
  <2>10. CASE ReadStatus(r) \/ WritePayment(r) \/ WriteOrder(r) \/ RecordRefundDebit(r)
    <3>1. /\ pc[r] \in Booking /\ seen[r] + Rounded(wanted[r]) = TotalRefunded
          /\ wanted[r] \in 1..10 * (Amount - seen[r]) /\ seen[r] \in 0..Amount
          /\ Rounded(wanted[r]) \in 1..(Amount - seen[r])
          /\ rowStatus[r] = "SUCCEEDED" /\ rowStatus[r] = stripe[r] /\ rowAmount[r] = given[r]
          /\ \A q \in debited : seen[q] + Rounded(wanted[q]) <= seen[r]
      BY <1>s, <1>t, <2>10, <2>r
         DEF ReadStatus, WritePayment, WriteOrder, RecordRefundDebit, StageInv, ProgressInv, DebitsSeen
    <3>2. /\ TotalRefunded' = TotalRefunded
          /\ UNCHANGED <<seen, wanted, stripe, given, rowStatus, rowAmount>>
          /\ \A q \in Requests : Rounded(wanted[q])' = Rounded(wanted[q])
      BY <1>2, <2>10, <3>1 DEF SaveRefund, ReadStatus, WritePayment, WriteOrder, RecordRefundDebit
    <3>3. Target(r) \in {"PARTIALLY_REFUNDED", "REFUNDED"} /\ Target(r)' = Target(r)
      BY <3>2 DEF Target, IsFull
    <3>m. ASSUME pc'[r] \in Booking, debited' = debited,
                 /\ pc'[r] = "writePayment" => payment' = PaymentFor(seen[r], FALSE) /\ order' = "PAID"
                 /\ pc'[r] = "writeOrder" => payment' = "REFUNDED" /\ Target(r) = "REFUNDED"
                 /\ pc'[r] = "debit" => payment' = Target(r) /\ order' = OrderFor(payment'),
                 pc'[r] # "transition"
          PROVE  /\ StageInv(r)'
                 /\ \A q \in debited' : seen'[q] + Rounded(wanted'[q]) <= seen'[r]
      BY <2>r, <3>1, <3>2, <3>3, <3>m DEF StageInv, PaymentFor, OrderFor
    <3>4. CASE ReadStatus(r)
      <4>1. pc[r] = "transition" /\ payment = PaymentFor(seen[r], FALSE) /\ order = "PAID"
        BY <2>r, <3>4 DEF ReadStatus, StageInv
      <4>2. payment \in {"SUCCESS", "PARTIALLY_REFUNDED"}
        BY <3>1, <4>1 DEF PaymentFor
      <4>3. CanTransition(payment, Target(r))
        BY <3>3, <4>2 DEF CanTransition, ALLOWED_TRANSITIONS, PaymentStatus
      <4>4. pc'[r] = IF payment = Target(r) THEN "debit" ELSE "writePayment"
        BY <1>t, <3>4, <4>3 DEF ReadStatus
      <4>5. UNCHANGED <<payment, order, debited>>
        BY <3>4 DEF ReadStatus
      <4> QED
        BY <1>s, <3>2, <3>m, <4>1, <4>2, <4>4, <4>5 DEF OrderFor
    <3>5. CASE WritePayment(r)
      <4>1. pc[r] = "writePayment" /\ order = "PAID" /\ UNCHANGED <<order, debited>> /\ payment' = Target(r)
        BY <2>r, <3>5 DEF WritePayment, StageInv
      <4>2. pc'[r] = IF Target(r) = "REFUNDED" THEN "writeOrder" ELSE "debit"
        BY <1>t, <3>5 DEF WritePayment
      <4> QED
        BY <1>s, <3>2, <3>m, <4>1, <4>2 DEF OrderFor
    <3>6. CASE WriteOrder(r)
      <4>1. pc[r] = "writeOrder" /\ payment = "REFUNDED" /\ Target(r) = "REFUNDED"
        BY <2>r, <3>6 DEF WriteOrder, StageInv
      <4>2. order' = "CANCELLED" /\ pc'[r] = "debit" /\ UNCHANGED <<payment, debited>>
        BY <1>t, <3>6, <4>1 DEF WriteOrder, SyncedOrder
      <4> QED
        BY <1>s, <3>2, <3>m, <4>1, <4>2 DEF OrderFor
    <3>7. CASE RecordRefundDebit(r)
      <4>1. pc[r] = "debit" /\ payment = Target(r) /\ order = OrderFor(payment)
        BY <2>r, <3>7 DEF RecordRefundDebit, StageInv
      <4>2. UNCHANGED <<payment, order>> /\ debited' = debited \cup {r} /\ pc'[r] = "done"
        BY <1>t, <3>7 DEF RecordRefundDebit
      <4>3. Short' <=> ShortOfFull(r)
        <5>1. \A q \in debited : ~ShortOfFull(q)'
          BY <1>w, <2>d, <3>1, <3>2 DEF ShortOfFull
        <5>2. ShortOfFull(r)' <=> ShortOfFull(r)
          BY <3>2 DEF ShortOfFull, IsFull
        <5> QED
          BY <4>2, <5>1, <5>2 DEF Short
      <4>4. IsFull(r) => TotalRefunded = Amount
        <5>1. wanted[r] \in Nat /\ Amount - seen[r] \in Nat
          BY <3>1
        <5>2. IsFull(r) => Amount - seen[r] <= Rounded(wanted[r])
          BY <3>1, <5>1, RoundedBounds DEF IsFull
        <5> QED
          BY <3>1, <5>2
      <4>5. Target(r) = PaymentFor(TotalRefunded, ShortOfFull(r))
        BY <1>s, <1>w, <3>1, <4>4 DEF Target, PaymentFor, ShortOfFull
      <4>6. BooksSettled'
        BY <3>2, <4>1, <4>2, <4>3, <4>5 DEF BooksSettled, PaymentFor, OrderFor
      <4>7. StageInv(r)'
        BY <1>2, <3>1, <3>2, <4>2 DEF StageInv
      <4> QED
        BY <1>s, <3>2, <4>2, <4>6, <4>7
    <3> QED
      BY <2>10, <3>4, <3>5, <3>6, <3>7
  <2> QED
    BY <1>5, <2>6, <2>7, <2>8, <2>9, <2>10 DEF Step
<1> QED
  BY <1>1, <1>3, <1>4, <1>5

\* However many refunds are made one after the other, as long as no call fails and
\* none is left pending, rows, payment, order and ledger agree with Stripe, whatever
\* the amounts and however fine; a payment stays PARTIALLY_REFUNDED, though its rows
\* add up to it, exactly when its last refund was rounded up to do so
\* (refund.service.js:148-395, :244-248 and :368).
THEOREM OrderlyBooksAgree == Spec => []BooksAgree
<1>1. Init => BooksInv
  <2> SUFFICES ASSUME Init PROVE SettledInv
    BY RowsInductive DEF BooksInv
  <2> USE AmountsAssumption, RefundsAssumption
  <2>1. TotalRefunded = 0
    <3>1. Counted \in Amounts /\ \A r \in Requests : Counted[r] = 0
      BY DEF Init, NothingRefunded, Counted, Amounts
    <3>2. Units(Counted) = {}
      BY <3>1 DEF Units, Amounts
    <3> QED
      BY <3>2, FS_EmptySet DEF TotalRefunded, Sum
  <2> QED
    BY <2>1 DEF Init, NothingRefunded, SettledInv, StageInv, DebitsSeen, BooksSettled, InProgress, Booking,
       PaymentFor, OrderFor
<1>2. BooksInv /\ [Next]_vars => BooksInv'
  <2>1. ASSUME BooksInv, Next, Calm'
        PROVE  SettledInv'
    BY <2>1, SettledStep DEF Next
  <2>2. ASSUME BooksInv, UNCHANGED vars, Calm'
        PROVE  SettledInv'
    <3>1. Calm /\ SettledInv
      BY <2>2 DEF BooksInv, Calm, GaveUp, vars
    <3>2. TotalRefunded' = TotalRefunded
      BY <2>2 DEF TotalRefunded, Sum, Units, Counted, vars
    <3> QED
      BY <2>2, <3>1, <3>2 DEF SettledInv, StageInv, DebitsSeen, BooksSettled, InProgress, PaymentFor,
         OrderFor, Short, ShortOfFull, Target, IsFull, vars
  <2> QED
    BY <2>1, <2>2, RowsInductive DEF BooksInv
<1>3. BooksInv => BooksAgree
  <2> SUFFICES ASSUME BooksInv, Orderly PROVE BooksAgree
    BY DEF BooksAgree
  <2>1. SettledInv /\ TotalRefunded \in Nat /\ \A r \in Requests : pc[r] \in {"new", "done"}
    BY CountedType DEF BooksInv, RowsInv, Orderly, Calm, InProgress
  <2>2. \A r \in Requests : StageInv(r) /\ pc[r] \notin Booking /\ pc[r] # "save"
    BY <2>1 DEF SettledInv, Booking
  <2>3. \A r \in Requests : rowStatus[r] = stripe[r] /\ rowAmount[r] = given[r]
    BY <2>2 DEF StageInv
  <2>4. debited = {r \in Requests : rowStatus[r] = "SUCCEEDED"}
    <3>1. \A r \in Requests : r \in debited <=> rowStatus[r] = "SUCCEEDED"
      BY <2>2 DEF StageInv
    <3>2. debited \subseteq Requests
      BY DEF BooksInv, RowsInv, TypeOK
    <3> QED
      BY <3>1, <3>2
  <2>5. /\ TotalRefunded <= Amount
        /\ payment = PaymentFor(TotalRefunded, Short) /\ order = OrderFor(payment)
    BY <2>1, <2>2 DEF SettledInv, BooksSettled
  <2> QED
    BY <2>3, <2>4, <2>5 DEF BooksAgree, PaymentFor, OrderFor, Short
<1> QED
  BY <1>1, <1>2, <1>3, PTL DEF Spec
----------------------------------------------------------------------------
(* The debits.  Stripe never gives back more than the charge (StripeInv);  *)
(* a debit of less than the whole payment is exactly what Stripe gave.     *)
(* Without overlap the total a request has seen is exact (InTurnInv).      *)

Out == [r \in Requests |-> IF stripe[r] \in {"PENDING", "SUCCEEDED"} THEN given[r] ELSE 0]
Debit == [r \in Requests |-> IF r \in debited THEN rowAmount[r] ELSE 0]

StripeInv ==
  /\ Sum(Out) <= Amount
  /\ \A r \in Requests :
       rowStatus[r] = "SUCCEEDED" \/ (pc[r] = "save" /\ answer[r] = "SUCCEEDED") => stripe[r] = "SUCCEEDED"

InTurnInv ==
  ~overlapped =>
    /\ \A q, r \in Requests : InProgress(q) /\ InProgress(r) => q = r
    /\ TotalRefunded <= Amount
    /\ \A r \in Requests : pc[r] \in {"refund", "save"} =>
         seen[r] = TotalRefunded /\ wanted[r] <= 10 * (Amount - seen[r])

LEMMA OutType ==
  ASSUME TypeOK
  PROVE  Out \in Amounts /\ Sum(Out) \in Nat /\ Left = Amount - Sum(Out)
<1>1. Out \in Amounts
  BY AmountsAssumption DEF TypeOK, Out, Amounts
<1> QED
  BY <1>1, SumType DEF Left, Out

LEMMA StripeStep ==
  ASSUME RowsInv, StripeInv, NEW r \in Requests, ReadPayment(r) \/ Step(r) \/ Fail(r) \/ Decide(r)
  PROVE  StripeInv'
<1> TypeOK /\ ProgressInv /\ StripeInv /\ TypeOK'
  BY StepTypes DEF RowsInv
<1>o. Out \in Amounts /\ Sum(Out) \in Nat /\ Left = Amount - Sum(Out)
  BY OutType
<1>p. Out' \in Amounts /\ Sum(Out)' = Sum(Out')
  BY AmountsAssumption DEF TypeOK, Out, Amounts, Sum, Units
<1> USE AmountsAssumption DEF TypeOK, Goto, stateVars, requestVars, stripeVars, rowVars
<1>1. CASE CreateRefund(r) /\ stripe' # stripe
  <2>1. PICK s \in RefundStatus \ {"NONE"} : Refunded(r, s) /\ answer' = [answer EXCEPT ![r] = s]
    BY <1>1 DEF CreateRefund
  <2>2. pc[r] = "refund" /\ pc' = [pc EXCEPT ![r] = "save"] /\ UNCHANGED rowVars
    BY <1>1 DEF CreateRefund
  <2>3. stripe[r] = "NONE" /\ rowStatus[r] = "NONE" /\ Out[r] = 0
    BY <2>2 DEF ProgressInv, Out
  <2>4. Payout(r) \in 1..Amount /\ Sum(Out) + Payout(r) <= Amount
    BY <1>o, <2>1 DEF Refunded
  <2>5. Sum(Out') <= Amount
    <3>1. CASE s = "FAILED"
      <4>1. Out' = Out
        BY <2>1, <2>3, <3>1 DEF Refunded, Out
      <4> QED
        BY <4>1 DEF StripeInv
    <3>2. CASE s # "FAILED"
      <4>1. Out' = [Out EXCEPT ![r] = Payout(r)]
        BY <2>1, <3>2 DEF Refunded, Out, RefundStatus
      <4>2. Sum([Out EXCEPT ![r] = Payout(r)]) = Sum(Out) + Payout(r)
        BY <1>o, <2>3, <2>4, SumAdds
      <4> QED
        BY <2>4, <4>1, <4>2
    <3> QED
      BY <3>1, <3>2
  <2> QED
    BY <1>p, <2>1, <2>2, <2>3, <2>5 DEF Refunded, StripeInv
<1>2. CASE Decide(r)
  <2>1. stripe[r] = "PENDING" /\ \E s \in {"SUCCEEDED", "FAILED"} : stripe' = [stripe EXCEPT ![r] = s]
    BY <1>2 DEF Decide
  <2>2. \A q \in Requests : Out'[q] <= Out[q]
    BY <1>2, <2>1 DEF Decide, Out
  <2>3. Sum(Out') <= Sum(Out) /\ Sum(Out') \in Nat
    BY <1>o, <1>p, <2>2, SumMonotone, SumType
  <2> QED
    BY <1>2, <1>o, <1>p, <2>1, <2>3 DEF Decide, StripeInv
<1>3. CASE ~Decide(r) /\ stripe' = stripe
  <2>1. UNCHANGED stripeVars
    <3>1. CASE CreateRefund(r)
      BY <1>3, <3>1 DEF CreateRefund, Refunded, ProgressInv
    <3> QED
      BY <1>3, <3>1 DEF Step, ReadPayment, ReadTotal, SaveRefund, NumberCollision,
         ReadStatus, WritePayment, WriteOrder, RecordRefundDebit, Fail
  <2>2. Sum(Out)' = Sum(Out)
    BY <2>1 DEF Out, Sum, Units
  <2>3. ASSUME NEW q \in Requests, rowStatus'[q] = "SUCCEEDED" \/ (pc'[q] = "save" /\ answer'[q] = "SUCCEEDED")
        PROVE  stripe[q] = "SUCCEEDED"
    <3>1. CASE ReadPayment(r) \/ ReadTotal(r) \/ SaveRefund(r)
      BY <2>3, <3>1 DEF StripeInv, ReadPayment, ReadTotal, SaveRefund
    <3>2. CASE CreateRefund(r)
      BY <1>3, <2>3, <3>2 DEF StripeInv, CreateRefund, Refunded, ProgressInv
    <3>3. CASE NumberCollision(r)
      BY <2>3, <3>3 DEF StripeInv, NumberCollision
    <3>4. CASE ReadStatus(r) \/ WritePayment(r) \/ WriteOrder(r) \/ RecordRefundDebit(r) \/ Fail(r)
      BY <2>3, <3>4 DEF StripeInv, ReadStatus, WritePayment, WriteOrder, RecordRefundDebit, Fail
    <3> QED
      BY <1>3, <3>1, <3>2, <3>3, <3>4 DEF Step
  <2> QED
    BY <1>3, <2>2, <2>3 DEF StripeInv
<1>4. stripe' = stripe \/ CreateRefund(r) \/ Decide(r)
  BY DEF Step, ReadPayment, ReadTotal, SaveRefund, NumberCollision,
     ReadStatus, WritePayment, WriteOrder, RecordRefundDebit, Fail
<1> QED
  BY <1>1, <1>2, <1>3, <1>4

LEMMA InTurnStep ==
  ASSUME RowsInv, InTurnInv, NEW r \in Requests, ReadPayment(r) \/ Step(r) \/ Fail(r) \/ Decide(r),
         ~overlapped'
  PROVE  InTurnInv'
<1> DEFINE T == TotalRefunded
<1>t. /\ T \in Nat
      /\ IF SaveRefund(r) /\ answer[r] = "SUCCEEDED" THEN T' = T + Rounded(wanted[r]) ELSE T' = T
  BY TotalGrows
<1>i. /\ ~overlapped
      /\ \A q, p \in Requests : InProgress(q) /\ InProgress(p) => q = p
      /\ T <= Amount
      /\ \A q \in Requests : pc[q] \in {"refund", "save"} => seen[q] = T /\ wanted[q] <= 10 * (Amount - seen[q])
  <2>1. ~overlapped
    BY DEF Step, ReadPayment, ReadTotal, CreateRefund, SaveRefund, NumberCollision,
       ReadStatus, WritePayment, WriteOrder, RecordRefundDebit, Fail, Decide, RowsInv, TypeOK
  <2> QED
    BY <2>1 DEF InTurnInv
<1> HIDE DEF T
<1> SUFFICES /\ \A q, p \in Requests : InProgress(q)' /\ InProgress(p)' => q = p
             /\ T' <= Amount
             /\ \A q \in Requests : pc'[q] \in {"refund", "save"} =>
                  seen'[q] = T' /\ wanted'[q] <= 10 * (Amount - seen'[q])
  BY DEF InTurnInv, T
<1> USE AmountsAssumption DEF RowsInv, TypeOK, Goto, InProgress, stateVars, requestVars, stripeVars, rowVars
<1>1. CASE ReadPayment(r)
  <2>1. T' = T /\ \A q \in Requests : ~InProgress(q)
    BY <1>t, <1>1 DEF ReadPayment, SaveRefund
  <2> QED
    BY <1>1, <1>i, <2>1 DEF ReadPayment
<1>2. CASE ReadTotal(r)
  <2>1. T' = T /\ pc[r] = "total"
    BY <1>t, <1>2 DEF ReadTotal, SaveRefund
  <2>2. \/ pc' = [pc EXCEPT ![r] = "done"] /\ UNCHANGED <<seen, wanted>>
        \/ \E a \in Int : /\ a <= 10 * (Amount - T)
                          /\ pc' = [pc EXCEPT ![r] = "refund"]
                          /\ seen' = [seen EXCEPT ![r] = T]
                          /\ wanted' = [wanted EXCEPT ![r] = a]
    BY <1>2, <1>t, RefundsAssumption DEF ReadTotal, T
  <2> QED
    BY <1>t, <1>i, <2>1, <2>2
<1>3. CASE CreateRefund(r) \/ NumberCollision(r)
  <2>1. /\ UNCHANGED <<seen, wanted>> /\ pc[r] \in {"refund", "save"}
        /\ pc' \in {[pc EXCEPT ![r] = "save"], [pc EXCEPT ![r] = "done"]}
    BY <1>3 DEF CreateRefund, NumberCollision
  <2>2. T' = T
    <3>1. ~(SaveRefund(r) /\ answer[r] = "SUCCEEDED")
      BY <1>3 DEF CreateRefund, NumberCollision, SaveRefund, ProgressInv
    <3> QED
      BY <1>t, <3>1
  <2> QED
    BY <1>i, <2>1, <2>2
<1>4. CASE SaveRefund(r)
  <2>1. /\ pc[r] = "save" /\ UNCHANGED <<seen, wanted>>
        /\ pc' = [pc EXCEPT ![r] = IF answer[r] = "SUCCEEDED" THEN "transition" ELSE "done"]
    BY <1>4 DEF SaveRefund
  <2>2. \A q \in Requests \ {r} : pc[q] \notin {"refund", "save"}
    BY <1>i, <2>1
  <2>3. seen[r] = T /\ wanted[r] \in Nat /\ wanted[r] <= 10 * (Amount - T) /\ Amount - T \in Nat
    BY <1>t, <1>i, <2>1
  <2>4. Rounded(wanted[r]) \in Nat /\ Rounded(wanted[r]) <= Amount - T
    BY <2>3, RoundedBounds
  <2> QED
    BY <1>t, <1>i, <1>4, <2>1, <2>2, <2>4
<1>5. CASE ReadStatus(r) \/ WritePayment(r) \/ WriteOrder(r) \/ RecordRefundDebit(r)
  <2>1. /\ UNCHANGED <<seen, wanted>> /\ pc[r] \in Booking
        /\ pc' \in {[pc EXCEPT ![r] = p] : p \in Booking \cup {"done"}}
    BY <1>5 DEF ReadStatus, WritePayment, WriteOrder, RecordRefundDebit, Booking
  <2>2. T' = T
    BY <1>t, <2>1 DEF SaveRefund, Booking
  <2> QED
    BY <1>i, <2>1, <2>2 DEF Booking
<1>6. CASE Fail(r) \/ Decide(r)
  <2>1. UNCHANGED <<seen, wanted>> /\ pc' \in {pc, [pc EXCEPT ![r] = "done"]}
    BY <1>6 DEF Fail, Decide
  <2>2. T' = T
    BY <1>t, <1>6 DEF Fail, Decide, SaveRefund
  <2> QED
    BY <1>i, <2>1, <2>2
<1> QED
  BY <1>1, <1>2, <1>3, <1>4, <1>5, <1>6 DEF Step

DebitInv == RowsInv /\ StripeInv /\ InTurnInv

LEMMA DebitInductive == (Init => DebitInv) /\ (DebitInv /\ [Next]_vars => DebitInv')
<1>1. ASSUME Init PROVE DebitInv
  <2>1. TotalRefunded = 0 /\ Sum(Out) = 0
    <3>1. Counted = [r \in Requests |-> 0] /\ Out = [r \in Requests |-> 0]
      BY <1>1 DEF Init, NothingRefunded, Counted, Out
    <3> QED
      BY <3>1, SumZero DEF TotalRefunded
  <2> QED
    BY <1>1, <2>1, RowsInductive, AmountsAssumption DEF Init, NothingRefunded, DebitInv, StripeInv,
       InTurnInv, InProgress
<1>2. ASSUME DebitInv, Next PROVE DebitInv'
  <2>1. PICK r \in Requests : ReadPayment(r) \/ Step(r) \/ Fail(r) \/ Decide(r)
    BY <1>2 DEF Next
  <2>2. overlapped' => InTurnInv'
    BY DEF InTurnInv
  <2> QED
    BY <1>2, <2>1, <2>2, RowsStep, StripeStep, InTurnStep DEF DebitInv
<1>3. ASSUME DebitInv, UNCHANGED vars PROVE DebitInv'
  <2>1. UNCHANGED <<TotalRefunded, Sum(Out)>>
    BY <1>3 DEF TotalRefunded, Sum, Units, Counted, Out, vars
  <2> QED
    BY <1>3, <2>1, RowsInductive DEF DebitInv, StripeInv, InTurnInv, InProgress, vars
<1> QED
  BY <1>1, <1>2, <1>3

\* The ledger debits a payment for more than its amount only when a refund of
\* the whole payment was made beside another request; partial refunds never do,
\* however many overlap and whatever fails (refund.service.js:166 and :244).
THEOREM OverdraftTakesOverlap == Spec => []DebitsWithinPayment
<1>1. ASSUME DebitInv PROVE DebitsWithinPayment
  <2> USE <1>1 DEF DebitInv, RowsInv
  <2>1. Debit \in Amounts /\ Sum(Debit) \in Nat
    BY AmountsAssumption, SumType DEF TypeOK, Debit, Amounts
  <2>2. CASE ~overlapped
    <3>1. Counted \in Amounts /\ TotalRefunded \in Nat /\ TotalRefunded <= Amount
      BY <2>2, CountedType DEF InTurnInv
    <3>2. \A r \in Requests : Debit[r] <= Counted[r]
      BY AmountsAssumption DEF TypeOK, RowsMatchStripe, Debit, Counted
    <3> QED
      BY <2>1, <3>1, <3>2, SumMonotone, AmountsAssumption
         DEF TotalRefunded, DebitsWithinPayment, RefundsWithinPayment, Debit
  <2>3. CASE \A r \in debited : rowAmount[r] < Amount
    <3>1. Out \in Amounts /\ Sum(Out) \in Nat /\ Sum(Out) <= Amount
      BY OutType DEF StripeInv
    <3>2. \A r \in Requests : Debit[r] <= Out[r]
      BY <2>3, AmountsAssumption DEF TypeOK, RowsMatchStripe, StripeInv, Debit, Out
    <3> QED
      BY <2>1, <3>1, <3>2, SumMonotone, AmountsAssumption
         DEF DebitsWithinPayment, RefundsWithinPayment, Debit
  <2> QED
    BY <2>2, <2>3 DEF DebitsWithinPayment
<1> QED
  BY <1>1, DebitInductive, PTL DEF Spec
=============================================================================
