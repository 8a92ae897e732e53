---------------------- MODULE IdempotentPaymentsProofs ----------------------
(***************************************************************************)
(* For any number of requests, keys, bodies, failures and crashes: the     *)
(* types of IdempotentPayments, what a confirmed payment is worth, what a  *)
(* key guarantees while no call fails, and how far gateway and database    *)
(* can part.                                                               *)
(***************************************************************************)
EXTENDS IdempotentPayments, FiniteSetTheorems, TLAPS

LEMMA RequestTypes ==
  ASSUME TypeOK, NEW r \in Requests, Arrive(r) \/ Step(r) \/ UpdateRecord(r)
  PROVE  TypeOK'
<1> USE RequestsAssumption DEF TypeOK, Stage, Goto, Answer, Outcome,
        keyVars, answerVars, customerVars, bounds
<1>1. HashOf(r) \in Hashes /\ KeyOf[r] \in Keys
  BY DEF Hashes
<1>2. CASE Arrive(r)
  BY <1>2 DEF Arrive
<1>3. CASE Reserve(r)
  BY <1>1, <1>3 DEF Reserve, KeyStatus
<1>4. CASE Lookup(r)
  BY <1>1, <1>4 DEF Lookup
<1>5. CASE ResetForRetry(r)
  BY <1>1, <1>5 DEF ResetForRetry, KeyStatus
<1>6. CASE FindUser(r) \/ CreateCustomer(r) \/ SaveCustomer(r)
  BY <1>6 DEF FindUser, CreateCustomer, SaveCustomer
<1>7. CASE CallGateway(r) \/ SavePayment(r) \/ CancelPayment(r)
  BY <1>7 DEF CallGateway, SavePayment, CancelPayment
<1>8. CASE Respond(r)
  BY <1>8 DEF Respond, Update
<1>9. CASE Refuse(r)
  BY <1>9 DEF Refuse, Update
<1>10. CASE UpdateRecord(r)
  BY <1>1, <1>10 DEF UpdateRecord, Update, KeyStatus
<1> QED
  BY <1>2, <1>3, <1>4, <1>5, <1>6, <1>7, <1>8, <1>9, <1>10 DEF Step

LEMMA FailureTypes ==
  ASSUME TypeOK, NEW r \in Requests,
         Fault(r) \/ LoseAnswer(r) \/ LoseUpdate(r) \/ Crash(r)
  PROVE  TypeOK'
<1> USE RequestsAssumption DEF TypeOK, Stage, Goto, Answer, Outcome,
        keyVars, answerVars, customerVars, bounds
<1>1. CASE Fault(r)
  BY <1>1 DEF Fault
<1>2. CASE LoseAnswer(r)
  BY <1>2 DEF LoseAnswer
<1>3. CASE LoseUpdate(r)
  BY <1>3 DEF LoseUpdate, Update
<1>4. CASE Crash(r)
  BY <1>4 DEF Crash, Update
<1> QED
  BY <1>1, <1>2, <1>3, <1>4

\* Every variable keeps its type, and a COMPLETED record always holds a response
\* (idempotency.repository.js, idempotency.middleware.js).
THEOREM RequestsTypeCorrect == Spec => []TypeOK
<1>1. Init => TypeOK
  BY DEF Init, TypeOK, KeyStatus, Stage, Outcome, Update
<1>2. TypeOK /\ [Next]_vars => TypeOK'
  <2> SUFFICES ASSUME TypeOK, [Next]_vars
               PROVE  TypeOK'
    OBVIOUS
  <2>1. ASSUME NEW r \in Requests, Arrive(r) \/ Step(r) \/ UpdateRecord(r)
        PROVE  TypeOK'
    BY <2>1, RequestTypes
  <2>2. ASSUME NEW r \in Requests, Fault(r) \/ LoseAnswer(r) \/ LoseUpdate(r) \/ Crash(r)
        PROVE  TypeOK'
    BY <2>2, FailureTypes
  <2>3. ASSUME NEW k \in Keys, Expire(k)
        PROVE  TypeOK'
    BY <2>3 DEF Expire, TypeOK, keyVars, answerVars, customerVars, bounds
  <2>4. CASE UNCHANGED vars
    BY <2>4 DEF vars, TypeOK
  <2> QED
    BY <2>1, <2>2, <2>3, <2>4 DEF Next
<1> QED
  BY <1>1, <1>2, PTL DEF Spec

----------------------------------------------------------------------------
(* What a confirmation is worth.  A payment is confirmed only by the       *)
(* request that made it, after its last stage; from then on nothing can    *)
(* cancel it, because only the request itself would.                       *)

Settled == {r \in charged \cap payments : pc[r] = "done"}

ConfirmInv ==
  /\ \A r \in Requests : pc[r] = "save" => r \in charged
  /\ \A r \in Requests : pc[r] = "respond" => r \in charged \cap payments
  /\ \A r \in Requests : update[r] = "complete" => r \in Settled
  /\ \A r \in Requests : outcome[r] \in {"created", "replayed"} => shown[r] \in Settled
  /\ \A k \in Keys : keyStatus[k] = "COMPLETED" => keyReply[k] \in Settled

LEMMA SettledForGood ==
  ASSUME TypeOK, [Next]_vars, NEW q \in Settled
  PROVE  q \in Settled'
<1> USE DEF Settled, TypeOK, Goto, Answer
<1>1. ASSUME NEW r \in Requests, Arrive(r) \/ Step(r) \/ UpdateRecord(r)
      PROVE  q \in Settled'
  BY <1>1 DEF Step, Arrive, Reserve, Lookup, ResetForRetry, FindUser, CreateCustomer,
     SaveCustomer, CallGateway, SavePayment, CancelPayment, Respond, Refuse, UpdateRecord
<1>2. ASSUME NEW r \in Requests, Fault(r) \/ LoseAnswer(r) \/ LoseUpdate(r) \/ Crash(r)
      PROVE  q \in Settled'
  BY <1>2 DEF Fault, LoseAnswer, LoseUpdate, Crash
<1>3. ASSUME NEW k \in Keys, Expire(k)
      PROVE  q \in Settled'
  BY <1>3 DEF Expire
<1>4. CASE UNCHANGED vars
  BY <1>4 DEF vars
<1> QED
  BY <1>1, <1>2, <1>3, <1>4 DEF Next

LEMMA ConfirmStep ==
  ASSUME TypeOK, TypeOK', ConfirmInv, [Next]_vars
  PROVE  ConfirmInv'
<1>1. Settled \subseteq Settled'
  BY SettledForGood
<1> USE DEF TypeOK, ConfirmInv, Goto, Answer, keyVars, answerVars
<1>2. ASSUME NEW r \in Requests, Arrive(r) \/ Step(r) \/ UpdateRecord(r)
      PROVE  ConfirmInv'
  <2>1. CASE Arrive(r) \/ Reserve(r) \/ ResetForRetry(r)
    BY <1>1, <2>1, RequestsAssumption DEF Arrive, Reserve, ResetForRetry
  <2>2. CASE Lookup(r)
    BY <1>1, <2>2, RequestsAssumption DEF Lookup
  <2>3. CASE FindUser(r) \/ CreateCustomer(r) \/ SaveCustomer(r) \/ CallGateway(r)
    BY <1>1, <2>3 DEF FindUser, CreateCustomer, SaveCustomer, CallGateway
  <2>4. CASE SavePayment(r) \/ CancelPayment(r)
    BY <1>1, <2>4 DEF SavePayment, CancelPayment
  <2>5. CASE Respond(r)
    <3>1. r \in Settled'
      BY <2>5 DEF Respond, Settled
    <3> QED
      BY <1>1, <2>5, <3>1 DEF Respond
  <2>6. CASE Refuse(r)
    BY <1>1, <2>6 DEF Refuse
  <2>7. CASE UpdateRecord(r)
    BY <1>1, <2>7, RequestsAssumption DEF UpdateRecord
  <2> QED
    BY <1>2, <2>1, <2>2, <2>3, <2>4, <2>5, <2>6, <2>7 DEF Step
<1>3. ASSUME NEW r \in Requests, Fault(r) \/ LoseAnswer(r) \/ LoseUpdate(r) \/ Crash(r)
      PROVE  ConfirmInv'
  <2>1. CASE Fault(r)
    BY <1>1, <2>1 DEF Fault
  <2>2. CASE LoseAnswer(r)
    BY <1>1, <2>2 DEF LoseAnswer
  <2>3. CASE LoseUpdate(r) \/ Crash(r)
    BY <1>1, <2>3 DEF LoseUpdate, Crash
  <2> QED
    BY <1>3, <2>1, <2>2, <2>3
<1>4. ASSUME NEW k \in Keys, Expire(k)
      PROVE  ConfirmInv'
  BY <1>1, <1>4 DEF Expire
<1>5. CASE UNCHANGED vars
  BY <1>5 DEF vars, Settled
<1> QED
  BY <1>2, <1>3, <1>4, <1>5 DEF Next

\* A client told of a payment, and a COMPLETED key, have that payment in both
\* the database and the gateway, whatever fails (createPayment() answers only
\* after its transaction, and cancels only when that failed).
THEOREM ConfirmationsAreReal == Spec => []ConfirmedPaymentExists
<1>1. Init => ConfirmInv
  BY DEF Init, ConfirmInv
<1>2. TypeOK /\ TypeOK' /\ ConfirmInv /\ [Next]_vars => ConfirmInv'
  BY ConfirmStep
<1>3. ConfirmInv => ConfirmedPaymentExists
  BY DEF ConfirmInv, ConfirmedPaymentExists, Settled
<1> QED
  BY <1>1, <1>2, <1>3, RequestsTypeCorrect, PTL DEF Spec

----------------------------------------------------------------------------
(* What a key guarantees.  The request that inserted the record is the only *)
(* one that may still, or ever did, create a payment under the key: its     *)
(* claim.  That is inductive only together with the record's fingerprint,   *)
(* which stays the claimant's, and with the fact that nothing has failed.   *)

Claims(r) ==
  \/ pc[r] \in {"findUser", "createCustomer", "saveCustomer", "gateway", "save", "respond"}
  \/ r \in charged \cup payments
  \/ update[r] = "complete"

KeyClaim(k) ==
  /\ keyStatus[k] # "FAILED"
  /\ \A r \in WithKey(k) : pc[r] \notin {"reset", "cancel", "refuse"} /\ update[r] # "fail"
  /\ \A r \in WithKey(k) : Claims(r) => keyStatus[k] # "NONE" /\ keyHash[k] = HashOf(r)
  /\ \A q, r \in WithKey(k) : Claims(q) /\ Claims(r) => q = r
  /\ keyStatus[k] = "COMPLETED" => keyHash[k] = HashOf(keyReply[k])
  /\ \A r \in WithKey(k) : outcome[r] = "replayed" => shown[r] \in Requests /\ HashOf(shown[r]) = HashOf(r)

ClaimInv == \A k \in Keys : Calm(k) => KeyClaim(k)

LEMMA ClaimRequest ==
  ASSUME TypeOK, NEW k \in Keys, Calm(k), KeyClaim(k),
         NEW r \in Requests, Arrive(r) \/ Step(r) \/ UpdateRecord(r)
  PROVE  KeyClaim(k)'
<1> USE RequestsAssumption
    DEF TypeOK, Calm, KeyClaim, Claims, WithKey, Goto, Answer, keyVars, answerVars
<1>1. CASE Arrive(r)
  BY <1>1 DEF Arrive
<1>2. CASE Reserve(r)
  <2>1. CASE KeyOf[r] = k
    BY <1>2, <2>1 DEF Reserve
  <2>2. CASE KeyOf[r] # k
    BY <1>2, <2>2 DEF Reserve
  <2> QED
    BY <2>1, <2>2
<1>3. CASE Lookup(r)
  <2>1. CASE KeyOf[r] = k
    BY <1>3, <2>1 DEF Lookup
  <2>2. CASE KeyOf[r] # k
    BY <1>3, <2>2 DEF Lookup
  <2> QED
    BY <2>1, <2>2
<1>4. CASE ResetForRetry(r)
  BY <1>4 DEF ResetForRetry
<1>5. CASE FindUser(r) \/ CreateCustomer(r) \/ SaveCustomer(r)
  BY <1>5 DEF FindUser, CreateCustomer, SaveCustomer
<1>6. CASE CallGateway(r) \/ SavePayment(r)
  BY <1>6 DEF CallGateway, SavePayment
<1>7. CASE CancelPayment(r)
  BY <1>7 DEF CancelPayment
<1>8. CASE Respond(r)
  BY <1>8 DEF Respond
<1>9. CASE Refuse(r)
  BY <1>9 DEF Refuse
<1>10. CASE UpdateRecord(r)
  BY <1>10 DEF UpdateRecord
<1> QED
  BY <1>1, <1>2, <1>3, <1>4, <1>5, <1>6, <1>7, <1>8, <1>9, <1>10 DEF Step

LEMMA ClaimStep ==
  ASSUME TypeOK, ClaimInv, [Next]_vars
  PROVE  ClaimInv'
<1> SUFFICES ASSUME NEW k \in Keys, Calm(k)'
             PROVE  KeyClaim(k)'
  BY DEF ClaimInv
<1>1. ASSUME NEW r \in Requests, Arrive(r) \/ Step(r) \/ UpdateRecord(r)
      PROVE  KeyClaim(k)'
  <2>1. Calm(k)
    BY <1>1 DEF Calm, Step, Arrive, Reserve, Lookup, ResetForRetry, FindUser, CreateCustomer,
       SaveCustomer, CallGateway, SavePayment, CancelPayment, Respond, Refuse, UpdateRecord, bounds
  <2> QED
    BY <1>1, <2>1, ClaimRequest DEF ClaimInv
<1>2. ASSUME NEW r \in Requests, Fault(r) \/ LoseAnswer(r) \/ LoseUpdate(r)
      PROVE  FALSE
  BY <1>2 DEF Fault, LoseAnswer, LoseUpdate, Calm, TypeOK
<1>3. ASSUME NEW r \in Requests, Crash(r)
      PROVE  KeyClaim(k)'
  <2>1. KeyClaim(k)
    BY <1>3 DEF Crash, Calm, ClaimInv
  <2> QED
    BY <1>3, <2>1 DEF Crash, TypeOK, KeyClaim, Claims, WithKey, Goto, keyVars, answerVars
<1>4. ASSUME NEW j \in Keys, Expire(j)
      PROVE  KeyClaim(k)'
  <2>1. KeyClaim(k)
    BY <1>4 DEF Expire, Calm, ClaimInv, bounds
  <2> QED
    BY <1>4, <2>1 DEF Expire, KeyClaim, Claims, WithKey, keyVars, answerVars
<1>5. CASE UNCHANGED vars
  BY <1>5 DEF vars, ClaimInv, Calm, KeyClaim, Claims, WithKey
<1> QED
  BY <1>1, <1>2, <1>3, <1>4, <1>5 DEF Next

LEMMA ClaimInvariant == Spec => []ClaimInv
<1>1. Init => ClaimInv
  BY DEF Init, ClaimInv, KeyClaim, Claims, WithKey
<1>2. TypeOK /\ ClaimInv /\ [Next]_vars => ClaimInv'
  BY ClaimStep
<1> QED
  BY <1>1, <1>2, RequestsTypeCorrect, PTL DEF Spec

\* While no call fails and the key lives, one payment is made under it, however
\* many requests arrive and whichever processes die (reserve()).
THEOREM KeyPaysOnce == Spec => []OncePerKey
<1>1. ClaimInv => OncePerKey
  BY DEF ClaimInv, KeyClaim, Claims, OncePerKey
<1> QED
  BY <1>1, ClaimInvariant, PTL

\* Equal fingerprints: the same fields, with the same values outside the metadata.
LEMMA EqualHashes ==
  ASSUME NEW q, NEW r, HashOf(q) = HashOf(r)
  PROVE  /\ DOMAIN BodyOf[q] = DOMAIN BodyOf[r]
         /\ \A n \in DOMAIN BodyOf[r] \ {"metadata"} : BodyOf[q][n] = BodyOf[r][n]
<1>1. DOMAIN HashOf(q) = DOMAIN BodyOf[q] /\ DOMAIN HashOf(r) = DOMAIN BodyOf[r]
  BY DEF HashOf, computeRequestHash
<1>2. \A n \in DOMAIN BodyOf[q] \ {"metadata"} : HashOf(q)[n] = BodyOf[q][n]
  BY DEF HashOf, computeRequestHash
<1>3. \A n \in DOMAIN BodyOf[r] \ {"metadata"} : HashOf(r)[n] = BodyOf[r][n]
  BY DEF HashOf, computeRequestHash
<1> QED
  BY <1>1, <1>2, <1>3

\* Under the same conditions a replay shows the response to a body with the same
\* fields, whatever the metadata says (computeRequestHash()).
THEOREM ReplaysMatch == Spec => []ReplayMatchesFields
<1>1. ClaimInv => ReplayMatchesFields
  <2> SUFFICES ASSUME ClaimInv, NEW r \in Requests, outcome[r] = "replayed", Calm(KeyOf[r])
               PROVE  /\ DOMAIN BodyOf[shown[r]] = DOMAIN BodyOf[r]
                      /\ \A n \in DOMAIN BodyOf[r] \ {"metadata"} : BodyOf[shown[r]][n] = BodyOf[r][n]
    BY DEF ReplayMatchesFields
  <2>1. HashOf(shown[r]) = HashOf(r)
    BY RequestsAssumption DEF ClaimInv, KeyClaim, WithKey
  <2> QED
    BY <2>1, EqualHashes
<1> QED
  BY <1>1, ClaimInvariant, PTL

----------------------------------------------------------------------------
(* Gateway and database.  A request that has charged and cannot save any   *)
(* more is owed to one failure.  At Stripe it is owed to two once it can   *)
(* no longer cancel; a lost answer or a crash counts for both.             *)

Early == {"new", "reserve", "lookup", "reset", "findUser", "createCustomer", "saveCustomer", "gateway"}

PlaceInv ==
  \A r \in Requests :
    /\ pc[r] \in Early => r \notin charged \cup payments
    /\ pc[r] = "save" => r \in charged \ payments
    /\ pc[r] = "respond" => r \in charged \cap payments

Unsaved == {r \in charged \ payments : pc[r] \in {"cancel", "refuse", "done"}}
Orphans == {r \in (charged \ payments) \cap StripeRequests : pc[r] \in {"refuse", "done"}}
Rowonly == {r \in payments : r \notin charged \/ pc[r] = "cancel"}

LEMMA PlaceStep ==
  ASSUME TypeOK, PlaceInv, [Next]_vars
  PROVE  PlaceInv'
<1> USE DEF TypeOK, PlaceInv, Early, Goto, Answer
<1>1. ASSUME NEW r \in Requests, Arrive(r) \/ Step(r) \/ UpdateRecord(r)
      PROVE  PlaceInv'
  <2>1. CASE Arrive(r) \/ Reserve(r) \/ Lookup(r) \/ ResetForRetry(r)
    BY <2>1 DEF Arrive, Reserve, Lookup, ResetForRetry
  <2>2. CASE FindUser(r) \/ CreateCustomer(r) \/ SaveCustomer(r) \/ CallGateway(r)
    BY <2>2 DEF FindUser, CreateCustomer, SaveCustomer, CallGateway
  <2>3. CASE SavePayment(r) \/ CancelPayment(r) \/ Respond(r) \/ Refuse(r) \/ UpdateRecord(r)
    BY <2>3 DEF SavePayment, CancelPayment, Respond, Refuse, UpdateRecord
  <2> QED
    BY <1>1, <2>1, <2>2, <2>3 DEF Step
<1>2. ASSUME NEW r \in Requests, Fault(r) \/ LoseAnswer(r) \/ LoseUpdate(r) \/ Crash(r)
      PROVE  PlaceInv'
  BY <1>2 DEF Fault, LoseAnswer, LoseUpdate, Crash
<1>3. ASSUME NEW k \in Keys, Expire(k)
      PROVE  PlaceInv'
  BY <1>3 DEF Expire
<1>4. CASE UNCHANGED vars
  BY <1>4 DEF vars
<1> QED
  BY <1>1, <1>2, <1>3, <1>4 DEF Next

\* A step that has nothing to do with failures.
LEMMA OrdinaryStep ==
  ASSUME TypeOK, PlaceInv, [Next]_vars,
         ~\E r \in Requests : Fault(r) \/ LoseAnswer(r) \/ LoseUpdate(r) \/ Crash(r)
  PROVE  /\ Unsaved' \subseteq Unsaved /\ Orphans' \subseteq Orphans /\ Rowonly' \subseteq Rowonly
         /\ UNCHANGED bounds
<1> USE DEF TypeOK, PlaceInv, Early, Goto, Answer, Unsaved, Orphans, Rowonly, bounds
<1>1. ASSUME NEW r \in Requests, Arrive(r) \/ Step(r) \/ UpdateRecord(r)
      PROVE  /\ Unsaved' \subseteq Unsaved /\ Orphans' \subseteq Orphans /\ Rowonly' \subseteq Rowonly
             /\ UNCHANGED bounds
  <2>1. CASE Arrive(r) \/ Reserve(r) \/ Lookup(r) \/ ResetForRetry(r)
    BY <2>1 DEF Arrive, Reserve, Lookup, ResetForRetry
  <2>2. CASE FindUser(r) \/ CreateCustomer(r) \/ SaveCustomer(r) \/ CallGateway(r)
    BY <2>2 DEF FindUser, CreateCustomer, SaveCustomer, CallGateway
  <2>3. CASE SavePayment(r) \/ CancelPayment(r) \/ Respond(r) \/ Refuse(r) \/ UpdateRecord(r)
    BY <2>3 DEF SavePayment, CancelPayment, Respond, Refuse, UpdateRecord
  <2> QED
    BY <1>1, <2>1, <2>2, <2>3 DEF Step
<1>2. ASSUME NEW k \in Keys, Expire(k)
      PROVE  /\ Unsaved' \subseteq Unsaved /\ Orphans' \subseteq Orphans /\ Rowonly' \subseteq Rowonly
             /\ UNCHANGED bounds
  BY <1>2 DEF Expire
<1>3. CASE UNCHANGED vars
  BY <1>3 DEF vars
<1> QED
  BY <1>1, <1>2, <1>3 DEF Next

\* What one failure can do.
LEMMA FailureStep ==
  ASSUME TypeOK, PlaceInv, NEW r \in Requests, Fault(r) \/ LoseAnswer(r) \/ LoseUpdate(r) \/ Crash(r)
  PROVE  \/ /\ UNCHANGED <<lost, crashes>> /\ faults' = faults + 1 /\ Rowonly' \subseteq Rowonly
            /\ \/ Unsaved' \subseteq Unsaved \cup {r} /\ Orphans' \subseteq Orphans
               \/ Unsaved' \subseteq Unsaved /\ Orphans' \subseteq Orphans \cup {r}
         \/ /\ UNCHANGED <<faults, crashes>> /\ lost' = lost + 1
            /\ Rowonly' \subseteq Rowonly \cup {r}
            /\ Unsaved' \subseteq Unsaved \cup {r} /\ Orphans' \subseteq Orphans \cup {r}
         \/ /\ UNCHANGED <<faults, lost>> /\ crashes' = crashes + 1 /\ Rowonly' \subseteq Rowonly
            /\ Unsaved' \subseteq Unsaved \cup {r} /\ Orphans' \subseteq Orphans \cup {r}
<1> USE DEF TypeOK, PlaceInv, Early, Goto, Answer, Unsaved, Orphans, Rowonly
<1>1. CASE Fault(r)
  <2>1. CASE pc[r] = "save"
    BY <1>1, <2>1 DEF Fault
  <2>2. CASE pc[r] = "cancel"
    BY <1>1, <2>2 DEF Fault
  <2>3. CASE pc[r] \notin {"save", "cancel"}
    BY <1>1, <2>3 DEF Fault
  <2> QED
    BY <2>1, <2>2, <2>3
<1>2. CASE LoseAnswer(r)
  BY <1>2 DEF LoseAnswer
<1>3. CASE LoseUpdate(r)
  BY <1>3 DEF LoseUpdate
<1>4. CASE Crash(r)
  BY <1>4 DEF Crash
<1> QED
  BY <1>1, <1>2, <1>3, <1>4

LEMMA SubsetCounts ==
  ASSUME NEW old, NEW new, IsFiniteSet(old), new \subseteq old
  PROVE  /\ IsFiniteSet(new) /\ Cardinality(new) \in Nat /\ Cardinality(old) \in Nat
         /\ Cardinality(new) <= Cardinality(old)
BY FS_Subset, FS_CardinalityType

LEMMA OneMoreCounts ==
  ASSUME NEW old, NEW new, NEW r, IsFiniteSet(old), new \subseteq old \cup {r}
  PROVE  /\ IsFiniteSet(new) /\ Cardinality(new) \in Nat /\ Cardinality(old) \in Nat
         /\ Cardinality(new) <= Cardinality(old) + 1
<1>1. /\ IsFiniteSet(old \cup {r}) /\ Cardinality(old) \in Nat
      /\ Cardinality(old \cup {r}) = IF r \in old THEN Cardinality(old) ELSE Cardinality(old) + 1
  BY FS_AddElement, FS_CardinalityType
<1>2. /\ IsFiniteSet(new) /\ Cardinality(new) \in Nat
      /\ Cardinality(new) <= Cardinality(old \cup {r})
  BY <1>1, SubsetCounts
<1> QED
  BY <1>1, <1>2

CostInv ==
  /\ IsFiniteSet(Unsaved) /\ IsFiniteSet(Orphans) /\ IsFiniteSet(Rowonly)
  /\ Cardinality(Unsaved) <= faults + lost + crashes
  /\ Cardinality(Unsaved) + Cardinality(Orphans) <= faults + 2 * lost + 2 * crashes
  /\ Cardinality(Rowonly) <= lost

LEMMA CostStep ==
  ASSUME TypeOK, PlaceInv, CostInv, [Next]_vars
  PROVE  CostInv'
<1>0. faults \in Nat /\ lost \in Nat /\ crashes \in Nat
  BY DEF TypeOK
<1>1. CASE ~\E r \in Requests : Fault(r) \/ LoseAnswer(r) \/ LoseUpdate(r) \/ Crash(r)
  <2>1. /\ Unsaved' \subseteq Unsaved /\ Orphans' \subseteq Orphans /\ Rowonly' \subseteq Rowonly
        /\ UNCHANGED bounds
    BY <1>1, OrdinaryStep
  <2> QED
    BY <1>0, <2>1, SubsetCounts DEF CostInv, bounds
<1>2. ASSUME NEW r \in Requests, Fault(r) \/ LoseAnswer(r) \/ LoseUpdate(r) \/ Crash(r)
      PROVE  CostInv'
  <2>1. /\ Unsaved' \subseteq Unsaved \cup {r} /\ Orphans' \subseteq Orphans \cup {r}
        /\ Rowonly' \subseteq Rowonly \cup {r}
    BY <1>2, FailureStep
  <2>2. /\ IsFiniteSet(Unsaved') /\ Cardinality(Unsaved') \in Nat /\ Cardinality(Unsaved) \in Nat
        /\ Cardinality(Unsaved') <= Cardinality(Unsaved) + 1
        /\ Unsaved' \subseteq Unsaved => Cardinality(Unsaved') <= Cardinality(Unsaved)
    BY <2>1, SubsetCounts, OneMoreCounts DEF CostInv
  <2>3. /\ IsFiniteSet(Orphans') /\ Cardinality(Orphans') \in Nat /\ Cardinality(Orphans) \in Nat
        /\ Cardinality(Orphans') <= Cardinality(Orphans) + 1
        /\ Orphans' \subseteq Orphans => Cardinality(Orphans') <= Cardinality(Orphans)
    BY <2>1, SubsetCounts, OneMoreCounts DEF CostInv
  <2>4. /\ IsFiniteSet(Rowonly') /\ Cardinality(Rowonly') \in Nat /\ Cardinality(Rowonly) \in Nat
        /\ Cardinality(Rowonly') <= Cardinality(Rowonly) + 1
        /\ Rowonly' \subseteq Rowonly => Cardinality(Rowonly') <= Cardinality(Rowonly)
    BY <2>1, SubsetCounts, OneMoreCounts DEF CostInv
  <2>5. CASE UNCHANGED <<lost, crashes>> /\ faults' = faults + 1 /\ Rowonly' \subseteq Rowonly
             /\ (Unsaved' \subseteq Unsaved \/ Orphans' \subseteq Orphans)
    BY <1>0, <2>2, <2>3, <2>4, <2>5 DEF CostInv
  <2>6. CASE UNCHANGED <<faults, crashes>> /\ lost' = lost + 1
    BY <1>0, <2>2, <2>3, <2>4, <2>6 DEF CostInv
  <2>7. CASE UNCHANGED <<faults, lost>> /\ crashes' = crashes + 1 /\ Rowonly' \subseteq Rowonly
    BY <1>0, <2>2, <2>3, <2>4, <2>7 DEF CostInv
  <2> QED
    BY <1>2, <2>5, <2>6, <2>7, FailureStep
<1> QED
  BY <1>1, <1>2

\* An orphan at a gateway is owed to a failing call, a lost answer or a crash, one at
\* Stripe to two calls if to calls, and a row without its gateway payment to a lost
\* answer, for any number of requests and failures (payment.service.js:162-196).
THEOREM DivergenceIsBounded == Spec => []DivergenceIsPaidFor
<1>1. Init => PlaceInv /\ CostInv
  <2> SUFFICES ASSUME Init PROVE PlaceInv /\ CostInv
    OBVIOUS
  <2>1. Unsaved = {} /\ Orphans = {} /\ Rowonly = {} /\ faults = 0 /\ lost = 0 /\ crashes = 0
    BY DEF Init, Unsaved, Orphans, Rowonly
  <2> QED
    BY <2>1, FS_EmptySet DEF Init, PlaceInv, CostInv
<1>2. TypeOK /\ PlaceInv /\ CostInv /\ [Next]_vars => (PlaceInv /\ CostInv)'
  BY PlaceStep, CostStep
<1>3. TypeOK /\ PlaceInv /\ CostInv => DivergenceIsPaidFor
  <2> SUFFICES ASSUME TypeOK, PlaceInv, CostInv PROVE DivergenceIsPaidFor
    OBVIOUS
  <2> DEFINE orphans == {r \in charged \ payments : pc[r] = "done"}
  <2> DEFINE atStripe == orphans \cap StripeRequests
  <2>1. atStripe \subseteq Orphans /\ orphans \subseteq Unsaved /\ payments \ charged \subseteq Rowonly
    BY DEF Orphans, Unsaved, Rowonly
  <2>2. /\ Cardinality(orphans) \in Nat /\ Cardinality(atStripe) \in Nat
        /\ Cardinality(atStripe) <= Cardinality(Orphans) /\ Cardinality(Orphans) \in Nat
        /\ Cardinality(orphans) <= Cardinality(Unsaved) /\ Cardinality(Unsaved) \in Nat
        /\ Cardinality(payments \ charged) <= Cardinality(Rowonly)
        /\ Cardinality(payments \ charged) \in Nat /\ Cardinality(Rowonly) \in Nat
    BY <2>1, SubsetCounts DEF CostInv
  <2> HIDE DEF orphans
  <2>3. /\ Cardinality(orphans) <= faults + lost + crashes
        /\ Cardinality(orphans) + Cardinality(orphans \cap StripeRequests)
             <= faults + 2 * lost + 2 * crashes
    BY <2>2 DEF CostInv, TypeOK
  <2>4. Cardinality(payments \ charged) <= lost
    BY <2>2 DEF CostInv, TypeOK
  <2> QED
    BY <2>3, <2>4 DEF DivergenceIsPaidFor, orphans
<1> QED
  BY <1>1, <1>2, <1>3, RequestsTypeCorrect, PTL DEF Spec
----------------------------------------------------------------------------
(* The abstract specification.  A request has no answer before it is done, *)
(* and only one whose own client has been told leaves a response to store. *)

AnswerInv ==
  \A r \in Requests :
    /\ pc[r] # "done" => outcome[r] = "none"
    /\ outcome[r] = "none" => shown[r] = NoRequest
    /\ update[r] = "complete" => shown[r] = r

ConfirmedInv == TypeOK /\ PlaceInv /\ AnswerInv

LEMMA ConfirmedInductive == (Init => ConfirmedInv) /\ (ConfirmedInv /\ TypeOK' /\ [Next]_vars => ConfirmedInv')
<1>1. Init => ConfirmedInv
  BY DEF Init, ConfirmedInv, PlaceInv, AnswerInv, TypeOK, KeyStatus, Stage, Outcome, Update
<1>2. ASSUME ConfirmedInv, TypeOK', [Next]_vars
      PROVE  ConfirmedInv'
  <2> SUFFICES AnswerInv'
    BY <1>2, PlaceStep DEF ConfirmedInv
  <2> USE <1>2, RequestsAssumption DEF ConfirmedInv, TypeOK, AnswerInv, Goto, Answer, answerVars
  <2>1. ASSUME NEW r \in Requests, Arrive(r) \/ Step(r) \/ UpdateRecord(r)
        PROVE  AnswerInv'
    <3>1. CASE Arrive(r) \/ Reserve(r) \/ Lookup(r) \/ ResetForRetry(r)
      BY <3>1 DEF Arrive, Reserve, Lookup, ResetForRetry
    <3>2. CASE FindUser(r) \/ CreateCustomer(r) \/ SaveCustomer(r) \/ CallGateway(r)
      BY <3>2 DEF FindUser, CreateCustomer, SaveCustomer, CallGateway
    <3>3. CASE SavePayment(r) \/ CancelPayment(r) \/ Respond(r) \/ Refuse(r) \/ UpdateRecord(r)
      BY <3>3 DEF SavePayment, CancelPayment, Respond, Refuse, UpdateRecord
    <3> QED
      BY <2>1, <3>1, <3>2, <3>3 DEF Step
  <2>2. ASSUME NEW r \in Requests, Fault(r) \/ LoseAnswer(r) \/ LoseUpdate(r) \/ Crash(r)
        PROVE  AnswerInv'
    BY <2>2 DEF Fault, LoseAnswer, LoseUpdate, Crash
  <2>3. ASSUME NEW k \in Keys, Expire(k)
        PROVE  AnswerInv'
    BY <2>3 DEF Expire
  <2>4. CASE UNCHANGED vars
    BY <2>4 DEF vars
  <2> QED
    BY <2>1, <2>2, <2>3, <2>4 DEF Next
<1> QED
  BY <1>1, <1>2

\* The abstract state.
Made == {r \in charged \cap payments : pc[r] # "cancel"}
Answered == {r \in Requests : outcome[r] # "none"}
Memory == [k \in Keys |-> IF keyStatus[k] = "COMPLETED" THEN keyReply[k] ELSE NoRequest]

\* Most steps change nothing of it, or make a payment for a client who waits.
LEMMA QuietStep ==
  ASSUME ConfirmedInv, NEW r \in Requests,
         \/ Arrive(r) \/ FindUser(r) \/ CreateCustomer(r) \/ SaveCustomer(r) \/ CallGateway(r)
         \/ SavePayment(r) \/ CancelPayment(r) \/ LoseAnswer(r) \/ LoseUpdate(r)
         \/ pc[r] # "done" /\ Crash(r)
  PROVE  /\ UNCHANGED <<outcome, shown, keyStatus, keyReply>>
         /\ Made' = Made \/ (r \notin Answered /\ Made' = Made \cup {r})
<1> USE DEF ConfirmedInv, TypeOK, PlaceInv, AnswerInv, Early, Made, Answered, Goto, keyVars, answerVars
<1>1. CASE Arrive(r) \/ FindUser(r) \/ CreateCustomer(r) \/ SaveCustomer(r) \/ LoseUpdate(r)
  BY <1>1 DEF Arrive, FindUser, CreateCustomer, SaveCustomer, LoseUpdate
<1>2. CASE CallGateway(r)
  BY <1>2 DEF CallGateway
<1>3. CASE SavePayment(r)
  BY <1>3 DEF SavePayment
<1>4. CASE CancelPayment(r)
  BY <1>4 DEF CancelPayment
<1>5. CASE LoseAnswer(r)
  BY <1>5 DEF LoseAnswer
<1>6. CASE pc[r] # "done" /\ Crash(r)
  BY <1>6 DEF Crash
<1> QED
  BY <1>1, <1>2, <1>3, <1>4, <1>5, <1>6

LEMMA ConfirmedStep ==
  ASSUME ConfirmedInv, [Next]_vars
  PROVE  [Confirmed!ANext]_(Confirmed!avars)
<1> USE RequestsAssumption DEF ConfirmedInv, TypeOK, Goto, Answer, keyVars, answerVars
<1>a. /\ Made \subseteq Requests /\ Memory \in [Keys -> Requests \cup {NoRequest}]
  BY DEF Made, Memory
<1>u. ASSUME UNCHANGED <<Made, Answered, shown, Memory>>
      PROVE  [Confirmed!ANext]_(Confirmed!avars)
  BY <1>u DEF Confirmed!avars, Made, Answered, Memory
<1>m. ASSUME NEW r \in Requests, r \notin Answered, Made' = Made \cup {r},
             UNCHANGED <<Answered, shown, Memory>>
      PROVE  Confirmed!ANext
  BY <1>m DEF Confirmed!ANext, Confirmed!Make, Made, Answered, Memory
<1>r. ASSUME NEW r \in Requests, r \notin Answered, Answered' = Answered \cup {r},
             UNCHANGED <<Made, shown, Memory>>
      PROVE  Confirmed!ANext
  <2>1. shown' = [shown EXCEPT ![r] = NoRequest]
    BY <1>r DEF AnswerInv, Answered
  <2> QED
    BY <1>r, <2>1 DEF Confirmed!ANext, Confirmed!Reject, Confirmed!AnswerOnce, Made, Answered, Memory
<1>q. ASSUME NEW r \in Requests,
             \/ Arrive(r) \/ FindUser(r) \/ CreateCustomer(r) \/ SaveCustomer(r) \/ CallGateway(r)
             \/ SavePayment(r) \/ CancelPayment(r) \/ LoseAnswer(r) \/ LoseUpdate(r)
             \/ pc[r] # "done" /\ Crash(r)
      PROVE  [Confirmed!ANext]_(Confirmed!avars)
  <2>1. /\ UNCHANGED <<outcome, shown, keyStatus, keyReply>>
        /\ Made' = Made \/ (r \notin Answered /\ Made' = Made \cup {r})
    BY <1>q, QuietStep
  <2>2. UNCHANGED <<Answered, shown, Memory>>
    BY <2>1 DEF Answered, Memory
  <2> QED
    BY <1>u, <1>m, <2>1, <2>2
<1>1. ASSUME NEW r \in Requests, Reserve(r)
      PROVE  [Confirmed!ANext]_(Confirmed!avars)
  <2>1. UNCHANGED <<Made, Answered, shown, Memory>>
    BY <1>1 DEF Reserve, Made, Answered, Memory
  <2> QED
    BY <1>u, <2>1
<1>2. ASSUME NEW r \in Requests, Lookup(r)
      PROVE  [Confirmed!ANext]_(Confirmed!avars)
  <2>1. r \notin Made /\ r \notin Answered /\ shown[r] = NoRequest
    BY <1>2 DEF Lookup, PlaceInv, Early, AnswerInv, Made, Answered
  <2>2. UNCHANGED <<Made, Memory>>
    BY <1>2 DEF Lookup, Made, Memory
  <2>3. CASE outcome' = outcome
    <3>1. UNCHANGED <<Answered, shown>>
      BY <1>2, <2>1, <2>3 DEF Lookup, Answered
    <3> QED
      BY <1>u, <2>2, <3>1
  <2>4. CASE keyStatus[KeyOf[r]] = "COMPLETED" /\ Answer(r, "replayed", keyReply[KeyOf[r]])
    <3>1. Memory[KeyOf[r]] = keyReply[KeyOf[r]] /\ Memory[KeyOf[r]] # NoRequest
      BY <2>4 DEF Memory
    <3>2. Answered' = Answered \cup {r} /\ shown' = [shown EXCEPT ![r] = Memory[KeyOf[r]]]
      BY <2>4, <3>1 DEF Answered
    <3> QED
      BY <2>1, <2>2, <3>1, <3>2
         DEF Confirmed!ANext, Confirmed!Replay, Confirmed!AnswerOnce, Made, Answered, Memory
  <2>5. CASE \E what \in {"reused", "concurrent"} : Answer(r, what, NoRequest)
    <3>1. Answered' = Answered \cup {r} /\ UNCHANGED shown
      BY <2>1, <2>5 DEF Answered
    <3> QED
      BY <1>r, <2>1, <2>2, <3>1
  <2> QED
    BY <1>2, <2>3, <2>4, <2>5 DEF Lookup
<1>3. ASSUME NEW r \in Requests, ResetForRetry(r)
      PROVE  [Confirmed!ANext]_(Confirmed!avars)
  <2>1. UNCHANGED <<Made, Answered, shown>> /\ Memory' = [Memory EXCEPT ![KeyOf[r]] = NoRequest]
    BY <1>3 DEF ResetForRetry, Made, Answered, Memory
  <2> QED
    BY <2>1 DEF Confirmed!ANext, Confirmed!Forget, Made, Answered, Memory
<1>4. ASSUME NEW r \in Requests, Respond(r)
      PROVE  [Confirmed!ANext]_(Confirmed!avars)
  <2>1. r \in Made /\ r \notin Answered
    BY <1>4 DEF Respond, PlaceInv, AnswerInv, Made, Answered
  <2>2. UNCHANGED <<Made, Memory>> /\ Answered' = Answered \cup {r} /\ shown' = [shown EXCEPT ![r] = r]
    BY <1>4 DEF Respond, Made, Answered, Memory
  <2> QED
    BY <2>1, <2>2 DEF Confirmed!ANext, Confirmed!Confirm, Confirmed!AnswerOnce, Made, Answered, Memory
<1>5. ASSUME NEW r \in Requests, Refuse(r)
      PROVE  [Confirmed!ANext]_(Confirmed!avars)
  <2>1. r \notin Answered /\ shown[r] = NoRequest
    BY <1>5 DEF Refuse, AnswerInv, Answered
  <2>2. UNCHANGED <<Made, Memory, shown>> /\ Answered' = Answered \cup {r}
    BY <1>5, <2>1 DEF Refuse, Made, Answered, Memory
  <2> QED
    BY <1>r, <2>1, <2>2
<1>6. ASSUME NEW r \in Requests, UpdateRecord(r)
      PROVE  [Confirmed!ANext]_(Confirmed!avars)
  <2>1. UNCHANGED <<Made, Answered, shown>>
    BY <1>6 DEF UpdateRecord, Made, Answered
  <2>2. CASE update[r] = "complete"
    <3>1. shown[r] = r /\ KeyOf[r] \in Keys
      BY <2>2 DEF AnswerInv
    <3>2. /\ keyStatus' = [keyStatus EXCEPT ![KeyOf[r]] = "COMPLETED"]
          /\ keyReply' = [keyReply EXCEPT ![KeyOf[r]] = r]
      BY <1>6, <2>2 DEF UpdateRecord
    <3>3. Memory' = [Memory EXCEPT ![KeyOf[r]] = r]
      BY <3>1, <3>2 DEF Memory
    <3> QED
      BY <2>1, <3>1, <3>3 DEF Confirmed!ANext, Confirmed!Remember, Made, Answered, Memory
  <2>3. CASE update[r] = "fail"
    <3>1. Memory' = [Memory EXCEPT ![KeyOf[r]] = NoRequest]
      BY <1>6, <2>3 DEF UpdateRecord, Memory
    <3> QED
      BY <2>1, <3>1 DEF Confirmed!ANext, Confirmed!Forget, Made, Answered, Memory
  <2> QED
    BY <1>6, <2>2, <2>3 DEF UpdateRecord
<1>7. ASSUME NEW r \in Requests, Fault(r)
      PROVE  [Confirmed!ANext]_(Confirmed!avars)
  <2>1. UNCHANGED Memory
    BY <1>7 DEF Fault, Memory
  <2>2. CASE pc[r] \in {"reserve", "lookup", "reset"}
    <3>1. r \notin Answered /\ shown[r] = NoRequest
      BY <2>2 DEF AnswerInv, Answered
    <3>2. UNCHANGED <<Made, shown>> /\ Answered' = Answered \cup {r}
      BY <1>7, <2>2, <3>1 DEF Fault, Made, Answered
    <3> QED
      BY <1>r, <2>1, <3>1, <3>2
  <2>3. CASE pc[r] \notin {"reserve", "lookup", "reset"}
    <3>1. UNCHANGED <<Answered, shown>>
      BY <1>7, <2>3 DEF Fault, Answered
    <3>2. Made' = Made \/ (r \notin Answered /\ Made' = Made \cup {r})
      BY <1>7, <2>3 DEF Fault, PlaceInv, Early, AnswerInv, Made, Answered
    <3> QED
      BY <1>u, <1>m, <2>1, <3>1, <3>2
  <2> QED
    BY <2>2, <2>3
<1>8. ASSUME NEW r \in Requests, Crash(r), pc[r] = "done"
      PROVE  [Confirmed!ANext]_(Confirmed!avars)
  <2>1. UNCHANGED <<Made, Answered, shown, Memory>>
    BY <1>8 DEF Crash, Made, Answered, Memory
  <2> QED
    BY <1>u, <2>1
<1>9. ASSUME NEW k \in Keys, Expire(k)
      PROVE  [Confirmed!ANext]_(Confirmed!avars)
  <2>1. UNCHANGED <<Made, Answered, shown, Memory>>
    BY <1>9 DEF Expire, Made, Answered, Memory
  <2> QED
    BY <1>u, <2>1
<1>10. CASE UNCHANGED vars
  <2>1. UNCHANGED <<Made, Answered, shown, Memory>>
    BY <1>10 DEF vars, Made, Answered, Memory
  <2> QED
    BY <1>u, <2>1
<1> QED
  BY <1>q, <1>1, <1>2, <1>3, <1>4, <1>5, <1>6, <1>7, <1>8, <1>9, <1>10 DEF Next, Step

\* Whatever fails, crashes or expires and however many requests share a key: a
\* payment that was made stays made, no answer is followed by a payment or
\* another answer, and a key replays only what its own client has been told
\* (idempotency.middleware.js:124, payment.service.js:162).
THEOREM RequestsImplementConfirmedPayments == Spec => ImplementsConfirmedPayments
<1>1. Init => Confirmed!AInit
  BY DEF Init, Confirmed!AInit
<1>2. ConfirmedInv /\ [Next]_vars => [Confirmed!ANext]_(Confirmed!avars)
  BY ConfirmedStep
<1> QED
  BY <1>1, <1>2, ConfirmedInductive, RequestsTypeCorrect, PTL
     DEF Spec, ImplementsConfirmedPayments, Confirmed!ASpec
=============================================================================
