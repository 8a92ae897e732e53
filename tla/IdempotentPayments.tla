------------------------- MODULE IdempotentPayments -------------------------
(***************************************************************************)
(* POST /api/v1/payments: the idempotency middleware around                *)
(* createPayment(), which calls the gateway, commits order and payment in  *)
(* one transaction and cancels at the gateway when that fails.  A request  *)
(* of the legacy endpoint skips the middleware; it does what a request     *)
(* with a key of its own does.                                             *)
(*                                                                         *)
(* All requests are one user's: keys are unique per user, and users share  *)
(* nothing here.  One action is one awaited call together with the         *)
(* synchronous code up to the next.                                        *)
(***************************************************************************)
EXTENDS Integers, FiniteSets

CONSTANTS
  Requests,
  Keys,              \* the user's idempotency keys
  KeyOf, BodyOf,     \* the key of a request, and its body: a record, as is its metadata
  NoRequest, NoHash,
  MayExpire,         \* whether keys outlive their 24 hours
  MaxFaults, MaxLost, MaxCrashes   \* bounds of the model

\* The list of names that JSON.stringify() is given, meant to sort the body, applies at
\* every level: of the metadata only names that the body itself has remain.
computeRequestHash(body) ==
  [n \in DOMAIN body |->
     IF n = "metadata" THEN [m \in DOMAIN body \cap DOMAIN body[n] |-> body[n][m]] ELSE body[n]]

HashOf(r) == computeRequestHash(BodyOf[r])
Hashes == {HashOf(r) : r \in Requests}

\* A body that names no gateway gets Stripe.
StripeRequests ==
  {r \in Requests : "gateway" \in DOMAIN BodyOf[r] => BodyOf[r].gateway = "STRIPE"}

ASSUME RequestsAssumption ==
  /\ KeyOf \in [Requests -> Keys]
  /\ NoRequest \notin Requests /\ NoHash \notin Hashes
  /\ MayExpire \in BOOLEAN
  /\ MaxFaults \in Nat /\ MaxLost \in Nat /\ MaxCrashes \in Nat

VARIABLES
  keyStatus, keyHash, keyReply,  \* IdempotencyKey rows; keyReply: whose response is stored
  expired,                       \* keys past their expiresAt, which is never moved
  pc,                            \* stage of each request
  outcome, shown,                \* the client's answer, and whose response it shows
  update,                        \* record update a request has left running
  customer, mine,                \* the user's stripeCustomerId; the one a request uses
  charged,                       \* requests whose payment lives at the gateway
  payments,                      \* requests whose order and payment rows exist
  faults, lost, crashes          \* how often each has happened

keyVars == <<keyStatus, keyHash, keyReply>>
answerVars == <<outcome, shown>>
customerVars == <<customer, mine>>
bounds == <<faults, lost, crashes>>
vars == <<keyStatus, keyHash, keyReply, expired, pc, outcome, shown, update,
          customer, mine, charged, payments, faults, lost, crashes>>

KeyStatus == {"NONE", "PROCESSING", "COMPLETED", "FAILED"}
Stage == {"new", "reserve", "lookup", "reset", "findUser", "createCustomer", "saveCustomer",
          "gateway", "save", "cancel", "respond", "refuse", "done"}
Outcome == {"none", "error", "concurrent", "reused", "created", "replayed"}
Update == {"none", "complete", "fail"}

Init ==
  /\ keyStatus = [k \in Keys |-> "NONE"]
  /\ keyHash = [k \in Keys |-> NoHash]
  /\ keyReply = [k \in Keys |-> NoRequest]
  /\ expired = {}
  /\ pc = [r \in Requests |-> "new"]
  /\ outcome = [r \in Requests |-> "none"]
  /\ shown = [r \in Requests |-> NoRequest]
  /\ update = [r \in Requests |-> "none"]
  /\ customer = NoRequest
  /\ mine = [r \in Requests |-> NoRequest]
  /\ charged = {} /\ payments = {}
  /\ faults = 0 /\ lost = 0 /\ crashes = 0

Goto(r, stage) == pc' = [pc EXCEPT ![r] = stage]

\* The client of r gets an answer; q is the request whose response it shows.
Answer(r, what, q) ==
  /\ Goto(r, "done")
  /\ outcome' = [outcome EXCEPT ![r] = what]
  /\ shown' = [shown EXCEPT ![r] = q]

----------------------------------------------------------------------------
(* idempotencyMiddleware.                                                  *)

Arrive(r) ==
  /\ pc[r] = "new"
  /\ Goto(r, "reserve")
  /\ UNCHANGED <<keyVars, expired, answerVars, update, customerVars, charged, payments, bounds>>

\* Faulty variant: an existing row does not stop the insertion.
ReserveAlways(r) ==
  LET k == KeyOf[r] IN
  /\ pc[r] = "reserve"
  /\ keyStatus' = [keyStatus EXCEPT ![k] = "PROCESSING"]
  /\ keyHash' = [keyHash EXCEPT ![k] = HashOf(r)]
  /\ Goto(r, "findUser")
  /\ UNCHANGED <<keyReply, expired, answerVars, update, customerVars, charged, payments, bounds>>

\* reserve(): the insertion, which (userId, key) makes atomic.
Reserve(r) ==
  LET k == KeyOf[r] IN
  /\ pc[r] = "reserve"
  /\ IF keyStatus[k] = "NONE"
       THEN /\ keyStatus' = [keyStatus EXCEPT ![k] = "PROCESSING"]
            /\ keyHash' = [keyHash EXCEPT ![k] = HashOf(r)]
            /\ Goto(r, "findUser")
       ELSE Goto(r, "lookup") /\ UNCHANGED <<keyStatus, keyHash>>
  /\ UNCHANGED <<keyReply, expired, answerVars, update, customerVars, charged, payments, bounds>>

\* Faulty variant: the stored response is replayed whatever the body says.
LookupIgnoringBody(r) ==
  LET k == KeyOf[r]
      Reply == \/ keyStatus[k] = "COMPLETED" /\ Answer(r, "replayed", keyReply[k])
               \/ keyStatus[k] = "PROCESSING" /\ Answer(r, "concurrent", NoRequest)
  IN
  /\ pc[r] = "lookup"
  /\ IF k \in expired \/ keyStatus[k] = "FAILED"
       THEN Goto(r, "reset") /\ UNCHANGED answerVars
       ELSE Reply
  /\ UNCHANGED <<keyVars, expired, update, customerVars, charged, payments, bounds>>

\* The existing row is read and judged; an expired or failed key is reset next,
\* in a call of its own that does not look at the row again.
Lookup(r) ==
  LET k == KeyOf[r]
      Reply == \/ /\ keyStatus[k] = "COMPLETED" /\ keyHash[k] = HashOf(r)
                  /\ Answer(r, "replayed", keyReply[k])
               \/ /\ keyStatus[k] = "COMPLETED" /\ keyHash[k] # HashOf(r)
                  /\ Answer(r, "reused", NoRequest)
               \/ keyStatus[k] = "PROCESSING" /\ Answer(r, "concurrent", NoRequest)
  IN
  /\ pc[r] = "lookup"
  /\ IF k \in expired \/ keyStatus[k] = "FAILED"
       THEN Goto(r, "reset") /\ UNCHANGED answerVars
       ELSE Reply
  /\ UNCHANGED <<keyVars, expired, update, customerVars, charged, payments, bounds>>

ResetForRetry(r) ==
  LET k == KeyOf[r] IN
  /\ pc[r] = "reset"
  /\ keyStatus' = [keyStatus EXCEPT ![k] = "PROCESSING"]
  /\ keyHash' = [keyHash EXCEPT ![k] = HashOf(r)]
  /\ keyReply' = [keyReply EXCEPT ![k] = NoRequest]
  /\ Goto(r, "findUser")
  /\ UNCHANGED <<expired, answerVars, update, customerVars, charged, payments, bounds>>

\* The 24 hours of a key run out, in whatever state its row is.
Expire(k) ==
  /\ MayExpire /\ keyStatus[k] # "NONE" /\ k \notin expired
  /\ expired' = expired \cup {k}
  /\ UNCHANGED <<keyVars, pc, answerVars, update, customerVars, charged, payments, bounds>>

----------------------------------------------------------------------------
(* createPayment().                                                        *)

\* Only Stripe needs a customer, and only a user who has none yet.
FindUser(r) ==
  /\ pc[r] = "findUser"
  /\ mine' = [mine EXCEPT ![r] = customer]
  /\ Goto(r, IF r \in StripeRequests /\ customer = NoRequest THEN "createCustomer" ELSE "gateway")
  /\ UNCHANGED <<keyVars, expired, answerVars, update, customer, charged, payments, bounds>>

CreateCustomer(r) ==
  /\ pc[r] = "createCustomer"
  /\ mine' = [mine EXCEPT ![r] = r]
  /\ Goto(r, "saveCustomer")
  /\ UNCHANGED <<keyVars, expired, answerVars, update, customer, charged, payments, bounds>>

SaveCustomer(r) ==
  /\ pc[r] = "saveCustomer"
  /\ customer' = r
  /\ Goto(r, "gateway")
  /\ UNCHANGED <<keyVars, expired, answerVars, update, mine, charged, payments, bounds>>

CallGateway(r) ==
  /\ pc[r] = "gateway"
  /\ charged' = charged \cup {r}
  /\ Goto(r, "save")
  /\ UNCHANGED <<keyVars, expired, answerVars, update, customerVars, payments, bounds>>

SavePayment(r) ==
  /\ pc[r] = "save"
  /\ payments' = payments \cup {r}
  /\ Goto(r, "respond")
  /\ UNCHANGED <<keyVars, expired, answerVars, update, customerVars, charged, bounds>>

\* Faulty variant: no compensation.
CancelNothing(r) ==
  /\ pc[r] = "cancel"
  /\ Goto(r, "refuse")
  /\ UNCHANGED <<keyVars, expired, answerVars, update, customerVars, charged, payments, bounds>>

\* Both adapters report a cancellation that did not happen in a result nobody reads.
\* Cashfree's always is one: it is asked to terminate the payment session's id, or its
\* own order's, where it knows an order by the number the request made up.
CancelPayment(r) ==
  /\ pc[r] = "cancel"
  /\ charged' = charged \ ({r} \cap StripeRequests)
  /\ Goto(r, "refuse")
  /\ UNCHANGED <<keyVars, expired, answerVars, update, customerVars, payments, bounds>>

----------------------------------------------------------------------------
(* The wrapped res.json: the answer is sent, and the record update is left *)
(* to run on its own.                                                      *)

Respond(r) ==
  /\ pc[r] = "respond"
  /\ Answer(r, "created", r)
  /\ update' = [update EXCEPT ![r] = "complete"]
  /\ UNCHANGED <<keyVars, expired, customerVars, charged, payments, bounds>>

\* Faulty variant: an error leaves the record as it is.
RefuseQuietly(r) ==
  /\ pc[r] = "refuse"
  /\ Answer(r, "error", NoRequest)
  /\ UNCHANGED <<keyVars, expired, update, customerVars, charged, payments, bounds>>

\* Faulty variant: every response is stored as the final one.
RefuseForGood(r) ==
  /\ pc[r] = "refuse"
  /\ Answer(r, "error", NoRequest)
  /\ update' = [update EXCEPT ![r] = "complete"]
  /\ UNCHANGED <<keyVars, expired, customerVars, charged, payments, bounds>>

Refuse(r) ==
  /\ pc[r] = "refuse"
  /\ Answer(r, "error", NoRequest)
  /\ update' = [update EXCEPT ![r] = "fail"]
  /\ UNCHANGED <<keyVars, expired, customerVars, charged, payments, bounds>>

\* Faulty variant: complete() does not store the response.
UpdateStatus(r) ==
  /\ update[r] # "none"
  /\ keyStatus' = [keyStatus EXCEPT ![KeyOf[r]] = IF update[r] = "complete" THEN "COMPLETED" ELSE "FAILED"]
  /\ update' = [update EXCEPT ![r] = "none"]
  /\ UNCHANGED <<keyHash, keyReply, expired, pc, answerVars, customerVars, charged, payments, bounds>>

\* complete() and fail() update by id, whatever the row says by now.
UpdateRecord(r) ==
  LET k == KeyOf[r] IN
  /\ \/ /\ update[r] = "complete"
        /\ keyStatus' = [keyStatus EXCEPT ![k] = "COMPLETED"]
        /\ keyReply' = [keyReply EXCEPT ![k] = r]
     \/ /\ update[r] = "fail"
        /\ keyStatus' = [keyStatus EXCEPT ![k] = "FAILED"]
        /\ UNCHANGED keyReply
  /\ update' = [update EXCEPT ![r] = "none"]
  /\ UNCHANGED <<keyHash, expired, pc, answerVars, customerVars, charged, payments, bounds>>

----------------------------------------------------------------------------
(* What goes wrong.                                                        *)

\* A call fails without effect (an invalid body or a missing user count as
\* one).  The middleware's own failures come before res.json is wrapped, and a
\* failure to prepare the customer is only logged.
Fault(r) ==
  /\ faults < MaxFaults
  /\ faults' = faults + 1
  /\ \/ /\ pc[r] \in {"reserve", "lookup", "reset"}
        /\ Answer(r, "error", NoRequest)
     \/ /\ pc[r] \in {"findUser", "gateway", "cancel"}
        /\ Goto(r, "refuse") /\ UNCHANGED answerVars
     \/ /\ pc[r] \in {"createCustomer", "saveCustomer"}
        /\ Goto(r, "gateway") /\ UNCHANGED answerVars
     \/ /\ pc[r] = "save"
        /\ Goto(r, "cancel") /\ UNCHANGED answerVars
  /\ UNCHANGED <<keyVars, expired, update, customerVars, charged, payments, lost, crashes>>

\* A call takes effect and its answer is lost, so that it counts as failed.
LoseAnswer(r) ==
  /\ lost < MaxLost
  /\ lost' = lost + 1
  /\ \/ pc[r] = "gateway" /\ charged' = charged \cup {r} /\ Goto(r, "refuse") /\ UNCHANGED payments
     \/ pc[r] = "save" /\ payments' = payments \cup {r} /\ Goto(r, "cancel") /\ UNCHANGED charged
  /\ UNCHANGED <<keyVars, expired, answerVars, update, customerVars, faults, crashes>>

\* A failing record update is only logged.
LoseUpdate(r) ==
  /\ update[r] # "none" /\ lost < MaxLost
  /\ lost' = lost + 1
  /\ update' = [update EXCEPT ![r] = "none"]
  /\ UNCHANGED <<keyVars, expired, pc, answerVars, customerVars, charged, payments, faults, crashes>>

\* The process that serves r dies, with the update r may have left running.
Crash(r) ==
  /\ pc[r] \notin {"new", "done"} \/ update[r] # "none"
  /\ crashes < MaxCrashes
  /\ crashes' = crashes + 1
  /\ Goto(r, "done")
  /\ update' = [update EXCEPT ![r] = "none"]
  /\ UNCHANGED <<keyVars, expired, answerVars, customerVars, charged, payments, faults, lost>>

----------------------------------------------------------------------------
Step(r) ==
  \/ Reserve(r) \/ Lookup(r) \/ ResetForRetry(r)
  \/ FindUser(r) \/ CreateCustomer(r) \/ SaveCustomer(r)
  \/ CallGateway(r) \/ SavePayment(r) \/ CancelPayment(r)
  \/ Respond(r) \/ Refuse(r)

Next ==
  \/ \E r \in Requests : Arrive(r) \/ Step(r) \/ UpdateRecord(r)
  \/ \E r \in Requests : Fault(r) \/ LoseAnswer(r) \/ LoseUpdate(r) \/ Crash(r)
  \/ \E k \in Keys : Expire(k)

Spec == Init /\ [][Next]_vars

(* Node runs a request it has started, and a promise it has left behind,   *)
(* to the end; clients need not send, and keys need not expire.            *)
Fairness == \A r \in Requests : WF_vars(Step(r)) /\ WF_vars(UpdateRecord(r))

FairSpec == Spec /\ Fairness

----------------------------------------------------------------------------
TypeOK ==
  /\ keyStatus \in [Keys -> KeyStatus]
  /\ keyHash \in [Keys -> Hashes \cup {NoHash}]
  /\ keyReply \in [Keys -> Requests \cup {NoRequest}]
  /\ \A k \in Keys : keyStatus[k] = "COMPLETED" => keyReply[k] \in Requests
  /\ expired \subseteq Keys
  /\ pc \in [Requests -> Stage]
  /\ outcome \in [Requests -> Outcome]
  /\ shown \in [Requests -> Requests \cup {NoRequest}]
  /\ update \in [Requests -> Update]
  /\ customer \in Requests \cup {NoRequest}
  /\ mine \in [Requests -> Requests \cup {NoRequest}]
  /\ charged \subseteq Requests /\ payments \subseteq Requests
  /\ faults \in Nat /\ lost \in Nat /\ crashes \in Nat

WithKey(k) == {r \in Requests : KeyOf[r] = k}

\* No call of any request has failed and k is within its 24 hours.
Calm(k) == faults = 0 /\ lost = 0 /\ k \notin expired

\* Any number of simultaneous requests with one key reach the gateway once and
\* the database once, even if processes die, as long as no call fails and the
\* key is within its time (the atomic reservation of reserve()).
OncePerKey ==
  \A k \in Keys : Calm(k) =>
    \A q, r \in WithKey(k) \cap (charged \cup payments) : q = r

\* Under the same conditions a replayed response answers a body with the same fields,
\* apart from what its metadata says, which the fingerprint forgets.
ReplayMatchesFields ==
  \A r \in Requests :
    outcome[r] = "replayed" /\ Calm(KeyOf[r]) =>
      \A n \in (DOMAIN BodyOf[r] \cup DOMAIN BodyOf[shown[r]]) \ {"metadata"} :
        /\ n \in DOMAIN BodyOf[r] \cap DOMAIN BodyOf[shown[r]]
        /\ BodyOf[shown[r]][n] = BodyOf[r][n]

\* A client that is told of a payment, first hand or by a replay, and a key that
\* is COMPLETED have that payment, in the database and at the gateway, whatever
\* has failed and whoever overwrote the record.
ConfirmedPaymentExists ==
  /\ \A r \in Requests :
       outcome[r] \in {"created", "replayed"} => shown[r] \in charged \cap payments
  /\ \A k \in Keys : keyStatus[k] = "COMPLETED" => keyReply[k] \in charged \cap payments

\* Gateway and database part only as often as the compensation allows: every orphan at
\* a gateway takes a failing call, a lost answer or a crash of its own, one at Stripe
\* two failing calls if it is to be calls, and a row without its gateway payment takes a
\* lost answer.  At Cashfree one failing transaction is enough, although the service
\* "invokes cancelPayment to void or terminate" it (docs/payment-flow.md:85).
DivergenceIsPaidFor ==
  LET orphans == {r \in charged \ payments : pc[r] = "done"} IN
  /\ Cardinality(orphans) <= faults + lost + crashes
  /\ Cardinality(orphans) + Cardinality(orphans \cap StripeRequests)
       <= faults + 2 * lost + 2 * crashes
  /\ Cardinality(payments \ charged) <= lost

\* A key does not stay PROCESSING, and so refuse its client for a day, unless a
\* process died or a record update was lost.
KeySettles ==
  \A k \in Keys :
    keyStatus[k] = "PROCESSING" ~> keyStatus[k] # "PROCESSING" \/ crashes + lost > 0

\* What the middleware and createPayment() promise, as an abstract specification.
\* A payment that is about to be cancelled does not count as made.
Confirmed == INSTANCE ConfirmedPayments WITH
  made     <- {r \in charged \cap payments : pc[r] # "cancel"},
  answered <- {r \in Requests : outcome[r] # "none"},
  told     <- shown,
  memory   <- [k \in Keys |-> IF keyStatus[k] = "COMPLETED" THEN keyReply[k] ELSE NoRequest]

\* They implement it whatever fails, crashes or expires: no confirmed payment is
\* cancelled, no answer is followed by a payment or by another answer, and a key
\* replays only what its own client has been told (idempotency.middleware.js:124,
\* payment.service.js:162).
ImplementsConfirmedPayments == Confirmed!ASpec

\* "under any level of concurrency (including 100 simultaneous requests), only 1
\* payment transaction is created" (docs/idempotency.md:78).
OnePaymentPerKey ==
  \A k \in Keys : \A q, r \in WithKey(k) \cap payments : q = r
=============================================================================
