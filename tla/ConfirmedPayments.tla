-------------------------- MODULE ConfirmedPayments --------------------------
(***************************************************************************)
(* What creating payments under keys promises, with no stages, no record   *)
(* status and no failures: a payment that is made stays made, a client is  *)
(* answered once and no payment is made for it afterwards, and an answer   *)
(* that shows a payment shows the request's own or the one its key         *)
(* remembers, whose own client has been told of it.                        *)
(***************************************************************************)
CONSTANTS Requests, Keys, KeyOf, NoRequest

VARIABLES
  made,             \* requests with a payment in the database and at the gateway
  answered, told,   \* requests with an answer, and whose payment it shows
  memory            \* whose response a key replays
avars == <<made, answered, told, memory>>

AInit ==
  /\ made = {} /\ answered = {}
  /\ told = [r \in Requests |-> NoRequest]
  /\ memory = [k \in Keys |-> NoRequest]

Make(r) ==
  /\ r \notin answered
  /\ made' = made \cup {r}
  /\ UNCHANGED <<answered, told, memory>>

AnswerOnce(r, q) ==
  /\ r \notin answered
  /\ answered' = answered \cup {r}
  /\ told' = [told EXCEPT ![r] = q]
  /\ UNCHANGED <<made, memory>>

Confirm(r) == r \in made /\ AnswerOnce(r, r)

Reject(r) == AnswerOnce(r, NoRequest)

Replay(r) ==
  /\ r \notin made /\ memory[KeyOf[r]] # NoRequest
  /\ AnswerOnce(r, memory[KeyOf[r]])

Remember(r) ==
  /\ told[r] = r
  /\ memory' = [memory EXCEPT ![KeyOf[r]] = r]
  /\ UNCHANGED <<made, answered, told>>

Forget(k) ==
  /\ memory' = [memory EXCEPT ![k] = NoRequest]
  /\ UNCHANGED <<made, answered, told>>

ANext ==
  \/ \E r \in Requests : Make(r) \/ Confirm(r) \/ Reject(r) \/ Replay(r) \/ Remember(r)
  \/ \E k \in Keys : Forget(k)

ASpec == AInit /\ [][ANext]_avars
=============================================================================
