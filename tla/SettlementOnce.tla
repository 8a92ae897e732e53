--------------------------- MODULE SettlementOnce ---------------------------
(***************************************************************************)
(* What the webhook path promises about money, with no queue, no worker    *)
(* and no status column: an event becomes known, a success among the known *)
(* events is credited at most once, and an event is settled only when its  *)
(* effect is there or there was nothing to apply it to.                    *)
(***************************************************************************)
EXTENDS Naturals

CONSTANTS Events, Successes

VARIABLES known, credits, unmatched, settled
avars == <<known, credits, unmatched, settled>>

AInit ==
  /\ known = {} /\ unmatched = {} /\ settled = {}
  /\ credits = [e \in Events |-> 0]

Learn(e) ==
  /\ known' = known \cup {e}
  /\ UNCHANGED <<credits, unmatched, settled>>

Credit(e) ==
  /\ e \in known \cap Successes /\ credits[e] = 0
  /\ credits' = [credits EXCEPT ![e] = 1]
  /\ UNCHANGED <<known, unmatched, settled>>

Dismiss(e) ==
  /\ e \in known
  /\ unmatched' = unmatched \cup {e}
  /\ UNCHANGED <<known, credits, settled>>

Settle(e) ==
  /\ e \in known
  /\ e \in Successes => credits[e] = 1 \/ e \in unmatched
  /\ settled' = settled \cup {e}
  /\ UNCHANGED <<known, credits, unmatched>>

ANext == \E e \in Events : Learn(e) \/ Credit(e) \/ Dismiss(e) \/ Settle(e)

ASpec == AInit /\ [][ANext]_avars
=============================================================================
