------------------------- MODULE MCWebhookPipeline -------------------------
(***************************************************************************)
(* Small instances of WebhookPipeline for TLC.                             *)
(***************************************************************************)
EXTENDS WebhookPipeline, TLC

CONSTANTS e1, e2, w1, w2, x1

\* Two successes reported about one payment.
MCAgreeing == [e \in Events |-> "SUCCEEDED"]

\* One payment reported both paid and refused (a card refused first, then a
\* paid retry), in whatever order the two events arrive.
MCOpposed == [e \in Events |-> IF e = e2 THEN "FAILED" ELSE "SUCCEEDED"]

MCPaymentOf == [e \in Events |-> x1]

WorkerSymmetry == Permutations({w1, w2})
=============================================================================
