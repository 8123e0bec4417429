--------------------------- MODULE WebhookDelivery ---------------------------
(***************************************************************************)
(* WebhookOutbox implements EventDelivery: an event is in the state its    *)
(* row says.                                                               *)
(***************************************************************************)
EXTENDS WebhookOutbox

Delivery == INSTANCE EventDelivery
  WITH Patience <- MaxRetries, state <- [e \in Events |-> outbox[e].status],
       received <- accepted, unanswered <- refused

(* Batches that nothing marks while they travel, rows written one by one   *)
(* after the post, and a worker that breaks off anywhere in between close  *)
(* each event once, for its reason, and never post a closed one again.     *)
EventsDelivered == Delivery!Spec
=============================================================================
