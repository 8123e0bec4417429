---------------------------- MODULE WebhookOutbox ----------------------------
(***************************************************************************)
(* The outbox of webhook events (internal/app/webhook) and the worker that *)
(* empties it.  A batch is posted as one body; nothing marks its rows      *)
(* while it travels, and each row is written on its own afterwards.        *)
(***************************************************************************)
EXTENDS Naturals, FiniteSets

CONSTANTS
  Events,           \* webhook_events.id, in the order of the inserts
  Addresses,        \* number of endpoints configured
  DispatchSize,     \* cfg.BatchSize
  MaxRetries,       \* cfg.MaxRetries
  MaxOutboxFaults   \* bound: writes that fail and restarts of the panel

ASSUME OutboxAssumption ==
  /\ Events \subseteq Nat /\ IsFiniteSet(Events)
  /\ {DispatchSize, MaxRetries, Addresses} \subseteq Nat \ {0} /\ MaxOutboxFaults \in Nat

VARIABLES
  outbox,       \* the rows: status, attempts, and whether send_at has passed
  batch,        \* the events of the running dispatch, with the attempts read from them
  dispatch,     \* what the worker does: rest, post, mark or reschedule
  address,      \* the endpoint a batch is posted to
  accepted,     \* ghost: events an endpoint has received
  refused,      \* ghost: posts of an event that no endpoint answered with 2xx, up to MaxRetries
  outboxFaults

worker == <<batch, dispatch, address>>
outboxVars == <<outbox, batch, dispatch, address, accepted, refused, outboxFaults>>

NoRow == [status |-> "none", attempts |-> 0, due |-> FALSE]
NoBatch == [e \in {} |-> 0]

OutboxInit ==
  /\ outbox = [e \in Events |-> NoRow]
  /\ batch = NoBatch /\ dispatch = "rest" /\ address = 1
  /\ accepted = {} /\ refused = [e \in Events |-> 0] /\ outboxFaults = 0

OutboxFault == outboxFaults < MaxOutboxFaults /\ outboxFaults' = outboxFaults + 1
Rests == batch' = NoBatch /\ dispatch' = "rest" /\ address' = 1

(* Enqueue, after the change it tells of; when it fails there is no event. *)
Enqueue(e) ==
  /\ outbox[e] = NoRow /\ \A d \in Events : d < e => outbox[d] # NoRow
  /\ outbox' = [outbox EXCEPT ![e] = [status |-> "pending", attempts |-> 0, due |-> TRUE]]
  /\ UNCHANGED <<worker, accepted, refused, outboxFaults>>

(* RetryInterval passes for a row that was rescheduled.                     *)
ComesDue(e) ==
  /\ outbox[e].status = "pending" /\ ~outbox[e].due
  /\ outbox' = [outbox EXCEPT ![e].due = TRUE]
  /\ UNCHANGED <<worker, accepted, refused, outboxFaults>>

(* ClaimDue: the oldest due rows; it writes nothing.                        *)
Due == {e \in Events : outbox[e].status = "pending" /\ outbox[e].due}
Claimed == {e \in Due : Cardinality({d \in Due : d < e}) < DispatchSize}
ClaimDue ==
  /\ dispatch = "rest" /\ Due # {}
  /\ batch' = [e \in Claimed |-> outbox[e].attempts]
  /\ dispatch' = "post" /\ address' = 1
  /\ UNCHANGED <<outbox, accepted, refused, outboxFaults>>

(* post: the endpoints in turn until one answers with 2xx.  One that does   *)
(* not may still have received the body.                                    *)
PostOne(answered) ==
  /\ dispatch = "post"
  /\ \/ answered /\ accepted' = accepted \cup DOMAIN batch
     \/ ~answered /\ accepted' \in {accepted, accepted \cup DOMAIN batch}
  /\ dispatch' = IF answered THEN "mark" ELSE IF address < Addresses THEN "post" ELSE "reschedule"
  /\ address' = IF dispatch' = "post" THEN address + 1 ELSE 1
  /\ refused' = [e \in Events |->
       IF dispatch' = "reschedule" /\ e \in DOMAIN batch /\ refused[e] < MaxRetries THEN refused[e] + 1 ELSE refused[e]]
  /\ UNCHANGED <<outbox, batch, outboxFaults>>

(* MarkSent and Reschedule, row by row in the order of the batch.           *)
First(e) == e \in DOMAIN batch /\ \A d \in DOMAIN batch : e <= d
Sent(e) == [outbox[e] EXCEPT !.status = "sent"]
RescheduledEarly(e) ==
  IF batch[e] + 2 >= MaxRetries
  THEN [outbox[e] EXCEPT !.status = "failed", !.attempts = batch[e] + 1]
  ELSE [outbox[e] EXCEPT !.attempts = batch[e] + 1, !.due = FALSE]
RescheduledUncounted(e) ==
  IF batch[e] + 1 >= MaxRetries THEN [outbox[e] EXCEPT !.status = "failed"] ELSE [outbox[e] EXCEPT !.due = FALSE]
Rescheduled(e) ==
  IF batch[e] + 1 >= MaxRetries
  THEN [outbox[e] EXCEPT !.status = "failed", !.attempts = batch[e] + 1]
  ELSE [outbox[e] EXCEPT !.attempts = batch[e] + 1, !.due = FALSE]
WriteRow(e) ==
  /\ dispatch \in {"mark", "reschedule"} /\ First(e)
  /\ outbox' = [outbox EXCEPT ![e] = IF dispatch = "mark" THEN Sent(e) ELSE Rescheduled(e)]
  /\ IF DOMAIN batch = {e} THEN Rests
     ELSE batch' = [d \in DOMAIN batch \ {e} |-> batch[d]] /\ UNCHANGED <<dispatch, address>>
  /\ UNCHANGED <<accepted, refused, outboxFaults>>

(* A write that fails ends the dispatch, and so does the end of the panel.  *)
DispatchBreaks ==
  dispatch # "rest" /\ OutboxFault /\ Rests /\ UNCHANGED <<outbox, accepted, refused>>

OutboxNext ==
  \/ \E e \in Events : Enqueue(e) \/ ComesDue(e) \/ WriteRow(e)
  \/ ClaimDue \/ DispatchBreaks
  \/ \E answered \in BOOLEAN : PostOne(answered)

(* The worker's ticker, the clients' timeout and the clock.                 *)
OutboxFairness ==
  /\ WF_outboxVars(ClaimDue) /\ WF_outboxVars(\E answered \in BOOLEAN : PostOne(answered))
  /\ \A e \in Events : WF_outboxVars(WriteRow(e)) /\ WF_outboxVars(ComesDue(e))

OutboxSpec == OutboxInit /\ [][OutboxNext]_outboxVars /\ OutboxFairness

-----------------------------------------------------------------------------
OutboxTypeOK ==
  /\ outbox \in [Events -> [status : {"none", "pending", "sent", "failed"}, attempts : Nat, due : BOOLEAN]]
  /\ DOMAIN batch \subseteq Events /\ \A e \in DOMAIN batch : batch[e] \in Nat
  /\ dispatch \in {"rest", "post", "mark", "reschedule"} /\ address \in 1..Addresses
  /\ accepted \subseteq Events /\ refused \in [Events -> Nat] /\ outboxFaults \in Nat

(* Whatever fails between a post and the writes after it, a row is closed   *)
(* as sent only when an endpoint has its event, and as failed only after    *)
(* MaxRetries posts that nobody answered.                                   *)
ClosedWithCause ==
  \A e \in Events :
    /\ outbox[e].status = "sent" => e \in accepted
    /\ outbox[e].status = "failed" => refused[e] >= MaxRetries

(* Every queued event is closed, though batches are retried as a whole and  *)
(* the oldest rows go first: a refusing endpoint stops none of them.        *)
AwaitsDelivery(e) == outbox[e].status = "pending"
EventCloses == \A e \in Events : []<>~AwaitsDelivery(e)
=============================================================================
