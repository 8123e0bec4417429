-------------------------- MODULE DurableWorkProofs --------------------------
(***************************************************************************)
(* Proofs about the work that outlives its request: WebhookOutbox, for any *)
(* number of events, endpoints, retries and failures, HostCommands, for    *)
(* any number of commands and failures, and MaintenanceStatus, for any     *)
(* number of operations, watchers and lines of output.                     *)
(***************************************************************************)
EXTENDS WebhookDelivery, HostCommands, MaintenanceStatus, TLAPS

-----------------------------------------------------------------------------
(* The outbox of webhooks                                                  *)

(* n posts of e were refused, as far as the count goes. *)
Refused(e, n) == refused[e] >= n \/ refused[e] >= MaxRetries

(* What the worker holds is justified by what has happened to it: attempts  *)
(* never run ahead of refusals, and a batch is marked only once accepted.   *)
BatchJustified ==
  /\ \A e \in Events : outbox[e].status = "pending" => Refused(e, outbox[e].attempts)
  /\ \A e \in DOMAIN batch : Refused(e, batch[e])
  /\ dispatch = "reschedule" => \A e \in DOMAIN batch : Refused(e, batch[e] + 1)
  /\ dispatch = "mark" => DOMAIN batch \subseteq accepted
OutboxInv == OutboxTypeOK /\ BatchJustified /\ ClosedWithCause

LEMMA OutboxInitially == OutboxInit => OutboxInv
BY OutboxAssumption DEF OutboxInit, OutboxInv, OutboxTypeOK, BatchJustified, ClosedWithCause, Refused, NoRow, NoBatch

LEMMA OutboxKept == OutboxInv /\ [OutboxNext]_outboxVars => OutboxInv'
<1> SUFFICES ASSUME OutboxInv, [OutboxNext]_outboxVars PROVE OutboxInv'
  OBVIOUS
<1> USE OutboxAssumption DEF OutboxInv, OutboxTypeOK, BatchJustified, ClosedWithCause, Refused, worker
<1>1. ASSUME NEW e \in Events, Enqueue(e) PROVE OutboxInv'
  BY <1>1 DEF Enqueue, NoRow
<1>2. ASSUME NEW e \in Events, ComesDue(e) PROVE OutboxInv'
  BY <1>2 DEF ComesDue
<1>3. ASSUME ClaimDue PROVE OutboxInv'
  BY <1>3 DEF ClaimDue, Claimed, Due
<1>4. ASSUME NEW answered \in BOOLEAN, PostOne(answered) PROVE OutboxInv'
  <2> USE <1>4 DEF PostOne
  <2>1. accepted \subseteq accepted' /\ accepted' \subseteq Events
    OBVIOUS
  <2>2. refused' \in [Events -> Nat] /\ \A e \in Events : refused'[e] >= refused[e]
    OBVIOUS
  <2>3. dispatch' \in {"mark", "post", "reschedule"} /\ address' \in 1..Addresses
    OBVIOUS
  <2>4. OutboxTypeOK'
    BY <2>1, <2>2, <2>3
  <2>5. ClosedWithCause'
    BY <2>1, <2>2
  <2>6. \A e \in Events : outbox'[e].status = "pending" => Refused(e, outbox[e].attempts)'
    BY <2>2
  <2>7. \A e \in DOMAIN batch : Refused(e, batch[e])'
    <3> SUFFICES ASSUME NEW e \in DOMAIN batch PROVE Refused(e, batch[e])'
      OBVIOUS
    <3>1. e \in Events /\ batch[e] \in Nat /\ Refused(e, batch[e]) /\ batch' = batch
      OBVIOUS
    <3>2. refused[e] \in Nat /\ refused'[e] \in Nat /\ refused'[e] >= refused[e] /\ MaxRetries \in Nat
      BY <2>2, <3>1
    <3> HIDE <1>4 DEF PostOne, OutboxInv, OutboxTypeOK, BatchJustified, ClosedWithCause
    <3> QED
      BY <3>1, <3>2
  <2>8. dispatch' = "reschedule" => \A e \in DOMAIN batch : Refused(e, batch[e] + 1)'
    <3> SUFFICES ASSUME dispatch' = "reschedule", NEW e \in DOMAIN batch PROVE Refused(e, batch[e] + 1)'
      OBVIOUS
    <3>1. e \in Events /\ batch[e] \in Nat /\ refused[e] \in Nat
      OBVIOUS
    <3>2. refused'[e] = IF refused[e] < MaxRetries THEN refused[e] + 1 ELSE refused[e]
      OBVIOUS
    <3> QED
      BY <3>1, <3>2
  <2>9. dispatch' = "mark" => DOMAIN batch \subseteq accepted'
    OBVIOUS
  <2> QED
    BY <2>4, <2>5, <2>6, <2>7, <2>8, <2>9
<1>5. ASSUME NEW e \in Events, WriteRow(e) PROVE OutboxInv'
  <2> USE <1>5 DEF WriteRow, First
  <2>1. e \in DOMAIN batch /\ batch[e] \in Nat
    OBVIOUS
  <2>2. DOMAIN batch' = DOMAIN batch \ {e} /\ \A d \in DOMAIN batch' : batch'[d] = batch[d]
    BY DEF Rests, NoBatch
  <2>3. dispatch' \in {"rest", dispatch} /\ address' \in 1..Addresses
    BY DEF Rests
  <2>4. UNCHANGED <<accepted, refused, outboxFaults>>
    OBVIOUS
  <2>5. \A d \in Events \ {e} : outbox'[d] = outbox[d]
    OBVIOUS
  <2>6. CASE dispatch = "mark"
    <3>1. outbox' = [outbox EXCEPT ![e] = Sent(e)] /\ e \in accepted
      BY <2>1, <2>6
    <3> QED
      BY <2>2, <2>3, <2>4, <2>6, <3>1 DEF Sent
  <2>7. CASE dispatch = "reschedule"
    <3>1. outbox' = [outbox EXCEPT ![e] = Rescheduled(e)] /\ Refused(e, batch[e] + 1)
      BY <2>1, <2>7
    <3>2. /\ Rescheduled(e).attempts = batch[e] + 1 /\ Rescheduled(e).due \in BOOLEAN
          /\ Rescheduled(e).status \in {outbox[e].status, "failed"}
          /\ Rescheduled(e).status = outbox[e].status \/ batch[e] + 1 >= MaxRetries
      BY <2>1 DEF Rescheduled
    <3>3. Rescheduled(e) \in [status : {"none", "pending", "sent", "failed"}, attempts : Nat, due : BOOLEAN]
      <4>1. outbox[e] \in [status : {"none", "pending", "sent", "failed"}, attempts : Nat, due : BOOLEAN]
        OBVIOUS
      <4>2. batch[e] + 1 \in Nat
        BY <2>1
      <4> HIDE <1>5 DEF WriteRow, OutboxInv, OutboxTypeOK, BatchJustified, ClosedWithCause
      <4> QED
        BY <4>1, <4>2 DEF Rescheduled
    <3>4. OutboxTypeOK'
      BY <2>2, <2>3, <2>4, <3>1, <3>3
    <3>5. ClosedWithCause'
      BY <2>1, <2>4, <2>5, <3>1, <3>2
    <3>6. BatchJustified'
      BY <2>1, <2>2, <2>3, <2>4, <2>5, <2>7, <3>1, <3>2
    <3> QED
      BY <3>4, <3>5, <3>6
  <2> QED
    BY <2>6, <2>7
<1>6. ASSUME DispatchBreaks PROVE OutboxInv'
  BY <1>6 DEF DispatchBreaks, OutboxFault, Rests, NoBatch
<1>7. ASSUME UNCHANGED outboxVars PROVE OutboxInv'
  BY <1>7 DEF outboxVars
<1> QED
  BY <1>1, <1>2, <1>3, <1>4, <1>5, <1>6, <1>7 DEF OutboxNext

(* The rows, the batch and the counts keep their types. *)
THEOREM OutboxTyped == OutboxSpec => []OutboxTypeOK
<1>1. OutboxInv => OutboxTypeOK
  BY DEF OutboxInv
<1> QED
  BY <1>1, OutboxInitially, OutboxKept, PTL DEF OutboxSpec

(* Whatever fails between a post and the writes after it, a row is closed   *)
(* as sent only when an endpoint has its event, and as failed only after    *)
(* MaxRetries refused posts, for every size of the batches.                 *)
THEOREM OutboxClosedWithCause == OutboxSpec => []ClosedWithCause
<1>1. OutboxInv => ClosedWithCause
  BY DEF OutboxInv
<1> QED
  BY <1>1, OutboxInitially, OutboxKept, PTL DEF OutboxSpec

(* The rows of a batch that travels wait, and stay so until they are        *)
(* written: there is one dispatcher.                                        *)
BatchWaits == \A e \in DOMAIN batch : outbox[e].status = "pending"

LEMMA BatchWaitsKept ==
  ASSUME OutboxTypeOK, BatchWaits, [OutboxNext]_outboxVars PROVE BatchWaits'
<1> USE DEF OutboxTypeOK, BatchWaits
<1>1. ASSUME NEW e \in Events, Enqueue(e) PROVE BatchWaits'
  BY <1>1 DEF Enqueue, NoRow, worker
<1>2. ASSUME NEW e \in Events, ComesDue(e) PROVE BatchWaits'
  BY <1>2 DEF ComesDue, worker
<1>3. ASSUME NEW e \in Events, WriteRow(e) PROVE BatchWaits'
  <2>1. DOMAIN batch' = DOMAIN batch \ {e} /\ \A d \in Events \ {e} : outbox'[d] = outbox[d]
    BY <1>3 DEF WriteRow, Rests, NoBatch
  <2> QED
    BY <2>1
<1>4. CASE ClaimDue
  BY <1>4 DEF ClaimDue, Claimed, Due
<1>5. ASSUME NEW answered \in BOOLEAN, PostOne(answered) PROVE BatchWaits'
  BY <1>5 DEF PostOne
<1>6. CASE DispatchBreaks
  BY <1>6 DEF DispatchBreaks, Rests, NoBatch
<1>7. CASE UNCHANGED outboxVars
  BY <1>7 DEF outboxVars
<1> QED
  BY <1>1, <1>2, <1>3, <1>4, <1>5, <1>6, <1>7 DEF OutboxNext

(* A post is one of a set of events that wait.                              *)
LEMMA PostDelivers ==
  ASSUME OutboxTypeOK, BatchWaits, NEW answered \in BOOLEAN, PostOne(answered)
  PROVE  Delivery!Post
<1>1. DOMAIN batch \in SUBSET Delivery!Waiting
  BY DEF Delivery!Waiting, OutboxTypeOK, BatchWaits
<1>2. UNCHANGED outbox
  BY DEF PostOne
<1>3. CASE answered
  <2>1. accepted' = accepted \cup DOMAIN batch /\ UNCHANGED refused
    BY <1>3 DEF PostOne, OutboxTypeOK
  <2> QED
    BY <1>1, <1>2, <2>1 DEF Delivery!Post
<1>4. CASE ~answered /\ address < Addresses
  <2>1. accepted' \in {accepted, accepted \cup DOMAIN batch} /\ UNCHANGED refused
    BY <1>4 DEF PostOne, OutboxTypeOK
  <2>2. CASE accepted' = accepted
    <3>1. {} \in SUBSET Delivery!Waiting /\ accepted' = accepted \cup {}
      BY <2>2
    <3> QED
      BY <1>2, <2>1, <3>1 DEF Delivery!Post
  <2> QED
    BY <1>1, <1>2, <2>1, <2>2 DEF Delivery!Post
<1>5. CASE ~answered /\ ~(address < Addresses)
  <2>1. /\ accepted' \in {accepted, accepted \cup DOMAIN batch}
        /\ refused' = [e \in Events |-> IF e \in DOMAIN batch /\ refused[e] < MaxRetries
                                        THEN refused[e] + 1 ELSE refused[e]]
    BY <1>5 DEF PostOne
  <2> QED
    BY <1>1, <1>2, <2>1 DEF Delivery!Post
<1> QED
  BY <1>3, <1>4, <1>5

(* A write closes a row for its reason, or leaves it waiting.               *)
LEMMA WriteDelivers ==
  ASSUME OutboxInv, BatchWaits, NEW e \in Events, WriteRow(e)
  PROVE  Delivery!Close(e) \/ UNCHANGED Delivery!vars
<1> DEFINE to == outbox'[e].status
<1> USE OutboxAssumption DEF OutboxInv, OutboxTypeOK
<1>1. outbox[e].status = "pending" /\ e \in DOMAIN batch /\ batch[e] \in Nat
  BY DEF WriteRow, First, BatchWaits
<1>2. \A d \in Events \ {e} : outbox'[d].status = outbox[d].status
  BY DEF WriteRow
<1>3. [d \in Events |-> outbox'[d].status] = [[d \in Events |-> outbox[d].status] EXCEPT ![e] = to]
  BY <1>2
<1>4. UNCHANGED <<accepted, refused>>
  BY DEF WriteRow
<1>5. \/ to = "sent" /\ e \in accepted
      \/ to = "failed" /\ refused[e] >= MaxRetries
      \/ to = "pending"
  <2>1. CASE dispatch = "mark"
    BY <1>1, <2>1 DEF WriteRow, Sent, BatchJustified
  <2>2. CASE dispatch = "reschedule"
    <3>1. outbox'[e] = Rescheduled(e) /\ Refused(e, batch[e] + 1)
      BY <1>1, <2>2 DEF WriteRow, BatchJustified
    <3>2. (to = "failed" /\ batch[e] + 1 >= MaxRetries) \/ to = "pending"
      BY <1>1, <3>1 DEF Rescheduled
    <3> QED
      BY <1>1, <3>1, <3>2 DEF Refused
  <2> QED
    BY <2>1, <2>2 DEF WriteRow
<1>6. CASE to = "pending"
  <2>1. \A d \in Events : outbox'[d].status = outbox[d].status
    BY <1>1, <1>2, <1>6
  <2> QED
    BY <1>4, <2>1 DEF Delivery!vars
<1>7. e \in Delivery!Waiting
  BY <1>1 DEF Delivery!Waiting
<1> HIDE DEF to, OutboxInv, OutboxTypeOK
<1> QED
  BY <1>3, <1>4, <1>5, <1>6, <1>7 DEF Delivery!Close

LEMMA StepDelivers ==
  ASSUME OutboxInv, BatchWaits, [OutboxNext]_outboxVars PROVE [Delivery!Next]_Delivery!vars
<1> USE DEF OutboxInv, OutboxTypeOK
<1>1. ASSUME NEW e \in Events, Enqueue(e) PROVE Delivery!Announce(e)
  <2>1. outbox[e].status = "none" /\ outbox'[e].status = "pending" /\ UNCHANGED <<accepted, refused>>
    BY <1>1 DEF Enqueue, NoRow
  <2>2. \A d \in Events \ {e} : outbox'[d] = outbox[d]
    BY <1>1 DEF Enqueue
  <2>3. [d \in Events |-> outbox'[d].status] = [[d \in Events |-> outbox[d].status] EXCEPT ![e] = "pending"]
    BY <2>1, <2>2
  <2> QED
    BY <2>1, <2>3 DEF Delivery!Announce
<1>2. ASSUME NEW e \in Events, ComesDue(e) PROVE UNCHANGED Delivery!vars
  <2>1. \A d \in Events : outbox'[d].status = outbox[d].status
    BY <1>2 DEF ComesDue
  <2> QED
    BY <1>2, <2>1 DEF ComesDue, Delivery!vars
<1>3. CASE ClaimDue \/ DispatchBreaks \/ UNCHANGED outboxVars
  BY <1>3 DEF ClaimDue, DispatchBreaks, outboxVars, Delivery!vars
<1>4. ASSUME NEW answered \in BOOLEAN, PostOne(answered) PROVE Delivery!Post
  BY <1>4, PostDelivers
<1>5. ASSUME NEW e \in Events, WriteRow(e) PROVE Delivery!Close(e) \/ UNCHANGED Delivery!vars
  BY <1>5, WriteDelivers
<1> QED
  BY <1>1, <1>2, <1>3, <1>4, <1>5 DEF OutboxNext, Delivery!Next

(* The outbox implements EventDelivery, for any number of events,           *)
(* endpoints, retries and failures and every size of the batches.           *)
THEOREM OutboxDelivers == OutboxSpec => EventsDelivered
<1>1. OutboxInit => Delivery!Init /\ BatchWaits
  BY DEF OutboxInit, Delivery!Init, BatchWaits, NoRow, NoBatch
<1>2. OutboxInv /\ BatchWaits /\ [OutboxNext]_outboxVars => BatchWaits' /\ [Delivery!Next]_Delivery!vars
  BY BatchWaitsKept, StepDelivers DEF OutboxInv
<1> QED
  BY <1>1, <1>2, OutboxInitially, OutboxKept, PTL DEF OutboxSpec, EventsDelivered, Delivery!Spec

-----------------------------------------------------------------------------
(* The durable host commands                                               *)

(* Who may still make the node run c once: a handler or a queue worker that *)
(* is calling or about to record a failed call, and a row to be claimed.    *)
HandlerShare(c) == IF handler[c] \in {"calling", "failed"} THEN 1 ELSE 0
QueueShare(c) == IF pass.row = c /\ pass.step \in {"calling", "failed"} THEN 1 ELSE 0
RowShare(c) == IF command[c] \in {"pending", "retrying"} THEN 1 ELSE 0
Budget(c) == ran[c] + HandlerShare(c) + QueueShare(c) + RowShare(c) <= 1 + excused[c]
Unasked(c) == handler[c] = "none" => command[c] = "none" /\ ran[c] = 0 /\ pass.row # c
HostInv == HostTypeOK /\ \A c \in Commands : Budget(c) /\ Unasked(c)

LEMMA HostInitially == HostInit => HostInv
BY HostCommandsAssumption
   DEF HostInit, HostInv, HostTypeOK, Budget, Unasked, HandlerShare, QueueShare, RowShare, NoPass, OpenRow, Steps

(* What a call by somebody who holds a share of c, and records outcome, does. *)
LEMMA CallWithinBudget ==
  ASSUME HostInv, NEW c \in Commands, NEW outcome \in {"ok", "failed", "permanent"}, Call(c, outcome)
  PROVE  /\ ran' \in [Commands -> Nat] /\ excused' \in [Commands -> Nat] /\ hostFaults' \in Nat
         /\ nodeStatus' \in {"connected", "error", "deleted"}
         /\ \A d \in Commands \ {c} : ran'[d] = ran[d] /\ excused'[d] = excused[d]
         /\ ran'[c] + (IF outcome = "failed" THEN 1 ELSE 0) <= ran[c] + 1 + (excused'[c] - excused[c])
         /\ excused'[c] >= excused[c]
<1> USE HostCommandsAssumption DEF HostInv, HostTypeOK, Call, NodeRuns, Noted, HostFault
<1>1. CASE outcome = "ok"
  BY <1>1
<1>2. CASE outcome = "failed"
  BY <1>2
<1>3. CASE outcome = "permanent"
  BY <1>3
<1> QED
  BY <1>1, <1>2, <1>3

LEMMA HostKept == HostInv /\ [HostNext]_hostVars => HostInv'
<1> SUFFICES ASSUME HostInv, [HostNext]_hostVars PROVE HostInv'
  OBVIOUS
<1> USE HostCommandsAssumption DEF HostInv, HostTypeOK, Budget, Unasked, HandlerShare, QueueShare, RowShare,
        OpenRow, Steps, NoPass, SetRow, RowKept, NodeKept, Stepped, HostFault
<1>1. ASSUME NEW c \in Commands, QueueCommand(c) PROVE HostInv'
  BY <1>1 DEF QueueCommand
<1>2. ASSUME NEW c \in Commands, Claim(c) PROVE HostInv'
  <2>1. CASE Claimable(c) /\ SetRow(c, "running") /\ Stepped(c, "calling")
    BY <1>2, <2>1 DEF Claim, Claimable
  <2>2. CASE SetRow(c, "failed") /\ Stepped(c, "ended")
    BY <1>2, <2>2 DEF Claim
  <2> QED
    BY <1>2, <2>1, <2>2 DEF Claim
<1>3. ASSUME NEW c \in Commands, HandlerCalls(c) PROVE HostInv'
  <2>1. PICK outcome \in {"ok", "failed", "permanent"} : Call(c, outcome) /\ Stepped(c, outcome)
    BY <1>3 DEF HandlerCalls
  <2>2. handler[c] = "calling" /\ RowKept
    BY <1>3 DEF HandlerCalls
  <2> QED
    BY <2>1, <2>2, CallWithinBudget
<1>4. ASSUME NEW c \in Commands, HandlerRecords(c) PROVE HostInv'
  BY <1>4 DEF HandlerRecords, Result
<1>5. ASSUME NEW c \in Commands, QueueClaims(c) PROVE HostInv'
  BY <1>5 DEF QueueClaims, Oldest, Claimable
<1>6. ASSUME NEW c \in Commands, QueueCalls(c) PROVE HostInv'
  <2>1. PICK outcome \in {"ok", "failed", "permanent"} : Call(c, outcome) /\ pass' = [pass EXCEPT !.step = outcome]
    BY <1>6 DEF QueueCalls
  <2>2. pass.row = c /\ pass.step = "calling" /\ RowKept /\ UNCHANGED handler
    BY <1>6 DEF QueueCalls
  <2> QED
    BY <2>1, <2>2, CallWithinBudget
<1>7. ASSUME NEW c \in Commands, QueueRecords(c) PROVE HostInv'
  BY <1>7 DEF QueueRecords, Result
<1>8. ASSUME NEW c \in Commands, GrowsOld(c) \/ HandlerLosesRow(c) PROVE HostInv'
  <2>1. CASE GrowsOld(c)
    BY <2>1 DEF GrowsOld
  <2>2. CASE HandlerLosesRow(c)
    BY <2>2 DEF HandlerLosesRow
  <2> QED
    BY <1>8, <2>1, <2>2
<1>9. ASSUME ProcessQueue PROVE HostInv'
  BY <1>9 DEF ProcessQueue, Stale, Waits
<1>10. ASSUME Reconnect \/ Disconnect PROVE HostInv'
  <2>1. CASE Reconnect
    BY <2>1 DEF Reconnect
  <2>2. CASE Disconnect
    BY <2>2 DEF Disconnect
  <2> QED
    BY <1>10, <2>1, <2>2
<1>11. ASSUME DeleteNode PROVE HostInv'
  BY <1>11 DEF DeleteNode
<1>12. ASSUME QueueLosesRow \/ PanelRestarts PROVE HostInv'
  <2>1. CASE QueueLosesRow
    BY <2>1 DEF QueueLosesRow
  <2>2. CASE PanelRestarts
    BY <2>2 DEF PanelRestarts
  <2> QED
    BY <1>12, <2>1, <2>2
<1>13. ASSUME UNCHANGED hostVars PROVE HostInv'
  BY <1>13 DEF hostVars
<1> QED
  BY <1>1, <1>2, <1>3, <1>4, <1>5, <1>6, <1>7, <1>8, <1>9, <1>10, <1>11, <1>12, <1>13
     DEF HostNext, HandlerStep, QueueStep

(* Rows, handlers, the pass and the counts keep their types. *)
THEOREM HostTyped == HostSpec => []HostTypeOK
<1>1. HostInv => HostTypeOK
  BY DEF HostInv
<1> QED
  BY <1>1, HostInitially, HostKept, PTL DEF HostSpec

(* A command runs once and then only for a reason, an answer that was lost  *)
(* or a row recovered as stale, however handlers, queue passes and restarts *)
(* interleave: at any time the node's runs and those still to be expected   *)
(* are within that budget.                                                  *)
THEOREM HostRepeatedForCause == HostSpec => []RepeatedForCause
<1>1. HostInv => RepeatedForCause
  BY DEF HostInv, HostTypeOK, RepeatedForCause, Budget, HandlerShare, QueueShare, RowShare
<1> QED
  BY <1>1, HostInitially, HostKept, PTL DEF HostSpec

-----------------------------------------------------------------------------
(* The status of maintenance                                               *)

Phase == {"none", "started", "runs", "accepted", "exited", "restarting", "told"}
MaintenanceTypeOK ==
  /\ latest \in [id : Upkeep \cup {0}, writers : SUBSET Upkeep, running : BOOLEAN]
  /\ edition \in Nat /\ watching \subseteq Watchers
  /\ publishing \in [left : SUBSET Watchers, drained : SUBSET Watchers]
  /\ channel \in [Watchers -> Nat] /\ shown \in [Watchers -> Nat]
  /\ process \in [Upkeep -> [state : Phase, lines : Nat]]

(* While the lock is held, the watchers still to be served may miss the     *)
(* edition being published, and nobody else may; a drained channel is empty. *)
Newest(w) == edition = IF channel[w] = 0 THEN shown[w] ELSE channel[w]
ServedInTurn ==
  /\ \A w \in watching : w \notin publishing.left \cup publishing.drained => Newest(w)
  /\ \A w \in publishing.drained : channel[w] = 0 /\ publishing.drained = {w}
  /\ Locked => edition > 0
MaintenanceInv == MaintenanceTypeOK /\ ServedInTurn /\ OwnStory

LEMMA MaintenanceInitially == MaintenanceInit => MaintenanceInv
BY MaintenanceAssumption
   DEF MaintenanceInit, MaintenanceInv, MaintenanceTypeOK, ServedInTurn, OwnStory, Newest, Locked, Unlocked, Nothing, Phase

(* Every snapshot goes to all who watch. *)
LEMMA PublishServes ==
  ASSUME MaintenanceTypeOK, ServedInTurn, NEW snapshot, Publish(snapshot),
         snapshot \in [id : Upkeep \cup {0}, writers : SUBSET Upkeep, running : BOOLEAN]
  PROVE  /\ latest' = snapshot /\ edition' \in Nat /\ publishing' \in [left : SUBSET Watchers, drained : SUBSET Watchers]
         /\ UNCHANGED <<channel, shown, watching>> /\ ServedInTurn'
BY DEF Publish, MaintenanceTypeOK, ServedInTurn, Newest, Locked, Unlocked

(* A step of an operation o keeps its story its own: it writes only when o  *)
(* is the latest, and a snapshot that is not running is one o has ended.    *)
LEMMA TellsKept ==
  ASSUME MaintenanceInv, NEW o \in Upkeep, NEW running \in BOOLEAN,
         Tells(o, [latest EXCEPT !.writers = @ \cup {o}, !.running = running]),
         process' \in [Upkeep -> [state : Phase, lines : Nat]],
         \A p \in Upkeep \ {o} : process'[p] = process[p],
         \/ running
         \/ process'[o].state = "told",
         process[o].state = "told" => process'[o].state = "told"
  PROVE  MaintenanceInv'
<1> USE MaintenanceAssumption DEF MaintenanceInv
<1>1. CASE latest.id = o
  <2> DEFINE snapshot == [latest EXCEPT !.writers = @ \cup {o}, !.running = running]
  <2>1. snapshot \in [id : Upkeep \cup {0}, writers : SUBSET Upkeep, running : BOOLEAN]
    BY DEF MaintenanceTypeOK
  <2>2. Publish(snapshot)
    BY <1>1 DEF Tells
  <2>3. /\ latest' = snapshot /\ edition' \in Nat /\ publishing' \in [left : SUBSET Watchers, drained : SUBSET Watchers]
        /\ UNCHANGED <<channel, shown, watching>> /\ ServedInTurn'
    BY <2>1, <2>2, PublishServes
  <2>4. MaintenanceTypeOK'
    BY <2>1, <2>3 DEF MaintenanceTypeOK
  <2>5. latest'.id = o /\ latest'.writers \subseteq {o} /\ latest'.running = running
    BY <1>1, <2>3 DEF OwnStory, MaintenanceTypeOK
  <2> QED
    BY <2>3, <2>4, <2>5 DEF OwnStory
<1>2. CASE latest.id # o
  <2>1. UNCHANGED storeVars
    BY <1>2 DEF Tells
  <2> QED
    BY <1>2, <2>1 DEF storeVars, MaintenanceTypeOK, ServedInTurn, OwnStory, Newest, Locked
<1> QED
  BY <1>1, <1>2

LEMMA MaintenanceKept == MaintenanceInv /\ [MaintenanceNext]_maintenanceVars => MaintenanceInv'
<1> SUFFICES ASSUME MaintenanceInv, [MaintenanceNext]_maintenanceVars PROVE MaintenanceInv'
  OBVIOUS
<1> USE MaintenanceAssumption DEF MaintenanceInv
<1>1. ASSUME NEW w \in Watchers, DrainChannel(w) PROVE MaintenanceInv'
  BY <1>1 DEF DrainChannel, Drained, MaintenanceTypeOK, ServedInTurn, OwnStory, Newest, Locked, Unlocked
<1>2. ASSUME NEW w \in Watchers, SendSnapshot(w) PROVE MaintenanceInv'
  <2>1. w \in publishing.drained /\ channel[w] = 0 /\ edition > 0
    BY <1>2 DEF SendSnapshot, ServedInTurn, Locked, Unlocked
  <2>2. /\ channel' = [channel EXCEPT ![w] = edition]
        /\ publishing' = [left |-> publishing.left, drained |-> {}]
        /\ UNCHANGED <<latest, edition, shown, watching, process>>
    BY <1>2, <2>1 DEF SendSnapshot, MaintenanceTypeOK
  <2>3. MaintenanceTypeOK' /\ OwnStory'
    BY <2>2 DEF MaintenanceTypeOK, OwnStory
  <2>4. ASSUME NEW v \in watching', v \notin publishing'.left PROVE Newest(v)'
    <3>1. publishing.drained = {w}
      BY <2>1 DEF ServedInTurn
    <3> QED
      BY <2>1, <2>2, <2>4, <3>1 DEF MaintenanceTypeOK, ServedInTurn, Newest
  <2> QED
    BY <2>1, <2>2, <2>3, <2>4 DEF ServedInTurn
<1>3. ASSUME NEW w \in Watchers, Subscribe(w) PROVE MaintenanceInv'
  BY <1>3 DEF Subscribe, MaintenanceTypeOK, ServedInTurn, OwnStory, Newest, Locked, Unlocked
<1>4. ASSUME NEW w \in Watchers, Unsubscribe(w) PROVE MaintenanceInv'
  BY <1>4 DEF Unsubscribe, Drained, MaintenanceTypeOK, ServedInTurn, OwnStory, Newest, Locked, Unlocked
<1>5. ASSUME NEW w \in Watchers, Take(w) PROVE MaintenanceInv'
  BY <1>5 DEF Take, Drained, MaintenanceTypeOK, ServedInTurn, OwnStory, Newest, Locked, Unlocked
<1>6. ASSUME NEW o \in Upkeep, Start(o) PROVE MaintenanceInv'
  <2>1. [id |-> o, writers |-> {o}, running |-> TRUE] \in [id : Upkeep \cup {0}, writers : SUBSET Upkeep, running : BOOLEAN]
    OBVIOUS
  <2>2. Publish([id |-> o, writers |-> {o}, running |-> TRUE])
    BY <1>6 DEF Start
  <2>3. process' \in [Upkeep -> [state : Phase, lines : Nat]]
    BY <1>6 DEF Start, MaintenanceTypeOK, Phase
  <2>4. /\ latest' = [id |-> o, writers |-> {o}, running |-> TRUE] /\ edition' \in Nat
        /\ publishing' \in [left : SUBSET Watchers, drained : SUBSET Watchers]
        /\ UNCHANGED <<channel, shown, watching>> /\ ServedInTurn'
    BY <2>1, <2>2, PublishServes, Zenon
  <2> QED
    BY <2>1, <2>3, <2>4 DEF MaintenanceTypeOK, OwnStory
<1>7. ASSUME NEW o \in Upkeep, Schedule(o) \/ CommandEnds(o) PROVE MaintenanceInv'
  <2>1. UNCHANGED storeVars /\ process[o].state \in {"started", "runs"} /\ \A p \in Upkeep \ {o} : process'[p] = process[p]
    BY <1>7 DEF Schedule, CommandEnds, MaintenanceTypeOK
  <2>2. process' \in [Upkeep -> [state : Phase, lines : Nat]]
    BY <1>7 DEF Schedule, CommandEnds, MaintenanceTypeOK, Phase
  <2> QED
    BY <2>1, <2>2 DEF storeVars, MaintenanceTypeOK, ServedInTurn, OwnStory, Newest, Locked
<1>8. ASSUME NEW o \in Upkeep, AppendOutput(o) PROVE MaintenanceInv'
  <2>1. process' = [process EXCEPT ![o].lines = @ - 1] /\ process[o] \in [state : Phase, lines : Nat] /\ process[o].lines > 0
    BY <1>8 DEF AppendOutput, MaintenanceTypeOK
  <2>2. process' \in [Upkeep -> [state : Phase, lines : Nat]] /\ process'[o].state = process[o].state
    BY <2>1 DEF MaintenanceTypeOK
  <2>3. CASE latest.id = o
    <3>1. [latest EXCEPT !.writers = @ \cup {o}] = [latest EXCEPT !.writers = @ \cup {o}, !.running = latest.running]
      BY DEF MaintenanceTypeOK
    <3>2. latest.running \in BOOLEAN /\ (latest.running \/ process'[o].state = "told")
      BY <2>2, <2>3 DEF MaintenanceTypeOK, OwnStory
    <3> QED
      BY <1>8, <2>1, <2>2, <3>1, <3>2, TellsKept DEF AppendOutput, MaintenanceTypeOK
  <2>4. CASE latest.id # o
    <3>1. Tells(o, [latest EXCEPT !.writers = @ \cup {o}, !.running = TRUE])
      BY <1>8, <2>4 DEF AppendOutput, Tells
    <3> QED
      BY <2>1, <2>2, <3>1, TellsKept DEF MaintenanceTypeOK
  <2> QED
    BY <2>3, <2>4
<1>9. ASSUME NEW o \in Upkeep, MarkRestarting(o) PROVE MaintenanceInv'
  <2>1. process' \in [Upkeep -> [state : Phase, lines : Nat]] /\ \A p \in Upkeep \ {o} : process'[p] = process[p]
    BY <1>9 DEF MarkRestarting, MaintenanceTypeOK, Phase
  <2> QED
    BY <1>9, <2>1, TellsKept DEF MarkRestarting
<1>10. ASSUME NEW o \in Upkeep, FinishOperation(o) PROVE MaintenanceInv'
  <2>1. /\ process' \in [Upkeep -> [state : Phase, lines : Nat]] /\ \A p \in Upkeep \ {o} : process'[p] = process[p]
        /\ process'[o].state = "told"
    BY <1>10 DEF FinishOperation, MaintenanceTypeOK, Phase
  <2> QED
    BY <1>10, <2>1, TellsKept DEF FinishOperation
<1>11. ASSUME UNCHANGED maintenanceVars PROVE MaintenanceInv'
  BY <1>11 DEF maintenanceVars, MaintenanceTypeOK, ServedInTurn, OwnStory, Newest, Locked
<1> QED
  BY <1>1, <1>2, <1>3, <1>4, <1>5, <1>6, <1>7, <1>8, <1>9, <1>10, <1>11 DEF MaintenanceNext

(* A watcher that falls behind still gets the newest snapshot, for any      *)
(* number of watchers and however its reads fall between the drain and the  *)
(* send of a publication.                                                   *)
THEOREM MaintenanceNewestKept == MaintenanceSpec => []NewestKept
<1>1. MaintenanceInv => NewestKept
  BY DEF MaintenanceInv, ServedInTurn, NewestKept, Newest, Locked, Unlocked
<1> QED
  BY <1>1, MaintenanceInitially, MaintenanceKept, PTL DEF MaintenanceSpec

(* No older command writes into the story of a newer operation, which runs  *)
(* until its own command has ended, for any number of operations that       *)
(* overlap.                                                                 *)
THEOREM MaintenanceOwnStory == MaintenanceSpec => []OwnStory
<1>1. MaintenanceInv => OwnStory
  BY DEF MaintenanceInv
<1> QED
  BY <1>1, MaintenanceInitially, MaintenanceKept, PTL DEF MaintenanceSpec
=============================================================================
