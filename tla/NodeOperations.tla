--------------------------- MODULE NodeOperations ---------------------------
(***************************************************************************)
(* How a change reaches one node (internal/app/nodecontroller).            *)
(*                                                                         *)
(* The API and the lifecycle jobs commit a change of a user together with  *)
(* a row of node_operations.  Two workers apply the rows: "queue", the     *)
(* poller that drains the node's rows in priority order, and "hot", the    *)
(* goroutine a user change kicks.  "ctl" is the handler of Connect and of  *)
(* Sync (API request or recovery worker), which applies a full config      *)
(* without a row of its own and closes the rows that config supersedes.    *)
(* They share the table and the node's mutex; a configuration is built     *)
(* from the database while the mutex is held.                              *)
(*                                                                         *)
(* The node is any one node: rows carry a node_id, a pass runs each node's *)
(* rows as a group of its own and the mutex is per node.  The node process *)
(* and the network are external.                                           *)
(***************************************************************************)
EXTENDS Naturals, FiniteSets

CONSTANTS
  Users,          \* users of the panel
  NoUser,         \* user_id NULL: the row of a full sync
  MaxRows,        \* bound: rows of node_operations for this node
  MaxVersion,     \* bound: changes of one user
  MaxConfig,      \* bound: version of the configuration, which starts at 1
  MaxFaults,      \* bound: faults of one behaviour
  BulkThreshold,  \* bulkRuntimeUserOperationThreshold
  Changes,        \* the user mutations of this instance
  Handlers,       \* API handlers: subset of {"connect", "sync"}
  Delta,          \* how deltas reach the node: subset of {"targeted", "full"}
  FaultKinds,     \* the faults of this instance
  StaleCache      \* TRUE: cachedActiveNodeIDs may answer with an old status

ChangeKinds == {"create", "update", "delete", "bulkActivate", "bulkDisable", "bulkCleanup"}
AllFaults == {"refused", "lost", "permanent", "unmarked", "hung", "health", "crash"}

ASSUME NodeOperationsAssumption ==
  /\ NoUser \notin Users
  /\ {MaxRows, MaxVersion, MaxConfig, MaxFaults, BulkThreshold} \subseteq Nat
  /\ Changes \subseteq ChangeKinds
  /\ Handlers \subseteq {"connect", "sync"}
  /\ Delta \subseteq {"targeted", "full"}
  /\ FaultKinds \subseteq AllFaults
  /\ StaleCache \in BOOLEAN

VARIABLES
  user,      \* users.status: none, on (active, on_hold), off (disabled, limited, expired), deleted
  ver,       \* ghost: number of changes of a user that matter to a node
  cfg,       \* ghost: version of the node's configuration in the database
  request,   \* a configuration change whose sync is not yet queued for this node
  ops,       \* rows of node_operations of this node, by id
  next,      \* id of the next row
  status,    \* nodes.status
  lag,       \* desired_revision > applied_revision, as the database has it
  nodeLag,   \* desired_revision > the revision the node has applied
  nodeCfg,   \* external: version of the configuration the node runs
  nodeUser,  \* external: version of the credentials the node accepts, 0 for none
  lock,      \* nodeLocks: the holder of the node's mutex, or "free"
  job,       \* what each worker is doing
  batch,     \* rows the current pass of a worker has yet to process
  kicks,     \* userOpsKickUserIDs
  missed,    \* ghost: users whose last change was committed with no row for this node
  faults     \* faults so far

database == <<user, ver, cfg>>
table    == <<ops, next>>
record   == <<status, lag>>
node     == <<nodeCfg, nodeUser, nodeLag>>
vars == <<database, request, table, record, node, lock, job, batch, kicks, missed, faults>>

Workers == {"queue", "hot", "ctl"}
RowId == 1..MaxRows

UserKinds == {"add", "update", "enable", "disable", "remove"}
AddKinds == {"add", "update", "enable"}       \* applied by grpcAddUserToNode
Kinds == UserKinds \cup {"sync"}
RowStatus == {"free", "pending", "retrying", "running", "done", "failed"}
OpenStatus == {"pending", "retrying", "running"}

Row == [kind : Kinds, user : Users \cup {NoUser}, status : RowStatus, need : Nat]
FreeRow == [kind |-> "sync", user |-> NoUser, status |-> "free", need |-> 0]

(* A worker's place in its operation.  cfg, users and touch are what it    *)
(* built: with full the whole configuration, else the one user in touch.   *)
Pc == {"idle", "claimed", "waiting", "queued", "locked", "reading", "built", "applied", "finished", "failing"}
Job == [pc : Pc, row : Nat, super : SUBSET RowId, full : BOOLEAN,
        cfg : Nat, users : [Users -> Nat], touch : SUBSET Users]
Idle == [pc |-> "idle", row |-> 0, super |-> {}, full |-> FALSE,
         cfg |-> 0, users |-> [u \in Users |-> 0], touch |-> {}]

TypeOK ==
  /\ user \in [Users -> {"none", "on", "off", "deleted"}]
  /\ ver \in [Users -> Nat] /\ cfg \in Nat
  /\ request \in BOOLEAN
  /\ ops \in [RowId -> Row] /\ next \in 1..(MaxRows + 1)
  /\ status \in {"connected", "connecting", "error"}
  /\ lag \in BOOLEAN /\ nodeLag \in BOOLEAN
  /\ nodeCfg \in Nat /\ nodeUser \in [Users -> Nat]
  /\ lock \in Workers \cup {"free"}
  /\ job \in [Workers -> Job]
  /\ batch \in [Workers -> SUBSET RowId]
  /\ kicks \subseteq Users /\ missed \subseteq Users
  /\ faults \in Nat

Init ==
  /\ user = [u \in Users |-> "none"]
  /\ ver = [u \in Users |-> 0] /\ cfg = 1
  /\ request = FALSE
  /\ ops = [i \in RowId |-> FreeRow] /\ next = 1
  /\ status = "connected" /\ lag = FALSE /\ nodeLag = FALSE
  /\ nodeCfg = 1 /\ nodeUser = [u \in Users |-> 0]
  /\ lock = "free"
  /\ job = [w \in Workers |-> Idle] /\ batch = [w \in Workers |-> {}]
  /\ kicks = {} /\ missed = {} /\ faults = 0

Fault(kind) == kind \in FaultKinds /\ faults < MaxFaults /\ faults' = faults + 1

-----------------------------------------------------------------------------
(* The table *)

Open(i) == ops[i].status \in OpenStatus
Pending(kind, u, need) == [kind |-> kind, user |-> u, status |-> "pending", need |-> need]
WithStatus(q, S, s) == [i \in RowId |-> IF i \in S THEN [q[i] EXCEPT !.status = s] ELSE q[i]]

(* Rows a new full sync coalesces into: pending or retrying, not running.  *)
WaitingSyncs(q) == {i \in RowId : q[i].kind = "sync" /\ q[i].status \in {"pending", "retrying"}}

(* QueueSyncConfig on the table q: the newest waiting sync stands for the  *)
(* new one and the older ones are closed, or a row is inserted.            *)
QueueSync(q) ==
  \/ /\ WaitingSyncs(q) = {} /\ next <= MaxRows
     /\ ops' = [q EXCEPT ![next] = Pending("sync", NoUser, cfg)]
     /\ next' = next + 1
  \/ \E keep \in WaitingSyncs(q) :
       /\ \A i \in WaitingSyncs(q) : i <= keep
       /\ ops' = [WithStatus(q, WaitingSyncs(q) \ {keep}, "done") EXCEPT ![keep].need = cfg]
       /\ UNCHANGED next

(* CoalescibleOperationIDsForTarget: what a full sync with this id closes. *)
Superseded(id) ==
  {i \in RowId : Open(i) /\ (ops[i].kind = "sync" \/ i <= id)}

(* PendingOperations and PendingRuntimeUserOperations: sync, add, update   *)
(* and enable, the rest; the queue takes adds newest first.                *)
Rank(i) ==
  CASE ops[i].kind = "sync" -> 0
    [] ops[i].kind = "add" -> 1
    [] ops[i].kind \in {"update", "enable"} -> 2
    [] OTHER -> 3
Before(w, i, j) ==
  \/ Rank(i) < Rank(j)
  \/ Rank(i) = Rank(j) /\ IF w = "queue" /\ ops[i].kind = "add" THEN i > j ELSE i < j

-----------------------------------------------------------------------------
(* Changes committed by the API and the lifecycle jobs *)

(* What a configuration built now holds for a user.  The model's users     *)
(* have no device limit: the code also leaves out one whose open VPN       *)
(* sessions fill his ip_limit, and queues nothing when they end.           *)
Want(u) == IF user[u] = "on" THEN ver[u] ELSE 0

CompactedRows(u) ==
  {i \in RowId : ops[i].user = u /\ ops[i].status \in {"pending", "retrying"}}

(* One transaction: the user changes, its waiting rows are compacted and a *)
(* row is added when the node is listed as connected.                      *)
Commit(u, to, kind) ==
  /\ ver[u] < MaxVersion
  /\ user' = [user EXCEPT ![u] = to]
  /\ ver' = [ver EXCEPT ![u] = @ + 1]
  /\ \E listed \in IF StaleCache THEN BOOLEAN ELSE {status = "connected"} :
       IF listed
       THEN /\ next <= MaxRows
            /\ ops' = [WithStatus(ops, CompactedRows(u), "done")
                         EXCEPT ![next] = Pending(kind, u, ver[u] + 1)]
            /\ next' = next + 1
            /\ missed' = missed \ {u}
       ELSE /\ missed' = missed \cup {u}
            /\ UNCHANGED table
  /\ kicks' \in {kicks, kicks \cup {u}}
  /\ UNCHANGED <<cfg, request, record, node, lock, job, batch, faults>>

OperationForStatusChange(old, new) ==
  CASE old = "on" /\ new # "on" -> "disable"
    [] old # "on" /\ new = "on" -> "enable"
    [] OTHER -> "update"

CreateUser(u) == "create" \in Changes /\ user[u] = "none" /\ Commit(u, "on", "add")

(* Modify, reset, revoke, next plan and the lifecycle review; a change     *)
(* between two statuses that are off adds no row.                          *)
UpdateUser(u) ==
  /\ "update" \in Changes /\ user[u] \in {"on", "off"}
  /\ \E to \in {"on", "off"} :
       /\ "on" \in {user[u], to}
       /\ Commit(u, to, OperationForStatusChange(user[u], to))

DeleteUser(u) ==
  "delete" \in Changes /\ user[u] \in {"on", "off"} /\ Commit(u, "deleted", "remove")

(* Bulk actions enqueue update_user whatever the new status is.            *)
BulkUpdate(u) ==
  \/ "bulkActivate" \in Changes /\ user[u] = "off" /\ Commit(u, "on", "update")
  \/ "bulkDisable" \in Changes /\ user[u] \in {"on", "off"} /\ Commit(u, "off", "update")
  \/ "bulkCleanup" \in Changes /\ user[u] = "off" /\ Commit(u, "deleted", "update")

ChangeConfig ==
  /\ cfg < MaxConfig
  /\ cfg' = cfg + 1 /\ request' = TRUE
  /\ UNCHANGED <<user, ver, table, record, node, lock, job, batch, kicks, missed, faults>>

(* The second statement of a handler, or the fan-out of a global sync,     *)
(* which passes over a node that is not connected.                         *)
QueueNodeSync ==
  /\ request /\ request' = FALSE
  /\ \/ QueueSync(ops)
     \/ status # "connected" /\ UNCHANGED table
  /\ UNCHANGED <<database, record, node, lock, job, batch, kicks, missed, faults>>

-----------------------------------------------------------------------------
(* A pass of the queue worker, and of the hot worker *)

Executing(i) == \E w \in {"queue", "hot"} : job[w].pc # "idle" /\ job[w].row = i
NoneRetried == {}
Retrying == {i \in RowId : ops[i].status = "retrying"}
Running == {i \in RowId : ops[i].status = "running"}

(* RecoverStaleOperations and QueueLaggingNodeSyncs.                       *)
Recovered(stale) == WithStatus(ops, stale, "retrying")
NeverLagging == FALSE
Lagging == status = "connected" /\ lag /\ ~ \E i \in RowId : ops[i].kind = "sync" /\ Open(i)

(* ProcessQueue up to its groups: rows left running for two minutes are    *)
(* set to retrying, a lagging node gets a sync, the pending rows and the   *)
(* retrying ones past their backoff are read, and a backlog of user rows   *)
(* is folded into one sync.                                                *)
FetchRows(stale, ready) ==
  LET found == IF status = "connected" THEN ready \cup {i \in RowId : ops[i].status = "pending"} ELSE {}
      userRows == {i \in found : ops[i].kind \in UserKinds}
      folded == Cardinality(userRows) > BulkThreshold
  IN /\ job["queue"].pc = "idle" /\ batch["queue"] = {}
     /\ IF \E i \in stale : Executing(i) THEN Fault("hung") ELSE UNCHANGED faults
     /\ IF Lagging \/ folded THEN QueueSync(Recovered(stale)) ELSE ops' = Recovered(stale) /\ UNCHANGED next
     /\ batch' = [batch EXCEPT !["queue"] = (IF folded THEN found \ userRows ELSE found)
                                              \cup (IF Lagging THEN {next} ELSE {})]
     /\ UNCHANGED <<database, request, record, node, lock, job, kicks, missed>>

ProcessQueue == \E stale \in SUBSET Running, ready \in SUBSET Retrying : FetchRows(stale, ready)

ProcessRuntimeUserOperations(u) ==
  /\ u \in kicks /\ job["hot"].pc = "idle" /\ batch["hot"] = {}
  /\ \E ready \in SUBSET Retrying :
       batch' = [batch EXCEPT !["hot"] =
         IF status = "connected"
         THEN {i \in RowId : ops[i].user = u /\ (ops[i].status = "pending" \/ i \in ready)}
         ELSE {}]
  /\ kicks' = kicks \ {u}
  /\ UNCHANGED <<database, request, table, record, node, lock, job, missed, faults>>

Claimed(i) ==
  [Idle EXCEPT !.pc = IF ops[i].kind = "sync" THEN "claimed" ELSE "waiting", !.row = i]

(* MarkOperationRunning: a compare and set; a row it cannot claim is left. *)
ClaimRow(w) ==
  /\ w # "ctl" /\ job[w].pc = "idle"
  /\ \E i \in batch[w] :
       /\ \A j \in batch[w] \ {i} : Before(w, i, j)
       /\ batch' = [batch EXCEPT ![w] = @ \ {i}]
       /\ IF status = "connected" /\ ops[i].status \in {"pending", "retrying"}
          THEN /\ ops' = [ops EXCEPT ![i].status = "running"]
               /\ job' = [job EXCEPT ![w] = Claimed(i)]
          ELSE UNCHANGED <<ops, job>>
  /\ UNCHANGED <<database, request, next, record, node, lock, kicks, missed, faults>>

(* The queue worker reads what its full sync supersedes before it takes    *)
(* the node's mutex.                                                       *)
ReadSuperseded ==
  /\ job["queue"].pc = "claimed"
  /\ job' = [job EXCEPT !["queue"] =
       [@ EXCEPT !.pc = "waiting", !.super = Superseded(job["queue"].row)]]
  /\ UNCHANGED <<database, request, table, record, node, lock, batch, kicks, missed, faults>>

FullConfig(j) == [j EXCEPT !.pc = "built", !.full = TRUE, !.cfg = cfg, !.touch = Users,
                           !.users = [u \in Users |-> Want(u)]]
OneUser(j, u, value) == [j EXCEPT !.pc = "built", !.touch = {u}, !.users[u] = value]

(* nodeLocks and userOperationConfigSyncDecision; only a row of a user can *)
(* be a delta.                                                             *)
NoMutex == TRUE
MutexFree == lock = "free"
AnyRowTargeted(r) == "targeted" \in Delta
Targeted(r) == r.kind # "sync" /\ "targeted" \in Delta

(* runOperation: take the mutex, then read the database.  An add whose     *)
(* user is no longer on is done without a call to the node.                *)
LockAndBuild(w) ==
  /\ job[w].pc = "waiting" /\ MutexFree
  /\ LET r == ops[job[w].row] IN
     \/ /\ r.kind = "sync" \/ "full" \in Delta
        /\ lock' = w /\ job' = [job EXCEPT ![w] = FullConfig(@)]
     \/ /\ Targeted(r)
        /\ IF r.kind \in AddKinds /\ user[r.user] # "on"
           THEN job' = [job EXCEPT ![w].pc = "finished"] /\ UNCHANGED lock
           ELSE /\ lock' = w
                /\ job' = [job EXCEPT ![w] =
                     OneUser(@, r.user, IF r.kind \in AddKinds THEN ver[r.user] ELSE 0)]
  /\ UNCHANGED <<database, request, table, record, node, batch, kicks, missed, faults>>

-----------------------------------------------------------------------------
(* Connect and Sync *)

StartConnect ==
  /\ "connect" \in Handlers \/ status # "connected"
  /\ job["ctl"].pc = "idle" /\ MutexFree
  /\ lock' = "ctl" /\ job' = [job EXCEPT !["ctl"].pc = "queued"]
  /\ QueueSync(ops)
  /\ UNCHANGED <<database, request, record, node, batch, kicks, missed, faults>>

SetConnecting ==
  /\ job["ctl"].pc = "queued"
  /\ status' = "connecting"
  /\ job' = [job EXCEPT !["ctl"].pc = "locked"]
  /\ UNCHANGED <<database, request, table, lag, node, lock, batch, kicks, missed, faults>>

StartSync ==
  /\ "sync" \in Handlers
  /\ job["ctl"].pc = "idle" /\ MutexFree
  /\ lock' = "ctl" /\ job' = [job EXCEPT !["ctl"].pc = "locked"]
  /\ QueueSync(ops)
  /\ UNCHANGED <<database, request, record, node, batch, kicks, missed, faults>>

CtlReadSuperseded ==
  /\ job["ctl"].pc = "locked"
  /\ job' = [job EXCEPT !["ctl"] = [@ EXCEPT !.pc = "reading", !.super = Superseded(MaxRows)]]
  /\ UNCHANGED <<database, request, table, record, node, lock, batch, kicks, missed, faults>>

CtlBuild ==
  /\ job["ctl"].pc = "reading"
  /\ job' = [job EXCEPT !["ctl"] = FullConfig(@)]
  /\ UNCHANGED <<database, request, table, record, node, lock, batch, kicks, missed, faults>>

-----------------------------------------------------------------------------
(* The call to the node and what follows it, for every worker *)

FullSyncJob(w) == w = "ctl" \/ ops[job[w].row].kind = "sync"

(* SyncConfig, AddUser, UpdateUser, RemoveUser on the node.                *)
TakeEffect(w) ==
  LET j == job[w] IN
  /\ nodeCfg' = IF j.full THEN j.cfg ELSE nodeCfg
  /\ nodeUser' = [u \in Users |-> IF u \in j.touch THEN j.users[u] ELSE nodeUser[u]]
  /\ missed' = {u \in missed : u \notin j.touch \/ j.users[u] # Want(u)}
  /\ lag' = (lag \/ j.full)
  /\ nodeLag' = (nodeLag /\ ~j.full)

(* add_user and enable_user remove the user first: a call that breaks off  *)
(* in between leaves it absent.                                            *)
BreakOff(w) ==
  /\ ~job[w].full /\ ops[job[w].row].kind \in {"add", "enable"}
  /\ nodeUser' = [u \in Users |-> IF u \in job[w].touch THEN 0 ELSE nodeUser[u]]
  /\ UNCHANGED <<nodeCfg, missed, lag, nodeLag>>

ApplyOk(w) ==
  /\ job[w].pc = "built"
  /\ TakeEffect(w)
  /\ IF job[w].full
     THEN job' = [job EXCEPT ![w].pc = "applied"] /\ UNCHANGED lock
     ELSE job' = [job EXCEPT ![w].pc = "finished"] /\ lock' = "free"
  /\ UNCHANGED <<database, request, table, status, batch, kicks, faults>>

(* The error paths of runOperation, Connect and Sync: the mutex is         *)
(* released; most of a full sync set the node's status.                    *)
Fail(w, statuses) ==
  /\ status' \in IF FullSyncJob(w) THEN statuses ELSE {status}
  /\ job' = [job EXCEPT ![w] = IF w = "ctl" THEN Idle ELSE [@ EXCEPT !.pc = "failing"]]
  /\ lock' = "free"

ApplyLost(w) ==
  /\ job[w].pc = "built" /\ Fault("lost")
  /\ TakeEffect(w) \/ BreakOff(w)
  /\ Fail(w, {"error"})
  /\ UNCHANGED <<database, request, table, batch, kicks>>

(* The call fails before or after AdvanceDesiredRevision; when that itself *)
(* fails the status is left alone.                                         *)
ApplyRefused(w) ==
  /\ job[w].pc = "built" /\ Fault("refused")
  /\ \E advanced \in {FALSE, job[w].full} :
       lag' = (lag \/ advanced) /\ nodeLag' = (nodeLag \/ advanced)
  /\ Fail(w, {"error", status})
  /\ UNCHANGED <<database, request, table, nodeCfg, nodeUser, batch, kicks, missed>>

FinishRuntime(w) ==
  /\ job[w].pc = "applied"
  /\ status' = "connected" /\ lag' = nodeLag
  /\ job' = [job EXCEPT ![w].pc = "finished"]
  /\ lock' = IF w = "ctl" THEN lock ELSE "free"
  /\ UNCHANGED <<database, request, table, node, batch, kicks, missed, faults>>

(* A delta closes its row.  A full sync closes the rows it had read and    *)
(* that are still open; the queue worker closes its own if there are none. *)
ClosingWhatIsOpen(w) == IF FullSyncJob(w) THEN {i \in RowId : Open(i)} ELSE {job[w].row}
Closing(w) == IF FullSyncJob(w) THEN job[w].super ELSE {job[w].row}
ClosedRows(w) ==
  LET open == {i \in Closing(w) : Open(i)}
  IN IF FullSyncJob(w) /\ (w = "ctl" \/ open # {}) THEN open ELSE {job[w].row}

CloseRows(w) ==
  /\ job[w].pc = "finished"
  /\ ops' = WithStatus(ops, ClosedRows(w), "done")
  /\ job' = [job EXCEPT ![w] = Idle]
  /\ lock' = IF w = "ctl" THEN "free" ELSE lock
  /\ UNCHANGED <<database, request, next, record, node, batch, kicks, missed, faults>>

(* A write of finishRuntime fails after the call: the operation has failed *)
(* although the node has the configuration.                                *)
FinishFails(w) ==
  /\ job[w].pc = "applied" /\ Fault("unmarked")
  /\ status' \in {status, "connected"}
  /\ lag' \in IF status' = "connected" THEN {lag, nodeLag} ELSE {lag}
  /\ job' = [job EXCEPT ![w] = IF w = "ctl" THEN Idle ELSE [@ EXCEPT !.pc = "failing"]]
  /\ lock' = "free"
  /\ UNCHANGED <<database, request, table, node, batch, kicks, missed>>

(* The rows cannot be marked done, or the pass has run out of time after   *)
(* the call and writes nothing more: they stay running, the group ends.    *)
CloseFails(w) ==
  /\ job[w].pc \in {"applied", "finished"} /\ Fault("unmarked")
  /\ job' = [job EXCEPT ![w] = Idle] /\ batch' = [batch EXCEPT ![w] = {}]
  /\ lock' = IF lock = w THEN "free" ELSE lock
  /\ UNCHANGED <<database, request, table, record, node, kicks, missed>>

(* MarkOperationRetrying and MarkOperationFailed look only at the id.  A   *)
(* retry blocks the rest of the pass, a permanent error does not.          *)
RecordFailure(w) ==
  /\ job[w].pc = "failing"
  /\ \/ /\ ops' = WithStatus(ops, {job[w].row}, "retrying")
        /\ batch' = [batch EXCEPT ![w] = {}] /\ UNCHANGED faults
     \/ /\ "permanent" \in FaultKinds
        /\ ops' = WithStatus(ops, {job[w].row}, "failed")
        /\ UNCHANGED <<batch, faults>>
     \/ /\ Fault("unmarked")
        /\ batch' = [batch EXCEPT ![w] = {}] /\ UNCHANGED ops
  /\ job' = [job EXCEPT ![w] = Idle]
  /\ UNCHANGED <<database, request, next, record, node, lock, kicks, missed>>

-----------------------------------------------------------------------------
(* Health and restarts *)

(* Health and Metrics: an answer makes the node connected whatever it was. *)
ProbeUp ==
  /\ <<status, lag>> # <<"connected", nodeLag>>
  /\ status' = "connected" /\ lag' = nodeLag
  /\ UNCHANGED <<database, request, table, node, lock, job, batch, kicks, missed, faults>>

HealthDown ==
  /\ status = "connected" /\ Fault("health")
  /\ status' = "error"
  /\ UNCHANGED <<database, request, table, lag, node, lock, job, batch, kicks, missed>>

(* The master stops; at its start it queues a sync for every node.         *)
Crash ==
  /\ Fault("crash")
  /\ job' = [w \in Workers |-> Idle] /\ batch' = [w \in Workers |-> {}]
  /\ lock' = "free" /\ kicks' = {} /\ request' = TRUE
  /\ UNCHANGED <<database, table, record, node, missed>>

Step(w) ==
  \/ ClaimRow(w) \/ LockAndBuild(w) \/ ApplyOk(w) \/ FinishRuntime(w)
  \/ CloseRows(w) \/ RecordFailure(w)
CtlStep == StartSync \/ StartConnect \/ SetConnecting \/ CtlReadSuperseded \/ CtlBuild

Next ==
  \/ \E u \in Users : CreateUser(u) \/ UpdateUser(u) \/ DeleteUser(u) \/ BulkUpdate(u)
  \/ \E u \in Users : ProcessRuntimeUserOperations(u)
  \/ ChangeConfig \/ QueueNodeSync
  \/ ProcessQueue \/ ReadSuperseded \/ CtlStep
  \/ \E w \in Workers : Step(w) \/ ApplyLost(w) \/ ApplyRefused(w)
  \/ \E w \in Workers : FinishFails(w) \/ CloseFails(w)
  \/ ProbeUp \/ HealthDown \/ Crash

Spec == Init /\ [][Next]_vars

-----------------------------------------------------------------------------
(* Properties *)

Stale(u) == nodeUser[u] # 0 /\ nodeUser[u] # Want(u)
Owed(u) == \E i \in RowId : /\ ops[i].user = u /\ ops[i].need = ver[u]
                            /\ Open(i) \/ ops[i].status = "failed"

(* A node that still accepts a user who was disabled, deleted or given new *)
(* credentials has a row left that says so, unless the change was          *)
(* committed while the node was not listed as connected: no interleaving   *)
(* of the two workers, of Connect, of Sync, of compaction, of a crash or   *)
(* of a lost answer closes the row of a removal the node has not seen.     *)
NoStaleAccess == \A u \in Users : Stale(u) => Owed(u) \/ u \in missed

(* The configuration a node runs never goes back: every worker builds it   *)
(* from the database after it has taken the node's mutex.                  *)
ConfigMonotone == [][nodeCfg' >= nodeCfg]_vars

(* A configuration the node does not run yet is owed to it: by a handler   *)
(* that has still to queue it or by an open row that stands for it.        *)
ConfigOwed ==
  \/ nodeCfg = cfg \/ request
  \/ \E i \in RowId : ops[i].kind = "sync" /\ ops[i].need = cfg /\ Open(i)

(* A user who is on is accepted by the node, or a row is left that will    *)
(* make it so: an older row never undoes what a newer one has done.        *)
NoLostAccess ==
  \A u \in Users : user[u] = "on" /\ nodeUser[u] = 0 => Owed(u) \/ u \in missed

(* Fairness: the poller and the kicked goroutine run until their rows are  *)
(* done; a retrying row passes its backoff and a row left running its two  *)
(* minutes; sync.Mutex does not starve a waiter; the recovery worker       *)
(* connects a node that is in error; a handler finishes.                   *)
NextPass == FetchRows({i \in Running : ~Executing(i)}, Retrying)
Recover == status # "connected" /\ StartConnect
Fairness ==
  /\ WF_vars(NextPass) /\ WF_vars(ReadSuperseded) /\ WF_vars(QueueNodeSync)
  /\ \A u \in Users : WF_vars(ProcessRuntimeUserOperations(u))
  /\ \A w \in Workers : WF_vars(Step(w)) /\ SF_vars(LockAndBuild(w))
  /\ SF_vars(Recover) /\ WF_vars(SetConnecting) /\ WF_vars(CtlReadSuperseded) /\ WF_vars(CtlBuild)
FairSpec == Spec /\ Fairness

GivenUp(u) == \E i \in RowId : /\ ops[i].user = u /\ ops[i].need = ver[u]
                               /\ ops[i].status = "failed"

(* A node that accepts a user it should not stops accepting him, whatever  *)
(* calls are refused or lost on the way, unless the change was committed   *)
(* while the node was not listed as connected or its row failed for good.  *)
AccessEnds ==
  \A u \in Users : Stale(u) ~> (~Stale(u) \/ u \in missed \/ GivenUp(u))

(* A node that lags behind the revision asked of it catches up: the call   *)
(* whose answer was lost is made again, by the row or by the lag itself.   *)
LagEnds == lag ~> ~lag
=============================================================================
