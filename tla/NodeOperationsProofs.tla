------------------------ MODULE NodeOperationsProofs ------------------------
(***************************************************************************)
(* Theorems about NodeOperations, for every number of users, of rows, of   *)
(* changes and of faults.                                                  *)
(***************************************************************************)
EXTENDS NodeOperationsAccess, TLAPS

-----------------------------------------------------------------------------
(* The inductive invariant *)

(* Rows of users and rows of syncs are told apart by the user; a row that  *)
(* is not used yet lies at next or after it.                               *)
RowShape == \A i \in RowId :
  /\ ops[i].kind = "sync" <=> ops[i].user = NoUser
  /\ ops[i].status = "free" => ops[i].user = NoUser
  /\ i >= next => ops[i].status = "free"

(* Where a worker may be, what it knows of the table and when it holds the *)
(* mutex.                                                                  *)
InProgram(w) ==
  /\ w = "ctl" => job[w].pc \notin {"claimed", "waiting", "failing"}
  /\ w # "ctl" => job[w].pc \notin {"queued", "locked", "reading"}
  /\ w # "ctl" /\ job[w].pc # "idle" => job[w].row \in RowId /\ ops[job[w].row].status # "free"
  /\ \A i \in job[w].super : ops[i].status # "free"
  /\ job[w].pc \in {"queued", "locked", "reading", "built", "applied"} => lock = w
  /\ w = "ctl" /\ job[w].pc = "finished" => lock = w
  /\ job[w].pc \in {"idle", "claimed", "waiting", "queued", "locked", "reading"} => ~job[w].full
  /\ w = "ctl" \/ "targeted" \notin Delta => (job[w].pc = "built" => job[w].full)
Programs == \A w \in Workers : InProgram(w)

Latest(i, u) == ops[i].user = u /\ ops[i].need = ver[u]

(* What a node should not have of a user: credentials that are not his now *)
(* and, where it takes whole configurations, nothing while he is on.  A    *)
(* delta may leave a user out for a while.                                 *)
Amiss(u, v) == v # Want(u) /\ (v # 0 \/ "targeted" \notin Delta)
Wrong(u) == Amiss(u, nodeUser[u])
BuiltWrong(w, u) == u \in job[w].touch /\ Amiss(u, job[w].users[u])
NoWrongAccess == \A u \in Users : Wrong(u) => Owed(u) \/ u \in missed

NeedBounded == \A i \in RowId, u \in Users : ops[i].user = u => ops[i].need <= ver[u]

(* The row of the last change asks for what the user is now. *)
KindMatches == "targeted" \in Delta =>
  \A i \in RowId, u \in Users : Latest(i, u) /\ ops[i].kind \in AddKinds => user[u] = "on"

(* Whoever will close the row of a user's last change carries that change. *)
Carried == \A w \in Workers : job[w].pc = "built" =>
  \A i \in Closing(w), u \in Users : Latest(i, u) => u \in job[w].touch /\ ~BuiltWrong(w, u)

(* Once it is delivered, nobody is about to put an older one in its place. *)
Delivered == \A w \in Workers : job[w].pc \in {"applied", "finished"} =>
  \A i \in Closing(w), u \in Users : Latest(i, u) =>
    /\ ~Wrong(u)
    /\ \A v \in Workers : job[v].pc = "built" => ~BuiltWrong(v, u)

(* A worker about to bring something stale to the node: a row is left too. *)
WrongInFlight == \A w \in Workers, u \in Users :
  job[w].pc = "built" /\ BuiltWrong(w, u) => Owed(u) \/ u \in missed

Shape == TypeOK /\ RowShape /\ Programs
Deliveries == NeedBounded /\ KindMatches /\ Carried /\ Delivered /\ WrongInFlight /\ NoWrongAccess

(* No configuration in flight is older than the one the node runs. *)
CfgInv ==
  /\ nodeCfg <= cfg
  /\ \A w \in Workers : job[w].pc = "built" /\ job[w].full =>
       nodeCfg <= job[w].cfg /\ job[w].cfg <= cfg

-----------------------------------------------------------------------------
(* The table *)

(* Setting the status of some rows changes nothing else of the table.      *)
LEMMA WithStatusRows ==
  ASSUME NEW q \in [RowId -> Row], NEW S, NEW s \in RowStatus
  PROVE  /\ WithStatus(q, S, s) \in [RowId -> Row]
         /\ \A i \in RowId : /\ WithStatus(q, S, s)[i].kind = q[i].kind
                             /\ WithStatus(q, S, s)[i].user = q[i].user
                             /\ WithStatus(q, S, s)[i].need = q[i].need
                             /\ WithStatus(q, S, s)[i].status = IF i \in S THEN s ELSE q[i].status
  BY DEF WithStatus, Row

LEMMA PendingRow ==
  ASSUME NEW kind \in Kinds, NEW u \in Users \cup {NoUser}, NEW n \in Nat
  PROVE  Pending(kind, u, n) \in Row
  BY DEF Pending, Row, RowStatus

(* What QueueSyncConfig does to a table: a waiting sync is kept or a row   *)
(* is added at next; rows of users are left as they were.                  *)
SyncQueued(q) ==
  /\ ops' \in [RowId -> Row] /\ next' \in 1..(MaxRows + 1)
  /\ \A i \in RowId :
       \/ ops'[i] = q[i]
       \/ /\ q[i].kind = "sync" /\ ops'[i].kind = "sync" /\ ops'[i].user = q[i].user
          /\ q[i].status # "free" /\ ops'[i].status # "free"
       \/ i = next /\ next' = next + 1 /\ ops'[i] = Pending("sync", NoUser, cfg)
  /\ next' = next \/ next' = next + 1

LEMMA QueueSyncRows ==
  ASSUME NEW q \in [RowId -> Row], next \in 1..(MaxRows + 1), cfg \in Nat, QueueSync(q)
  PROVE  SyncQueued(q)
<1>0. MaxRows \in Nat
  BY NodeOperationsAssumption
<1>1. CASE /\ WaitingSyncs(q) = {} /\ next <= MaxRows
           /\ ops' = [q EXCEPT ![next] = Pending("sync", NoUser, cfg)]
           /\ next' = next + 1
  <2>1. Pending("sync", NoUser, cfg) \in Row
    BY PendingRow DEF Kinds
  <2>. QED
    BY <1>0, <1>1, <2>1 DEF RowId, SyncQueued
<1>2. ASSUME NEW keep \in WaitingSyncs(q),
             ops' = [WithStatus(q, WaitingSyncs(q) \ {keep}, "done") EXCEPT ![keep].need = cfg],
             UNCHANGED next
      PROVE  SyncQueued(q)
  <2>. DEFINE closed == WithStatus(q, WaitingSyncs(q) \ {keep}, "done")
  <2>1. closed \in [RowId -> Row]
    BY WithStatusRows DEF RowStatus
  <2>2. \A i \in RowId : /\ closed[i].kind = q[i].kind /\ closed[i].user = q[i].user
                         /\ closed[i].need = q[i].need
                         /\ closed[i].status = IF i \in WaitingSyncs(q) \ {keep}
                                               THEN "done" ELSE q[i].status
    BY WithStatusRows DEF RowStatus
  <2>3. ops' \in [RowId -> Row]
    BY <1>2, <2>1 DEF Row
  <2>4. ASSUME NEW i \in RowId, i \in WaitingSyncs(q)
        PROVE  /\ q[i].kind = "sync" /\ ops'[i].kind = "sync" /\ ops'[i].user = q[i].user
               /\ q[i].status # "free" /\ ops'[i].status # "free"
    BY <1>2, <2>1, <2>2, <2>4 DEF WaitingSyncs, Row
  <2>5. ASSUME NEW i \in RowId, i \notin WaitingSyncs(q) PROVE ops'[i] = q[i]
    <3>1. closed[i] = q[i]
      BY <2>5 DEF WithStatus
    <3>2. ops' = [closed EXCEPT ![keep].need = cfg] /\ i # keep
      BY <1>2, <2>5
    <3>. HIDE DEF closed
    <3>. QED
      BY <2>1, <3>1, <3>2
  <2>. QED
    BY <1>2, <2>3, <2>4, <2>5 DEF SyncQueued
<1>. QED
  BY <1>1, <1>2 DEF QueueSync

-----------------------------------------------------------------------------
(* Types *)

LEMMA WantVersion == ASSUME TypeOK, NEW u \in Users PROVE Want(u) \in Nat
  BY DEF TypeOK, Want

LEMMA IdleJob == Idle \in Job
  BY DEF Idle, Job, Pc, RowId

(* A worker moves on: its other fields stay. *)
LEMMA JobMoves ==
  ASSUME NEW j \in Job, NEW pc \in Pc
  PROVE  [j EXCEPT !.pc = pc] \in Job
  BY DEF Job

LEMMA FullConfigJob == ASSUME TypeOK, NEW j \in Job PROVE FullConfig(j) \in Job
<1>1. [u \in Users |-> Want(u)] \in [Users -> Nat]
  BY WantVersion
<1>. QED
  BY <1>1 DEF TypeOK, FullConfig, Job, Pc

LEMMA OneUserJob ==
  ASSUME NEW j \in Job, NEW u \in Users, NEW n \in Nat PROVE OneUser(j, u, n) \in Job
  BY DEF OneUser, Job, Pc

LEMMA JobUpdate ==
  ASSUME job \in [Workers -> Job], NEW w \in Workers, NEW j \in Job, job' = [job EXCEPT ![w] = j]
  PROVE  job' \in [Workers -> Job]
  OBVIOUS

LEMMA CommitType ==
  ASSUME TypeOK, NEW u \in Users, NEW to \in {"on", "off", "deleted"}, NEW kind \in UserKinds,
         Commit(u, to, kind)
  PROVE  TypeOK'
<1>1. ops' \in [RowId -> Row] /\ next' \in 1..(MaxRows + 1)
  <2>1. CASE UNCHANGED table
    BY <2>1 DEF TypeOK, table
  <2>2. CASE /\ next <= MaxRows /\ next' = next + 1
             /\ ops' = [WithStatus(ops, CompactedRows(u), "done")
                          EXCEPT ![next] = Pending(kind, u, ver[u] + 1)]
    <3>1. Pending(kind, u, ver[u] + 1) \in Row
      BY PendingRow DEF TypeOK, Kinds
    <3>2. WithStatus(ops, CompactedRows(u), "done") \in [RowId -> Row]
      BY WithStatusRows DEF TypeOK, RowStatus
    <3>3. MaxRows \in Nat /\ next \in 1..(MaxRows + 1)
      BY NodeOperationsAssumption DEF TypeOK
    <3>4. ops' \in [RowId -> Row]
      BY <2>2, <3>1, <3>2
    <3>5. next' \in 1..(MaxRows + 1)
      BY <2>2, <3>3
    <3>. QED
      BY <3>4, <3>5
  <2>. QED
    BY <2>1, <2>2 DEF Commit
<1>2. missed' \subseteq Users /\ kicks' \subseteq Users
  BY DEF Commit, TypeOK
<1>. QED
  BY <1>1, <1>2 DEF Commit, TypeOK, record, node

LEMMA EffectType ==
  ASSUME TypeOK, NEW w \in Workers, TakeEffect(w)
  PROVE  /\ nodeCfg' \in Nat /\ nodeUser' \in [Users -> Nat] /\ missed' \subseteq Users
         /\ lag' \in BOOLEAN /\ nodeLag' \in BOOLEAN
<1>1. job[w].cfg \in Nat /\ job[w].users \in [Users -> Nat]
  <2>1. job[w] \in Job
    BY DEF TypeOK
  <2>. QED
    BY <2>1 DEF Job
<1>2. nodeCfg' \in Nat /\ nodeUser' \in [Users -> Nat] /\ missed' \subseteq Users
  BY <1>1 DEF TypeOK, TakeEffect
<1>3. lag' \in BOOLEAN /\ nodeLag' \in BOOLEAN
  BY DEF TypeOK, TakeEffect
<1>. QED
  BY <1>2, <1>3

LEMMA BreakOffType ==
  ASSUME TypeOK, NEW w \in Workers, BreakOff(w)
  PROVE  /\ nodeCfg' \in Nat /\ nodeUser' \in [Users -> Nat] /\ missed' \subseteq Users
         /\ lag' \in BOOLEAN /\ nodeLag' \in BOOLEAN
  BY DEF TypeOK, BreakOff

LEMMA FailType ==
  ASSUME TypeOK, NEW w \in Workers, NEW S \in SUBSET {"connected", "connecting", "error"}, Fail(w, S)
  PROVE  job' \in [Workers -> Job] /\ lock' = "free" /\ status' \in {"connected", "connecting", "error"}
<1>1. [job[w] EXCEPT !.pc = "failing"] \in Job
  BY JobMoves DEF TypeOK, Pc
<1>2. job' = [job EXCEPT ![w] = Idle] \/ job' = [job EXCEPT ![w] = [job[w] EXCEPT !.pc = "failing"]]
  BY DEF Fail
<1>3. job' \in [Workers -> Job]
  BY <1>1, <1>2, IdleJob DEF TypeOK
<1>. QED
  BY <1>3 DEF Fail, TypeOK

(* Every variable keeps its type: ids stay within the table and workers    *)
(* within their programs, whatever the faults.                             *)
LEMMA TypeStep == Shape /\ [Next]_vars => TypeOK'
<1> SUFFICES ASSUME TypeOK, RowShape, Programs, [Next]_vars PROVE TypeOK'
  BY DEF Shape
<1>1. ASSUME NEW u \in Users, CreateUser(u) \/ UpdateUser(u) \/ DeleteUser(u) \/ BulkUpdate(u)
      PROVE  TypeOK'
  BY <1>1, CommitType DEF CreateUser, UpdateUser, DeleteUser, BulkUpdate,
                          OperationForStatusChange, UserKinds
<1>2. ASSUME NEW u \in Users, ProcessRuntimeUserOperations(u) PROVE TypeOK'
  BY <1>2 DEF ProcessRuntimeUserOperations, TypeOK, database, table, record, node, Workers
<1>3. CASE ChangeConfig
  BY <1>3 DEF ChangeConfig, TypeOK, table, record, node
<1>4. CASE QueueNodeSync
  <2>1. ops' \in [RowId -> Row] /\ next' \in 1..(MaxRows + 1)
    BY <1>4, QueueSyncRows DEF QueueNodeSync, TypeOK, table, SyncQueued
  <2>. QED
    BY <1>4, <2>1 DEF QueueNodeSync, TypeOK, database, record, node
<1>5. ASSUME NEW stale \in SUBSET Running, NEW ready \in SUBSET Retrying, FetchRows(stale, ready)
      PROVE  TypeOK'
  <2>. DEFINE recovered == WithStatus(ops, stale, "retrying")
  <2>1. recovered \in [RowId -> Row]
    BY WithStatusRows DEF TypeOK, RowStatus
  <2>2. QueueSync(recovered) \/ (ops' = recovered /\ UNCHANGED next)
    BY <1>5 DEF FetchRows, Recovered, Lagging
  <2>. HIDE DEF recovered
  <2>3. ops' \in [RowId -> Row] /\ next' \in 1..(MaxRows + 1)
    BY <2>1, <2>2, QueueSyncRows DEF TypeOK, SyncQueued
  <2>4. batch' \in [Workers -> SUBSET RowId]
    <3>. DEFINE lagging == status = "connected" /\ lag /\ ~ \E i \in RowId : ops[i].kind = "sync" /\ Open(i)
    <3>1. CASE lagging
      <4>1. WaitingSyncs(recovered) = {}
        <5>1. \A i \in RowId : /\ recovered[i].kind = ops[i].kind
                               /\ recovered[i].status = IF i \in stale THEN "retrying" ELSE ops[i].status
          BY WithStatusRows DEF TypeOK, RowStatus, recovered
        <5>. QED
          BY <3>1, <5>1 DEF WaitingSyncs, Open, OpenStatus, Running
      <4>2. QueueSync(recovered)
        BY <1>5, <3>1 DEF FetchRows, Recovered, Lagging, recovered
      <4>3. next <= MaxRows
        BY <4>1, <4>2 DEF QueueSync
      <4>4. next \in RowId
        BY <4>3, NodeOperationsAssumption DEF RowId, TypeOK
      <4>. QED
        BY <1>5, <3>1, <4>4 DEF FetchRows, Recovered, Lagging, TypeOK, Retrying
    <3>2. CASE ~lagging
      BY <1>5, <3>2 DEF FetchRows, Recovered, Lagging, TypeOK, Retrying
    <3>. QED
      BY <3>1, <3>2
  <2>5. faults' \in Nat
    BY <1>5 DEF FetchRows, Recovered, Lagging, TypeOK, Fault
  <2>. QED
    BY <1>5, <2>3, <2>4, <2>5 DEF FetchRows, Recovered, Lagging, TypeOK, database, record, node
<1>6. ASSUME NEW w \in Workers, ClaimRow(w) PROVE TypeOK'
  <2>. PICK i \in batch[w] :
         /\ batch' = [batch EXCEPT ![w] = @ \ {i}]
         /\ \/ /\ ops' = [ops EXCEPT ![i].status = "running"]
               /\ job' = [job EXCEPT ![w] = Claimed(i)]
            \/ UNCHANGED <<ops, job>>
    BY <1>6 DEF ClaimRow
  <2>1. i \in RowId /\ i \in Nat
    BY DEF TypeOK, RowId
  <2>2. ops' \in [RowId -> Row]
    BY <2>1 DEF TypeOK, Row, RowStatus
  <2>3. Claimed(i) \in Job
    BY <2>1, IdleJob DEF Claimed, Job, Pc
  <2>5. job' \in [Workers -> Job]
    BY <2>3 DEF TypeOK
  <2>4. batch' \in [Workers -> SUBSET RowId]
    BY DEF TypeOK
  <2>. QED
    BY <1>6, <2>2, <2>4, <2>5 DEF ClaimRow, TypeOK, database, record, node
<1>7. CASE ReadSuperseded
  <2>1. Superseded(job["queue"].row) \in SUBSET RowId /\ job["queue"] \in Job
    BY DEF Superseded, TypeOK, Workers
  <2>2. [job["queue"] EXCEPT !.pc = "waiting", !.super = Superseded(job["queue"].row)] \in Job
    BY <2>1 DEF Job, Pc
  <2>3. job' \in [Workers -> Job]
    BY <1>7, <2>2 DEF ReadSuperseded, TypeOK
  <2>. QED
    BY <1>7, <2>3 DEF ReadSuperseded, TypeOK, database, table, record, node
<1>8. ASSUME NEW w \in Workers, LockAndBuild(w) PROVE TypeOK'
  <2>. DEFINE r == ops[job[w].row]
  <2>1. job[w].row \in RowId /\ job[w] \in Job
    BY <1>8 DEF LockAndBuild, MutexFree, Targeted, Programs, InProgram, TypeOK, Workers
  <2>2. r.kind # "sync" => r.user \in Users
    <3>1. r \in Row
      BY <2>1 DEF TypeOK
    <3>. QED
      BY <2>1, <3>1 DEF RowShape, Row
  <2>3. ver \in [Users -> Nat]
    BY DEF TypeOK
  <2>4. lock' \in Workers \cup {"free"}
    BY <1>8 DEF LockAndBuild, MutexFree, Targeted, TypeOK
  <2>5. job' \in [Workers -> Job]
    <3>1. CASE job' = [job EXCEPT ![w] = FullConfig(job[w])]
      <4>1. FullConfig(job[w]) \in Job
        BY <2>1, FullConfigJob
      <4>. QED
        BY <3>1, <4>1 DEF TypeOK
    <3>2. CASE job' = [job EXCEPT ![w] = [job[w] EXCEPT !.pc = "finished"]]
      <4>1. [job[w] EXCEPT !.pc = "finished"] \in Job
        BY <2>1, JobMoves DEF Pc
      <4>. QED
        BY <3>2, <4>1 DEF TypeOK
    <3>3. ASSUME NEW n \in Nat, r.kind # "sync", job' = [job EXCEPT ![w] = OneUser(job[w], r.user, n)]
          PROVE  job' \in [Workers -> Job]
      <4>1. OneUser(job[w], r.user, n) \in Job
        BY <2>1, <2>2, <3>3, OneUserJob
      <4>. QED
        BY <3>3, <4>1 DEF TypeOK
    <3>4. r.kind # "sync" => (IF r.kind \in AddKinds THEN ver[r.user] ELSE 0) \in Nat
      BY <2>2, <2>3
    <3>5. \/ job' = [job EXCEPT ![w] = FullConfig(job[w])]
          \/ job' = [job EXCEPT ![w] = [job[w] EXCEPT !.pc = "finished"]]
          \/ /\ r.kind # "sync"
             /\ job' = [job EXCEPT ![w] =
                  OneUser(job[w], r.user, IF r.kind \in AddKinds THEN ver[r.user] ELSE 0)]
      BY <1>8 DEF LockAndBuild, MutexFree, Targeted
    <3>. HIDE DEF r
    <3>. QED
      BY <3>1, <3>2, <3>3, <3>4, <3>5
  <2>. QED
    BY <1>8, <2>4, <2>5 DEF LockAndBuild, MutexFree, Targeted, TypeOK, database, table, record, node
<1>9. CASE StartConnect \/ StartSync
  <2>1. ops' \in [RowId -> Row] /\ next' \in 1..(MaxRows + 1)
    BY <1>9, QueueSyncRows DEF StartConnect, MutexFree, StartSync, TypeOK, SyncQueued
  <2>2. job' \in [Workers -> Job]
    <3>1. [job["ctl"] EXCEPT !.pc = "locked"] \in Job /\ [job["ctl"] EXCEPT !.pc = "queued"] \in Job
      BY JobMoves DEF TypeOK, Workers, Pc
    <3>2. \/ job' = [job EXCEPT !["ctl"] = [job["ctl"] EXCEPT !.pc = "locked"]]
          \/ job' = [job EXCEPT !["ctl"] = [job["ctl"] EXCEPT !.pc = "queued"]]
      BY <1>9 DEF StartConnect, MutexFree, StartSync
    <3>. QED
      BY <3>1, <3>2 DEF TypeOK
  <2>. QED
    BY <1>9, <2>1, <2>2 DEF StartConnect, MutexFree, StartSync, TypeOK, database, record, node, Workers
<1>24. CASE SetConnecting
  <2>1. [job["ctl"] EXCEPT !.pc = "locked"] \in Job
    BY JobMoves DEF TypeOK, Workers, Pc
  <2>2. job' = [job EXCEPT !["ctl"] = [job["ctl"] EXCEPT !.pc = "locked"]]
    BY <1>24 DEF SetConnecting
  <2>3. job' \in [Workers -> Job]
    BY <2>1, <2>2 DEF TypeOK
  <2>. QED
    BY <1>24, <2>3 DEF SetConnecting, TypeOK, database, table, node
<1>10. CASE CtlReadSuperseded
  <2>1. Superseded(MaxRows) \in SUBSET RowId /\ job["ctl"] \in Job
    BY DEF Superseded, TypeOK, Workers
  <2>2. [job["ctl"] EXCEPT !.pc = "reading", !.super = Superseded(MaxRows)] \in Job
    BY <2>1 DEF Job, Pc
  <2>3. job' \in [Workers -> Job]
    BY <1>10, <2>2 DEF CtlReadSuperseded, TypeOK
  <2>. QED
    BY <1>10, <2>3 DEF CtlReadSuperseded, TypeOK, database, table, record, node
<1>11. CASE CtlBuild
  <2>1. job' \in [Workers -> Job]
    <3>1. job["ctl"] \in Job
      BY DEF TypeOK, Workers
    <3>2. FullConfig(job["ctl"]) \in Job
      BY <3>1, FullConfigJob
    <3>. QED
      BY <1>11, <3>2 DEF CtlBuild, TypeOK
  <2>. QED
    BY <1>11, <2>1 DEF CtlBuild, TypeOK, database, table, record, node
<1>12. ASSUME NEW w \in Workers, ApplyOk(w) PROVE TypeOK'
  <2>1. nodeCfg' \in Nat /\ nodeUser' \in [Users -> Nat] /\ missed' \subseteq Users
        /\ lag' \in BOOLEAN /\ nodeLag' \in BOOLEAN
    BY <1>12, EffectType DEF ApplyOk
  <2>2. job' \in [Workers -> Job] /\ lock' \in Workers \cup {"free"}
    <3>1. [job[w] EXCEPT !.pc = "applied"] \in Job /\ [job[w] EXCEPT !.pc = "finished"] \in Job
      BY JobMoves DEF TypeOK, Pc
    <3>2. \/ job' = [job EXCEPT ![w] = [job[w] EXCEPT !.pc = "applied"]]
          \/ job' = [job EXCEPT ![w] = [job[w] EXCEPT !.pc = "finished"]]
      BY <1>12 DEF ApplyOk
    <3>3. job' \in [Workers -> Job]
      BY <3>1, <3>2 DEF TypeOK
    <3>. QED
      BY <1>12, <3>3 DEF ApplyOk, TypeOK
  <2>. QED
    BY <1>12, <2>1, <2>2 DEF ApplyOk, TypeOK, database, table
<1>13. ASSUME NEW w \in Workers, ApplyLost(w) PROVE TypeOK'
  <2>1. nodeCfg' \in Nat /\ nodeUser' \in [Users -> Nat] /\ missed' \subseteq Users
        /\ lag' \in BOOLEAN /\ nodeLag' \in BOOLEAN
    BY <1>13, EffectType, BreakOffType DEF ApplyLost
  <2>2. job' \in [Workers -> Job] /\ lock' = "free" /\ status' \in {"connected", "connecting", "error"}
    BY <1>13, FailType DEF ApplyLost
  <2>3. faults' \in Nat
    BY <1>13 DEF ApplyLost, Fault, TypeOK
  <2>. QED
    BY <1>13, <2>1, <2>2, <2>3 DEF ApplyLost, TypeOK, database, table
<1>14. ASSUME NEW w \in Workers, ApplyRefused(w) PROVE TypeOK'
  <2>1. job' \in [Workers -> Job] /\ lock' = "free" /\ status' \in {"connected", "connecting", "error"}
    <3>1. {"error", status} \subseteq {"connected", "connecting", "error"} /\ Fail(w, {"error", status})
      BY <1>14 DEF ApplyRefused, TypeOK
    <3>. QED
      BY <3>1, FailType
  <2>2. faults' \in Nat
    BY <1>14 DEF ApplyRefused, Fault, TypeOK
  <2>3. lag' \in BOOLEAN /\ nodeLag' \in BOOLEAN
    BY <1>14 DEF ApplyRefused, TypeOK
  <2>. QED
    BY <1>14, <2>1, <2>2, <2>3 DEF ApplyRefused, TypeOK, database, table
<1>15. ASSUME NEW w \in Workers, FinishRuntime(w) PROVE TypeOK'
  <2>1. job' \in [Workers -> Job]
    <3>1. [job[w] EXCEPT !.pc = "finished"] \in Job
      BY JobMoves DEF TypeOK, Pc
    <3>2. job' = [job EXCEPT ![w] = [job[w] EXCEPT !.pc = "finished"]]
      BY <1>15 DEF FinishRuntime
    <3>. QED
      BY <3>1, <3>2 DEF TypeOK
  <2>. QED
    BY <1>15, <2>1 DEF FinishRuntime, TypeOK, database, table, record, node
<1>16. ASSUME NEW w \in Workers, CloseRows(w) PROVE TypeOK'
  <2>1. ops' \in [RowId -> Row]
    BY <1>16, WithStatusRows DEF CloseRows, TypeOK, RowStatus
  <2>2. job' \in [Workers -> Job]
    BY <1>16, IdleJob DEF CloseRows, TypeOK
  <2>. QED
    BY <1>16, <2>1, <2>2 DEF CloseRows, TypeOK, database, record, node
<1>17. ASSUME NEW w \in Workers, CloseFails(w) PROVE TypeOK'
  <2>1. job' \in [Workers -> Job] /\ batch' \in [Workers -> SUBSET RowId]
    BY <1>17, IdleJob DEF CloseFails, TypeOK
  <2>. QED
    BY <1>17, <2>1 DEF CloseFails, TypeOK, database, table, record, node, Fault
<1>23. ASSUME NEW w \in Workers, FinishFails(w) PROVE TypeOK'
  <2>1. job' \in [Workers -> Job]
    <3>1. [job[w] EXCEPT !.pc = "failing"] \in Job
      BY JobMoves DEF TypeOK, Pc
    <3>2. job' = [job EXCEPT ![w] = Idle] \/ job' = [job EXCEPT ![w] = [job[w] EXCEPT !.pc = "failing"]]
      BY <1>23 DEF FinishFails
    <3>. QED
      BY <3>1, <3>2, IdleJob DEF TypeOK
  <2>2. faults' \in Nat /\ lag' \in BOOLEAN /\ status' \in {"connected", "connecting", "error"}
    BY <1>23 DEF FinishFails, Fault, TypeOK
  <2>. QED
    BY <1>23, <2>1, <2>2 DEF FinishFails, TypeOK, database, table, node
<1>18. ASSUME NEW w \in Workers, RecordFailure(w) PROVE TypeOK'
  <2>1. ops' \in [RowId -> Row]
    BY <1>18, WithStatusRows DEF RecordFailure, TypeOK, RowStatus
  <2>2. job' \in [Workers -> Job] /\ batch' \in [Workers -> SUBSET RowId]
    BY <1>18, IdleJob DEF RecordFailure, TypeOK
  <2>3. faults' \in Nat
    BY <1>18 DEF RecordFailure, TypeOK, Fault
  <2>. QED
    BY <1>18, <2>1, <2>2, <2>3 DEF RecordFailure, TypeOK, database, record, node
<1>19. CASE ProbeUp
  BY <1>19 DEF ProbeUp, TypeOK, database, table, node
<1>20. CASE HealthDown
  BY <1>20 DEF HealthDown, TypeOK, database, table, node, Fault
<1>21. CASE Crash
  <2>1. job' \in [Workers -> Job] /\ batch' \in [Workers -> SUBSET RowId]
    BY <1>21, IdleJob DEF Crash
  <2>. QED
    BY <1>21, <2>1 DEF Crash, TypeOK, database, table, record, node, Fault
<1>22. CASE UNCHANGED vars
  BY <1>22 DEF vars, TypeOK, database, table, record, node
<1>. QED
  BY <1>1, <1>2, <1>3, <1>4, <1>5, <1>6, <1>7, <1>8, <1>9, <1>10, <1>11, <1>12, <1>13, <1>14,
     <1>15, <1>16, <1>17, <1>18, <1>19, <1>20, <1>21, <1>22, <1>23, <1>24
     DEF Next, Step, CtlStep, ProcessQueue
-----------------------------------------------------------------------------
(* The shape of the table and of the workers *)

(* The rows stay what they are ... *)
RowsKept ==
  /\ \A i \in RowId :
       /\ ops'[i].kind = ops[i].kind /\ ops'[i].user = ops[i].user
       /\ ops[i].user # NoUser => ops'[i].need = ops[i].need
       /\ ops[i].status # "free" => ops'[i].status # "free"
       /\ i >= next' => ops'[i].status = "free"

(* ... and none of a user is closed. *)
NoneClosed ==
  \A i \in RowId : ops[i].user # NoUser /\ (Open(i) \/ ops[i].status = "failed")
                     => ops'[i].status \in OpenStatus \cup {"failed"}

LEMMA RowShapeKept == ASSUME RowShape, RowsKept PROVE RowShape'
  BY DEF RowShape, RowsKept

LEMMA SameTable == ASSUME RowShape, UNCHANGED <<ops, next>> PROVE RowsKept /\ NoneClosed
  BY DEF RowShape, RowsKept, NoneClosed, Open

LEMMA WithStatusKept ==
  ASSUME TypeOK, RowShape, NEW S, NEW s \in RowStatus \ {"free"},
         \A i \in S \cap RowId : ops[i].status # "free",
         ops' = WithStatus(ops, S, s), next' = next
  PROVE  RowsKept /\ (s # "done" => NoneClosed)
<1>1. \A i \in RowId : /\ ops'[i].kind = ops[i].kind /\ ops'[i].user = ops[i].user
                        /\ ops'[i].need = ops[i].need
                        /\ ops'[i].status = IF i \in S THEN s ELSE ops[i].status
  BY WithStatusRows DEF TypeOK
<1>2. RowsKept
  BY <1>1 DEF RowsKept, RowShape
<1>3. s # "done" => NoneClosed
  BY <1>1 DEF NoneClosed, Open, OpenStatus, RowStatus
<1>. QED
  BY <1>2, <1>3

(* Rows left running are set to retrying; then a sync may be queued. *)
LEMMA SyncKept ==
  ASSUME TypeOK, RowShape, NEW S \in SUBSET Running,
         LET q == WithStatus(ops, S, "retrying")
         IN  QueueSync(q) \/ (ops' = q /\ UNCHANGED next)
  PROVE  RowsKept /\ NoneClosed
<1>. DEFINE q == WithStatus(ops, S, "retrying")
<1>1. /\ q \in [RowId -> Row]
      /\ \A i \in RowId : /\ q[i].kind = ops[i].kind /\ q[i].user = ops[i].user
                           /\ q[i].need = ops[i].need
                           /\ q[i].status = IF i \in S THEN "retrying" ELSE ops[i].status
  BY WithStatusRows DEF TypeOK, RowStatus
<1>2. CASE ops' = q /\ UNCHANGED next
  <2>1. \A i \in S \cap RowId : ops[i].status # "free"
    BY DEF Running
  <2>. QED
    BY <1>2, <2>1, WithStatusKept DEF RowStatus
<1>3. CASE QueueSync(q)
  <2>. HIDE DEF q
  <2>1. SyncQueued(q)
    BY <1>1, <1>3, QueueSyncRows DEF TypeOK
  <2>2. next \in Nat /\ RowId \subseteq Nat
    BY DEF TypeOK, RowId
  <2>3. ASSUME NEW i \in RowId
        PROVE  /\ ops'[i].kind = ops[i].kind /\ ops'[i].user = ops[i].user
               /\ ops[i].user # NoUser => ops'[i].need = ops[i].need
               /\ ops[i].status # "free" => ops'[i].status # "free"
               /\ i >= next' => ops'[i].status = "free"
               /\ ops[i].user # NoUser /\ (Open(i) \/ ops[i].status = "failed")
                    => ops'[i].status \in OpenStatus \cup {"failed"}
    <3>1. CASE ops'[i] = q[i]
      <4>1. i >= next' => ops'[i].status = "free"
        BY <1>1, <2>1, <2>2, <3>1 DEF SyncQueued, RowShape, Running
      <4>. QED
        BY <1>1, <3>1, <4>1 DEF Open, OpenStatus
    <3>2. CASE /\ q[i].kind = "sync" /\ ops'[i].kind = "sync" /\ ops'[i].user = q[i].user
               /\ q[i].status # "free" /\ ops'[i].status # "free"
      <4>1. ops[i].kind = "sync" /\ ops[i].user = NoUser
        BY <1>1, <3>2 DEF RowShape
      <4>2. ~ i >= next'
        BY <1>1, <2>1, <2>2, <3>2 DEF SyncQueued, RowShape, Running
      <4>. QED
        BY <1>1, <3>2, <4>1, <4>2
    <3>3. CASE i = next /\ next' = next + 1 /\ ops'[i] = Pending("sync", NoUser, cfg)
      <4>1. ops[i].status = "free" /\ ops[i].user = NoUser /\ ops[i].kind = "sync"
        BY <2>2, <3>3 DEF RowShape
      <4>2. ops'[i].kind = "sync" /\ ops'[i].user = NoUser /\ ops'[i].status = "pending"
        BY <3>3 DEF Pending
      <4>. QED
        BY <2>2, <3>3, <4>1, <4>2
    <3>. QED
      BY <2>1, <3>1, <3>2, <3>3 DEF SyncQueued
  <2>. QED
    BY <2>3 DEF RowsKept, NoneClosed
<1>. QED
  BY <1>2, <1>3

LEMMA QueueKept ==
  ASSUME TypeOK, RowShape, QueueSync(ops)
  PROVE  RowsKept /\ NoneClosed
<1>1. WithStatus(ops, {}, "retrying") = ops
  BY DEF WithStatus, TypeOK
<1>. QED
  BY <1>1, SyncKept

(* A committed change closes waiting rows of its user and adds one at the  *)
(* end of the table; rows of others are left as they were.                 *)
LEMMA CommitRows ==
  ASSUME TypeOK, RowShape, NEW u \in Users, NEW to, NEW kind \in UserKinds, Commit(u, to, kind)
  PROVE  \/ UNCHANGED <<ops, next>> /\ missed' = missed \cup {u}
         \/ /\ next \in RowId /\ next' = next + 1 /\ missed' = missed \ {u}
            /\ ops[next].status = "free" /\ ops'[next] = Pending(kind, u, ver[u] + 1)
            /\ \A i \in RowId \ {next} :
                 /\ ops'[i].kind = ops[i].kind /\ ops'[i].user = ops[i].user
                 /\ ops'[i].need = ops[i].need
                 /\ ops'[i].status = IF i \in CompactedRows(u) THEN "done" ELSE ops[i].status
<1>1. CASE UNCHANGED table /\ missed' = missed \cup {u}
  BY <1>1 DEF table
<1>2. CASE /\ next <= MaxRows /\ next' = next + 1 /\ missed' = missed \ {u}
           /\ ops' = [WithStatus(ops, CompactedRows(u), "done")
                        EXCEPT ![next] = Pending(kind, u, ver[u] + 1)]
  <2>. DEFINE q == WithStatus(ops, CompactedRows(u), "done")
  <2>1. /\ q \in [RowId -> Row]
        /\ \A i \in RowId : /\ q[i].kind = ops[i].kind /\ q[i].user = ops[i].user
                            /\ q[i].need = ops[i].need
                            /\ q[i].status = IF i \in CompactedRows(u) THEN "done" ELSE ops[i].status
    BY WithStatusRows DEF TypeOK, RowStatus
  <2>2. next \in RowId
    BY <1>2, NodeOperationsAssumption DEF TypeOK, RowId
  <2>3. ops[next].status = "free"
    BY <2>2 DEF RowShape, RowId
  <2>. HIDE DEF q
  <2>4. ops' = [q EXCEPT ![next] = Pending(kind, u, ver[u] + 1)]
    BY <1>2 DEF q
  <2>. QED
    BY <1>2, <2>1, <2>2, <2>3, <2>4
<1>. QED
  BY <1>1, <1>2 DEF Commit

NonFreeKept == \A i \in RowId : ops[i].status # "free" => ops'[i].status # "free"

LEMMA CommitShape ==
  ASSUME TypeOK, RowShape, NEW u \in Users, NEW to, NEW kind \in UserKinds, Commit(u, to, kind)
  PROVE  RowShape' /\ NonFreeKept
<1>1. CASE UNCHANGED <<ops, next>>
  BY <1>1 DEF RowShape, NonFreeKept
<1>2. CASE /\ next \in RowId /\ next' = next + 1
           /\ ops[next].status = "free" /\ ops'[next] = Pending(kind, u, ver[u] + 1)
           /\ \A i \in RowId \ {next} :
                /\ ops'[i].kind = ops[i].kind /\ ops'[i].user = ops[i].user
                /\ ops'[i].need = ops[i].need
                /\ ops'[i].status = IF i \in CompactedRows(u) THEN "done" ELSE ops[i].status
  <2>1. ops'[next].kind = kind /\ ops'[next].user = u /\ ops'[next].status = "pending"
    BY <1>2 DEF Pending
  <2>2. kind # "sync" /\ u # NoUser
    BY NodeOperationsAssumption DEF UserKinds
  <2>3. \A i \in CompactedRows(u) : ops[i].user = u
    BY DEF CompactedRows
  <2>4. next \in Nat /\ RowId \subseteq Nat
    BY DEF TypeOK, RowId
  <2>5. ASSUME NEW i \in RowId
        PROVE  /\ ops'[i].kind = "sync" <=> ops'[i].user = NoUser
               /\ ops'[i].status = "free" => ops'[i].user = NoUser
               /\ i >= next' => ops'[i].status = "free"
               /\ ops[i].status # "free" => ops'[i].status # "free"
    <3>1. CASE i = next
      BY <1>2, <2>1, <2>2, <2>4, <3>1
    <3>2. CASE i # next
      <4>1. i >= next' => i \notin CompactedRows(u)
        BY <1>2, <2>2, <2>3, <2>4 DEF RowShape
      <4>. QED
        BY <1>2, <2>4, <3>2, <4>1 DEF RowShape
    <3>. QED
      BY <3>1, <3>2
  <2>. QED
    BY <2>5 DEF RowShape, NonFreeKept
<1>. QED
  BY <1>1, <1>2, CommitRows

LEMMA OthersInProgram ==
  ASSUME TypeOK, NEW w \in Workers, InProgram(w), NonFreeKept, job'[w] = job[w],
         lock = w => lock' = w
  PROVE  InProgram(w)'
<1>1. job[w].super \subseteq RowId
  <2>1. job[w] \in Job
    BY DEF TypeOK
  <2>. QED
    BY <2>1 DEF Job
<1>. QED
  BY <1>1 DEF InProgram, NonFreeKept

(* When only w moves, only w is left to look at. *)
LEMMA OneInProgram ==
  ASSUME TypeOK, Programs, NonFreeKept, NEW w \in Workers,
         \A v \in Workers \ {w} : job'[v] = job[v],
         lock' = lock \/ lock \in {"free", w},
         InProgram(w)'
  PROVE  Programs'
<1>1. ASSUME NEW v \in Workers \ {w} PROVE InProgram(v)'
  <2>1. lock = v => lock' = v
    BY DEF Workers
  <2>. QED
    BY <2>1, OthersInProgram DEF Programs
<1>. QED
  BY <1>1 DEF Programs

(* Instances without the two bulk actions whose row a node ignores.        *)
BulkSafe == "targeted" \notin Delta \/ Changes \cap {"bulkDisable", "bulkCleanup"} = {}

LEMMA ChangesCommit ==
  ASSUME NEW u \in Users, CreateUser(u) \/ UpdateUser(u) \/ DeleteUser(u) \/ BulkUpdate(u)
  PROVE  \E to \in {"on", "off", "deleted"}, kind \in UserKinds :
           /\ Commit(u, to, kind)
           /\ BulkSafe /\ "targeted" \in Delta /\ kind \in AddKinds => to = "on"
<1>1. CASE CreateUser(u)
  BY <1>1 DEF CreateUser, UserKinds
<1>2. CASE UpdateUser(u)
  <2>1. PICK to \in {"on", "off"} : /\ "on" \in {user[u], to}
                                   /\ Commit(u, to, OperationForStatusChange(user[u], to))
    BY <1>2 DEF UpdateUser
  <2>2. /\ OperationForStatusChange(user[u], to) \in UserKinds
        /\ OperationForStatusChange(user[u], to) \in AddKinds => to = "on"
    BY <2>1 DEF OperationForStatusChange, UserKinds, AddKinds
  <2>. QED
    BY <2>1, <2>2
<1>3. CASE DeleteUser(u)
  BY <1>3 DEF DeleteUser, UserKinds, AddKinds
<1>4. CASE BulkUpdate(u)
  <2>1. CASE "bulkActivate" \in Changes /\ Commit(u, "on", "update")
    BY <2>1 DEF UserKinds
  <2>2. CASE "bulkDisable" \in Changes /\ Commit(u, "off", "update")
    BY <2>2 DEF UserKinds, BulkSafe
  <2>3. CASE "bulkCleanup" \in Changes /\ Commit(u, "deleted", "update")
    BY <2>3 DEF UserKinds, BulkSafe
  <2>. QED
    BY <1>4, <2>1, <2>2, <2>3 DEF BulkUpdate
<1>. QED
  BY <1>1, <1>2, <1>3, <1>4

LEMMA IdleInProgram ==
  ASSUME NEW w \in Workers, job'[w] = Idle PROVE InProgram(w)'
  BY DEF InProgram, Idle

LEMMA ClosedRowsUsed ==
  ASSUME TypeOK, Programs, NEW w \in Workers, job[w].pc = "finished", NEW i \in ClosedRows(w) \cap RowId
  PROVE  i \in Closing(w) \/ (w # "ctl" /\ i = job[w].row)
  BY DEF ClosedRows, Closing

(* The invariants of the table and of the workers' programs are inductive. *)
LEMMA ShapeStep == Shape /\ [Next]_vars => Shape'
<1> SUFFICES ASSUME TypeOK, RowShape, Programs, [Next]_vars, TypeOK'
             PROVE  RowShape' /\ Programs'
  BY TypeStep DEF Shape
<1>0. ASSUME RowsKept PROVE RowShape' /\ NonFreeKept
  BY <1>0, RowShapeKept DEF RowsKept, NonFreeKept
<1>a. UNCHANGED <<ops, next>> => RowShape' /\ NonFreeKept
  BY DEF RowShape, NonFreeKept
<1>b. ASSUME NonFreeKept, UNCHANGED <<job, lock>> PROVE Programs'
  BY <1>b, OthersInProgram DEF Programs
<1>1. ASSUME NEW u \in Users, CreateUser(u) \/ UpdateUser(u) \/ DeleteUser(u) \/ BulkUpdate(u)
      PROVE  RowShape' /\ Programs'
  <2>1. PICK to \in {"on", "off", "deleted"}, kind \in UserKinds : Commit(u, to, kind)
    BY <1>1, ChangesCommit
  <2>. QED
    BY <1>b, <2>1, CommitShape DEF Commit
<1>2. ASSUME NEW u \in Users, ProcessRuntimeUserOperations(u) PROVE RowShape' /\ Programs'
  BY <1>2, <1>a, <1>b DEF ProcessRuntimeUserOperations, table
<1>3. CASE ChangeConfig
  BY <1>3, <1>a, <1>b DEF ChangeConfig, table
<1>4. CASE QueueNodeSync
  <2>1. RowsKept
    BY <1>4, QueueKept, SameTable DEF QueueNodeSync, table
  <2>. QED
    BY <1>4, <1>0, <1>b, <2>1 DEF QueueNodeSync
<1>5. ASSUME NEW stale \in SUBSET Running, NEW ready \in SUBSET Retrying, FetchRows(stale, ready)
      PROVE  RowShape' /\ Programs'
  <2>1. RowsKept
    BY <1>5, SyncKept DEF FetchRows, Recovered, Lagging
  <2>. QED
    BY <1>5, <1>0, <1>b, <2>1 DEF FetchRows, Recovered, Lagging
<1>6. ASSUME NEW w \in Workers, ClaimRow(w) PROVE RowShape' /\ Programs'
  <2>. PICK i \in batch[w] :
         \/ /\ ops[i].status \in {"pending", "retrying"}
            /\ ops' = [ops EXCEPT ![i].status = "running"]
            /\ job' = [job EXCEPT ![w] = Claimed(i)]
         \/ UNCHANGED <<ops, job>>
    BY <1>6 DEF ClaimRow
  <2>1. CASE UNCHANGED <<ops, job>>
    BY <1>6, <1>a, <1>b, <2>1 DEF ClaimRow
  <2>2. CASE /\ ops[i].status \in {"pending", "retrying"}
             /\ ops' = [ops EXCEPT ![i].status = "running"]
             /\ job' = [job EXCEPT ![w] = Claimed(i)]
    <3>1. i \in RowId
      BY DEF TypeOK
    <3>2. RowsKept
      <4>1. ops' = WithStatus(ops, {i}, "running")
        BY <2>2, <3>1 DEF WithStatus, TypeOK
      <4>2. next' = next /\ \A k \in {i} \cap RowId : ops[k].status # "free"
        BY <1>6, <2>2 DEF ClaimRow
      <4>. QED
        BY <4>1, <4>2, WithStatusKept DEF RowStatus
    <3>3. job'[w] = Claimed(i) /\ ops'[i].status = "running" /\ w # "ctl"
      BY <1>6, <2>2, <3>1 DEF ClaimRow, TypeOK, Row
    <3>4. InProgram(w)'
      BY <3>1, <3>3 DEF InProgram, Claimed, Idle
    <3>5. \A v \in Workers \ {w} : job'[v] = job[v]
      BY <2>2 DEF TypeOK
    <3>. QED
      BY <1>0, <1>6, <3>2, <3>4, <3>5, OneInProgram DEF ClaimRow
  <2>. QED
    BY <2>1, <2>2
<1>7. CASE ReadSuperseded
  <2>1. job'["queue"] = [job["queue"] EXCEPT !.pc = "waiting", !.super = Superseded(job["queue"].row)]
    BY <1>7 DEF ReadSuperseded, TypeOK, Workers
  <2>2. job["queue"] \in Job
    BY DEF TypeOK, Workers
  <2>3. InProgram("queue")'
    <3>1. InProgram("queue")
      BY DEF Programs, Workers
    <3>2. /\ job'["queue"].pc = "waiting" /\ job'["queue"].super = Superseded(job["queue"].row)
          /\ job'["queue"].row = job["queue"].row /\ job'["queue"].full = job["queue"].full
      BY <2>1, <2>2 DEF Job
    <3>. QED
      BY <1>7, <3>1, <3>2 DEF ReadSuperseded, InProgram, Superseded, Open, OpenStatus, table
  <2>4. \A v \in Workers \ {"queue"} : job'[v] = job[v]
    BY <1>7 DEF ReadSuperseded, TypeOK
  <2>. QED
    BY <1>7, <1>a, <2>3, <2>4, OneInProgram DEF ReadSuperseded, table, Workers
<1>8. ASSUME NEW w \in Workers, LockAndBuild(w) PROVE RowShape' /\ Programs'
  <2>1. job[w] \in Job /\ InProgram(w)
    BY DEF TypeOK, Programs
  <2>2. /\ job'[w].row = job[w].row /\ job'[w].super = job[w].super
        /\ \/ job'[w].pc = "built" /\ lock' = w /\ (job'[w].full \/ "targeted" \in Delta)
           \/ job'[w].pc = "finished"
    <3>2. CASE job'[w] = FullConfig(job[w]) /\ lock' = w
      BY <2>1, <3>2 DEF FullConfig, Job
    <3>3. CASE job'[w] = [job[w] EXCEPT !.pc = "finished"]
      BY <2>1, <3>3 DEF Job
    <3>4. ASSUME NEW u, NEW n, job'[w] = OneUser(job[w], u, n), lock' = w
          PROVE  /\ job'[w].row = job[w].row /\ job'[w].super = job[w].super
                 /\ job'[w].pc = "built"
      BY <2>1, <3>4 DEF OneUser, Job
    <3>. QED
      BY <1>8, <3>2, <3>3, <3>4 DEF LockAndBuild, MutexFree, Targeted, TypeOK
  <2>3. InProgram(w)'
    BY <1>8, <2>1, <2>2 DEF LockAndBuild, MutexFree, Targeted, InProgram, table
  <2>4. \A v \in Workers \ {w} : job'[v] = job[v]
    BY <1>8 DEF LockAndBuild, MutexFree, Targeted, TypeOK
  <2>. QED
    BY <1>8, <1>a, <2>3, <2>4, OneInProgram DEF LockAndBuild, MutexFree, Targeted, table
<1>9. CASE StartConnect \/ StartSync
  <2>1. RowsKept
    BY <1>9, QueueKept DEF StartConnect, MutexFree, StartSync
  <2>2. /\ lock = "free" /\ lock' = "ctl"
        /\ \/ job' = [job EXCEPT !["ctl"].pc = "locked"]
           \/ job' = [job EXCEPT !["ctl"].pc = "queued"]
    BY <1>9 DEF StartConnect, MutexFree, StartSync
  <2>3. job["ctl"] \in Job /\ InProgram("ctl") /\ job["ctl"].pc = "idle"
    BY <1>9 DEF TypeOK, Programs, Workers, StartConnect, MutexFree, StartSync
  <2>4. job'["ctl"].pc \in {"queued", "locked"} /\ job'["ctl"].super = job["ctl"].super
        /\ job'["ctl"].full = job["ctl"].full /\ \A v \in Workers \ {"ctl"} : job'[v] = job[v]
    BY <2>2, <2>3 DEF TypeOK, Workers, Job
  <2>5. InProgram("ctl")'
    <3>1. job["ctl"].super \subseteq RowId
      BY <2>3 DEF Job
    <3>. QED
      BY <1>0, <2>1, <2>2, <2>3, <2>4, <3>1 DEF InProgram, NonFreeKept
  <2>. QED
    BY <1>0, <2>1, <2>2, <2>4, <2>5, OneInProgram DEF Workers
<1>22. CASE SetConnecting
  <2>1. job["ctl"] \in Job /\ InProgram("ctl")
    BY DEF TypeOK, Programs, Workers
  <2>2. /\ job'["ctl"].pc = "locked" /\ job'["ctl"].super = job["ctl"].super
        /\ job'["ctl"].full = job["ctl"].full
        /\ \A v \in Workers \ {"ctl"} : job'[v] = job[v]
    BY <1>22, <2>1 DEF SetConnecting, TypeOK, Workers, Job
  <2>3. InProgram("ctl")'
    BY <1>22, <2>1, <2>2 DEF SetConnecting, InProgram, table
  <2>. QED
    BY <1>22, <1>a, <2>2, <2>3, OneInProgram DEF SetConnecting, table, Workers
<1>10. CASE CtlReadSuperseded
  <2>1. job["ctl"] \in Job /\ InProgram("ctl")
    BY DEF TypeOK, Programs, Workers
  <2>2. /\ job'["ctl"].pc = "reading" /\ job'["ctl"].super = Superseded(MaxRows)
        /\ job'["ctl"].full = job["ctl"].full
        /\ \A v \in Workers \ {"ctl"} : job'[v] = job[v]
    BY <1>10, <2>1 DEF CtlReadSuperseded, TypeOK, Workers, Job
  <2>3. InProgram("ctl")'
    BY <1>10, <2>1, <2>2 DEF CtlReadSuperseded, InProgram, Superseded, Open, OpenStatus, table
  <2>. QED
    BY <1>10, <1>a, <2>2, <2>3, OneInProgram DEF CtlReadSuperseded, table, Workers
<1>11. CASE CtlBuild
  <2>1. job["ctl"] \in Job /\ InProgram("ctl")
    BY DEF TypeOK, Programs, Workers
  <2>2. /\ job'["ctl"].pc = "built" /\ job'["ctl"].super = job["ctl"].super
        /\ job'["ctl"].full
        /\ \A v \in Workers \ {"ctl"} : job'[v] = job[v]
    BY <1>11, <2>1 DEF CtlBuild, FullConfig, TypeOK, Workers, Job
  <2>3. InProgram("ctl")'
    BY <1>11, <2>1, <2>2 DEF CtlBuild, InProgram, table
  <2>. QED
    BY <1>11, <1>a, <2>2, <2>3, OneInProgram DEF CtlBuild, table, Workers
<1>12. ASSUME NEW w \in Workers, ApplyOk(w) PROVE RowShape' /\ Programs'
  <2>1. job[w] \in Job /\ InProgram(w)
    BY DEF TypeOK, Programs
  <2>2. /\ job'[w].row = job[w].row /\ job'[w].super = job[w].super
        /\ \/ job'[w].pc = "applied" /\ UNCHANGED lock
           \/ job'[w].pc = "finished" /\ lock' = "free" /\ ~job[w].full
        /\ \A v \in Workers \ {w} : job'[v] = job[v]
    BY <1>12, <2>1 DEF ApplyOk, TypeOK, Job
  <2>3. w = "ctl" => job[w].full
    BY <1>12, <2>1 DEF ApplyOk, InProgram
  <2>4. InProgram(w)'
    BY <1>12, <2>1, <2>2, <2>3 DEF ApplyOk, InProgram, table
  <2>5. lock = w
    BY <1>12, <2>1 DEF ApplyOk, InProgram
  <2>. QED
    BY <1>12, <1>a, <2>2, <2>4, <2>5, OneInProgram DEF ApplyOk, table
<1>13. ASSUME NEW w \in Workers, ApplyLost(w) \/ ApplyRefused(w) PROVE RowShape' /\ Programs'
  <2>1. job[w] \in Job /\ InProgram(w) /\ job[w].pc = "built"
    BY <1>13 DEF TypeOK, Programs, ApplyLost, ApplyRefused
  <2>2. /\ \A v \in Workers \ {w} : job'[v] = job[v]
        /\ lock = w
        /\ IF w = "ctl" THEN job'[w] = Idle
           ELSE job'[w].pc = "failing" /\ job'[w].row = job[w].row /\ job'[w].super = job[w].super
    BY <1>13, <2>1 DEF ApplyLost, ApplyRefused, Fail, TypeOK, Job, InProgram
  <2>3. UNCHANGED table
    BY <1>13 DEF ApplyLost, ApplyRefused
  <2>4. InProgram(w)'
    BY <2>1, <2>2, <2>3, IdleInProgram DEF InProgram, table
  <2>. QED
    BY <1>a, <2>2, <2>3, <2>4, OneInProgram DEF table
<1>15. ASSUME NEW w \in Workers, FinishRuntime(w) PROVE RowShape' /\ Programs'
  <2>1. job[w] \in Job /\ InProgram(w)
    BY DEF TypeOK, Programs
  <2>2. /\ job'[w].row = job[w].row /\ job'[w].super = job[w].super /\ job'[w].pc = "finished"
        /\ \A v \in Workers \ {w} : job'[v] = job[v]
        /\ lock = w
    BY <1>15, <2>1 DEF FinishRuntime, TypeOK, Job, InProgram
  <2>4. InProgram(w)'
    BY <1>15, <2>1, <2>2 DEF FinishRuntime, InProgram, table
  <2>. QED
    BY <1>15, <1>a, <2>2, <2>4, OneInProgram DEF FinishRuntime, table
<1>16. ASSUME NEW w \in Workers, CloseRows(w) PROVE RowShape' /\ Programs'
  <2>1. \A i \in ClosedRows(w) \cap RowId : ops[i].status # "free"
    BY <1>16 DEF CloseRows, ClosedRows, Closing, FullSyncJob, Programs, InProgram, Open, OpenStatus
  <2>2. RowsKept
    BY <1>16, <2>1, WithStatusKept DEF CloseRows, RowStatus
  <2>3. job'[w] = Idle /\ \A v \in Workers \ {w} : job'[v] = job[v]
    BY <1>16 DEF CloseRows, TypeOK
  <2>4. lock' = lock \/ lock \in {"free", w}
    BY <1>16 DEF CloseRows, Programs, InProgram
  <2>. QED
    BY <1>0, <2>2, <2>3, <2>4, IdleInProgram, OneInProgram
<1>17. ASSUME NEW w \in Workers, CloseFails(w) PROVE RowShape' /\ Programs'
  <2>1. job'[w] = Idle /\ \A v \in Workers \ {w} : job'[v] = job[v]
    BY <1>17 DEF CloseFails, TypeOK
  <2>2. lock' = lock \/ lock \in {"free", w}
    BY <1>17 DEF CloseFails, Programs, InProgram
  <2>. QED
    BY <1>17, <1>a, <2>1, <2>2, IdleInProgram, OneInProgram DEF CloseFails, table
<1>23. ASSUME NEW w \in Workers, FinishFails(w) PROVE RowShape' /\ Programs'
  <2>1. job[w] \in Job /\ InProgram(w) /\ job[w].pc = "applied"
    BY <1>23 DEF TypeOK, Programs, FinishFails
  <2>2. /\ \A v \in Workers \ {w} : job'[v] = job[v]
        /\ lock = w
        /\ IF w = "ctl" THEN job'[w] = Idle
           ELSE job'[w].pc = "failing" /\ job'[w].row = job[w].row /\ job'[w].super = job[w].super
    BY <1>23, <2>1 DEF FinishFails, TypeOK, Job, InProgram
  <2>3. UNCHANGED table
    BY <1>23 DEF FinishFails
  <2>4. InProgram(w)'
    BY <2>1, <2>2, <2>3, IdleInProgram DEF InProgram, table
  <2>. QED
    BY <1>a, <2>2, <2>3, <2>4, OneInProgram DEF table
<1>18. ASSUME NEW w \in Workers, RecordFailure(w) PROVE RowShape' /\ Programs'
  <2>1. w # "ctl" /\ job[w].row \in RowId /\ ops[job[w].row].status # "free"
    BY <1>18 DEF RecordFailure, Programs, InProgram
  <2>2. RowsKept
    BY <1>18, <2>1, WithStatusKept, SameTable DEF RecordFailure, RowStatus
  <2>3. job'[w] = Idle /\ \A v \in Workers \ {w} : job'[v] = job[v]
    BY <1>18 DEF RecordFailure, TypeOK
  <2>. QED
    BY <1>18, <1>0, <2>2, <2>3, IdleInProgram, OneInProgram DEF RecordFailure
<1>19. CASE ProbeUp \/ HealthDown
  BY <1>19, <1>a, <1>b DEF ProbeUp, HealthDown, table
<1>20. CASE Crash
  <2>1. Programs'
    BY <1>20, IdleInProgram DEF Crash, Programs
  <2>. QED
    BY <1>20, <1>a, <2>1 DEF Crash, table
<1>21. CASE UNCHANGED vars
  BY <1>21, <1>a, <1>b DEF vars, table
<1>. QED
  BY <1>1, <1>2, <1>3, <1>4, <1>5, <1>6, <1>7, <1>8, <1>9, <1>10, <1>11, <1>12, <1>13,
     <1>15, <1>16, <1>17, <1>18, <1>19, <1>20, <1>21, <1>22, <1>23
     DEF Next, Step, CtlStep, ProcessQueue

LEMMA ShapeInit == Init => Shape
<1> SUFFICES ASSUME Init PROVE Shape
  OBVIOUS
<1>0. MaxRows \in Nat
  BY NodeOperationsAssumption
<1>1. FreeRow \in Row
  BY DEF FreeRow, Row, Kinds, RowStatus
<1>2. TypeOK
  <2>1. ops \in [RowId -> Row] /\ next \in 1..(MaxRows + 1)
    BY <1>0, <1>1 DEF Init
  <2>2. job \in [Workers -> Job]
    BY IdleJob DEF Init
  <2>3. lock \in Workers \cup {"free"} /\ batch \in [Workers -> SUBSET RowId]
    BY DEF Init
  <2>. QED
    BY <2>1, <2>2, <2>3 DEF Init, TypeOK
<1>3. RowShape
  BY DEF Init, RowShape, FreeRow
<1>4. Programs
  BY DEF Init, Programs, InProgram, Idle
<1>. QED
  BY <1>2, <1>3, <1>4 DEF Shape

(* Every variable keeps its type, whatever the interleaving and whatever   *)
(* the faults: a worker that finishes or fails a row always has one, and   *)
(* no row is added beyond the table.                                       *)
THEOREM TypeCorrect == Spec => []TypeOK
<1>1. Spec => []Shape
  BY ShapeInit, ShapeStep, PTL DEF Spec
<1>2. Shape => TypeOK
  BY DEF Shape
<1>. QED
  BY <1>1, <1>2, PTL

-----------------------------------------------------------------------------
(* The configuration of the node *)

(* The mutex keeps two workers from calling the node at once.              *)
LEMMA OneCaller ==
  ASSUME Programs, NEW v \in Workers, NEW w \in Workers, job[v].pc = "built",
         job[w].pc \in {"built", "applied"}
  PROVE  v = w
  BY DEF Programs, InProgram

BuiltFull(w) == job[w].pc = "built" /\ job[w].full

(* A step that builds and delivers nothing. *)
LEMMA CfgKept ==
  ASSUME TypeOK, CfgInv, nodeCfg' = nodeCfg, cfg' = cfg \/ cfg' = cfg + 1,
         \A w \in Workers : BuiltFull(w)' => BuiltFull(w) /\ job'[w].cfg = job[w].cfg
  PROVE  CfgInv'
<1>1. cfg \in Nat /\ nodeCfg \in Nat /\ \A w \in Workers : job[w].cfg \in Nat
  BY DEF TypeOK, Job
<1>. QED
  BY <1>1 DEF CfgInv, BuiltFull

LEMMA CfgStep == Shape /\ CfgInv /\ [Next]_vars => CfgInv' /\ nodeCfg' >= nodeCfg
<1> SUFFICES ASSUME Shape, CfgInv, [Next]_vars PROVE CfgInv' /\ nodeCfg' >= nodeCfg
  OBVIOUS
<1>. USE DEF Shape
<1>0. /\ cfg \in Nat /\ nodeCfg \in Nat
      /\ \A w \in Workers : job[w] \in Job /\ job[w].cfg \in Nat /\ InProgram(w)
  BY DEF TypeOK, Job, Programs
<1>a. ASSUME nodeCfg' = nodeCfg, cfg' = cfg \/ cfg' = cfg + 1,
             \A w \in Workers : BuiltFull(w)' => BuiltFull(w) /\ job'[w].cfg = job[w].cfg
      PROVE  CfgInv' /\ nodeCfg' >= nodeCfg
  BY <1>0, <1>a, CfgKept
<1>b. ASSUME nodeCfg' = nodeCfg, cfg' = cfg, NEW w \in Workers,
             \A v \in Workers \ {w} : job'[v] = job[v],
             BuiltFull(w)' => BuiltFull(w) /\ job'[w].cfg = job[w].cfg
      PROVE  CfgInv' /\ nodeCfg' >= nodeCfg
  BY <1>a, <1>b DEF BuiltFull
<1>1. ASSUME NEW u \in Users, CreateUser(u) \/ UpdateUser(u) \/ DeleteUser(u) \/ BulkUpdate(u)
      PROVE  CfgInv' /\ nodeCfg' >= nodeCfg
  BY <1>1, <1>a, ChangesCommit DEF Commit, node, BuiltFull
<1>2. ASSUME \/ UNCHANGED <<job, node, cfg>> \/ ChangeConfig \/ Crash
      PROVE  CfgInv' /\ nodeCfg' >= nodeCfg
  BY <1>2, <1>a DEF ChangeConfig, Crash, node, database, BuiltFull, Idle
<1>3. ASSUME NEW w \in Workers, ClaimRow(w) PROVE CfgInv' /\ nodeCfg' >= nodeCfg
  <2>1. UNCHANGED job \/ \E i : job' = [job EXCEPT ![w] = Claimed(i)]
    BY <1>3 DEF ClaimRow
  <2>2. \A i : Claimed(i).pc # "built"
    BY DEF Claimed, Idle
  <2>. QED
    BY <1>3, <1>b, <2>1, <2>2 DEF ClaimRow, node, database, BuiltFull, TypeOK
<1>4. CASE ReadSuperseded
  <2>1. job'["queue"].pc = "waiting" /\ \A v \in Workers \ {"queue"} : job'[v] = job[v]
    BY <1>0, <1>4 DEF ReadSuperseded, TypeOK, Workers, Job
  <2>. QED
    BY <1>4, <1>b, <2>1 DEF ReadSuperseded, node, database, BuiltFull, Workers
<1>5. ASSUME NEW w \in Workers, LockAndBuild(w) PROVE CfgInv' /\ nodeCfg' >= nodeCfg
  <2>1. /\ \A v \in Workers \ {w} : job'[v] = job[v]
        /\ \/ job'[w] = FullConfig(job[w])
           \/ \E u, n : job'[w] = OneUser(job[w], u, n)
           \/ job'[w] = [job[w] EXCEPT !.pc = "finished"]
    BY <1>5 DEF LockAndBuild, MutexFree, Targeted, TypeOK
  <2>2. ~job[w].full
    BY <1>0, <1>5 DEF LockAndBuild, MutexFree, Targeted, InProgram
  <2>3. BuiltFull(w)' => job'[w].cfg = cfg
    <3>1. CASE job'[w] = FullConfig(job[w])
      BY <1>0, <3>1 DEF FullConfig, Job
    <3>2. ASSUME NEW u, NEW n, job'[w] = OneUser(job[w], u, n) PROVE ~BuiltFull(w)'
      BY <1>0, <2>2, <3>2 DEF OneUser, Job, BuiltFull
    <3>3. CASE job'[w] = [job[w] EXCEPT !.pc = "finished"]
      BY <1>0, <3>3 DEF Job, BuiltFull
    <3>. QED
      BY <2>1, <3>1, <3>2, <3>3
  <2>. QED
    BY <1>0, <1>5, <2>1, <2>3 DEF LockAndBuild, MutexFree, Targeted, node, database, CfgInv, BuiltFull
<1>6. CASE StartConnect \/ StartSync \/ SetConnecting \/ CtlReadSuperseded
  <2>1. job'["ctl"].pc \in {"queued", "locked", "reading"} /\ \A v \in Workers \ {"ctl"} : job'[v] = job[v]
    BY <1>0, <1>6 DEF StartConnect, MutexFree, StartSync, SetConnecting, CtlReadSuperseded, TypeOK, Workers, Job
  <2>. QED
    BY <1>6, <1>b, <2>1 DEF StartConnect, MutexFree, StartSync, SetConnecting, CtlReadSuperseded, node, database, BuiltFull, Workers
<1>7. CASE CtlBuild
  <2>1. job'["ctl"].cfg = cfg /\ \A v \in Workers \ {"ctl"} : job'[v] = job[v]
    BY <1>0, <1>7 DEF CtlBuild, FullConfig, TypeOK, Workers, Job
  <2>. QED
    BY <1>0, <1>7, <2>1 DEF CtlBuild, node, database, CfgInv, BuiltFull
<1>8. ASSUME NEW w \in Workers, ApplyOk(w) \/ ApplyLost(w) PROVE CfgInv' /\ nodeCfg' >= nodeCfg
  <2>1. cfg' = cfg /\ nodeCfg' \in {nodeCfg, IF job[w].full THEN job[w].cfg ELSE nodeCfg}
    BY <1>8 DEF ApplyOk, ApplyLost, TakeEffect, BreakOff, database
  <2>2. job[w].pc = "built" /\ job'[w].pc # "built" /\ \A v \in Workers \ {w} : job'[v] = job[v]
    BY <1>0, <1>8 DEF ApplyOk, ApplyLost, Fail, TypeOK, Job, Idle
  <2>3. \A v \in Workers : job'[v].pc # "built"
    BY <2>2, OneCaller
  <2>. QED
    BY <1>0, <2>1, <2>2, <2>3 DEF CfgInv
<1>9. ASSUME NEW w \in Workers,
             \/ ApplyRefused(w) \/ FinishRuntime(w) \/ FinishFails(w)
             \/ CloseRows(w) \/ CloseFails(w) \/ RecordFailure(w)
      PROVE  CfgInv' /\ nodeCfg' >= nodeCfg
  <2>1. job'[w].pc # "built" /\ \A v \in Workers \ {w} : job'[v] = job[v]
    BY <1>0, <1>9 DEF ApplyRefused, Fail, FinishRuntime, FinishFails, CloseRows, CloseFails, RecordFailure,
                     TypeOK, Job, Idle
  <2>2. nodeCfg' = nodeCfg /\ cfg' = cfg
    BY <1>9 DEF ApplyRefused, FinishRuntime, FinishFails, CloseRows, CloseFails, RecordFailure, node, database
  <2>. QED
    BY <1>b, <2>1, <2>2 DEF BuiltFull
<1>10. CASE \/ ProcessQueue \/ QueueNodeSync \/ ProbeUp \/ HealthDown \/ UNCHANGED vars
            \/ \E u \in Users : ProcessRuntimeUserOperations(u)
  BY <1>10, <1>2 DEF ProcessQueue, FetchRows, Recovered, Lagging, QueueNodeSync, ProbeUp, HealthDown, vars,
                     ProcessRuntimeUserOperations, node, database
<1>. QED
  BY <1>1, <1>2, <1>3, <1>4, <1>5, <1>6, <1>7, <1>8, <1>9, <1>10 DEF Next, Step, CtlStep

(* The configuration a node runs never goes back to an older one.          *)
THEOREM NodeConfigMonotone == Spec => ConfigMonotone
<1>1. Init => CfgInv
  BY DEF Init, CfgInv, Idle
<1>2. Spec => [](Shape /\ CfgInv)
  BY <1>1, ShapeInit, ShapeStep, CfgStep, PTL DEF Spec
<1>3. Shape /\ CfgInv /\ [Next]_vars => [nodeCfg' >= nodeCfg]_vars
  BY CfgStep
<1>. QED
  BY <1>2, <1>3, PTL DEF Spec, ConfigMonotone

-----------------------------------------------------------------------------
(* No stale access *)

(* The workers that are about to call the node or have called it are where *)
(* they were, or a full sync has moved on from applied to finished.        *)
JobsKept ==
  \A w \in Workers : job'[w].pc \in {"built", "applied", "finished"} =>
    /\ job'[w].pc = job[w].pc \/ (job[w].pc = "applied" /\ job'[w].pc = "finished")
    /\ job'[w].row = job[w].row /\ job'[w].super = job[w].super
    /\ job'[w].users = job[w].users /\ job'[w].touch = job[w].touch

LEMMA ClosingInTable ==
  ASSUME Shape, NEW w \in Workers, job[w].pc # "idle"
  PROVE  \A i \in Closing(w) : i \in RowId /\ ops[i].status # "free"
<1>1. job[w].super \subseteq RowId
  BY DEF Shape, TypeOK, Job
<1>. QED
  BY <1>1 DEF Shape, Programs, InProgram, Closing, FullSyncJob

LEMMA ClosingKept ==
  ASSUME Shape, RowsKept, NEW w \in Workers, job[w].pc # "idle",
         job'[w].row = job[w].row, job'[w].super = job[w].super
  PROVE  Closing(w)' = Closing(w)
  BY DEF Shape, RowsKept, Programs, InProgram, Closing, FullSyncJob

(* The row of a user's last change is the same before and after a step     *)
(* that commits no change.                                                 *)
LEMMA LatestKept ==
  ASSUME RowsKept, ver' = ver, NEW i \in RowId, NEW u \in Users
  PROVE  Latest(i, u)' <=> Latest(i, u)
<1>1. u # NoUser
  BY NodeOperationsAssumption
<1>. QED
  BY <1>1 DEF Latest, RowsKept

LEMMA OwedKept ==
  ASSUME TypeOK, RowsKept, NoneClosed, ver' = ver, NEW u \in Users, Owed(u)
  PROVE  Owed(u)'
<1>1. PICK i \in RowId : ops[i].user = u /\ ops[i].need = ver[u] /\ (Open(i) \/ ops[i].status = "failed")
  BY DEF Owed
<1>2. u # NoUser
  BY NodeOperationsAssumption
<1>3. ops'[i].user = u /\ ops'[i].need = ver'[u] /\ ops'[i].status \in OpenStatus \cup {"failed"}
  BY <1>1, <1>2 DEF RowsKept, NoneClosed
<1>. QED
  BY <1>3 DEF Owed, Open

(* A step that commits nothing, delivers nothing and closes no user's row. *)
LEMMA DeliveriesKept ==
  ASSUME Shape, Deliveries, RowsKept, NoneClosed, JobsKept,
         UNCHANGED <<user, ver, nodeUser, missed>>
  PROVE  Deliveries'
<1>. USE DEF Deliveries
<1>1. \A u \in Users : Owed(u) => Owed(u)'
  BY OwedKept DEF Shape
<1>2. \A u \in Users : Want(u)' = Want(u) /\ (Wrong(u)' <=> Wrong(u))
  BY DEF Want, Wrong, Amiss
<1>3. ASSUME NEW w \in Workers, job'[w].pc \in {"built", "applied", "finished"}
      PROVE  Closing(w)' = Closing(w) /\ job[w].pc # "idle" /\ Closing(w) \subseteq RowId
  BY <1>3, ClosingKept, ClosingInTable DEF JobsKept
<1>4. \A w \in Workers, u \in Users : job'[w].pc = "built" =>
        job[w].pc = "built" /\ (BuiltWrong(w, u)' <=> BuiltWrong(w, u))
  BY <1>2 DEF JobsKept, BuiltWrong, Amiss
<1>5. \A i \in RowId, u \in Users : Latest(i, u)' <=> Latest(i, u)
  BY LatestKept
<1>6. NeedBounded'
  <2>1. \A u \in Users : u # NoUser
    BY NodeOperationsAssumption
  <2>. QED
    BY <2>1 DEF NeedBounded, RowsKept
<1>7. KindMatches'
  BY <1>5 DEF KindMatches, RowsKept
<1>8. Carried'
  <2>1. ASSUME NEW w \in Workers, job'[w].pc = "built", NEW i \in Closing(w)', NEW u \in Users,
               Latest(i, u)'
        PROVE  u \in job'[w].touch /\ ~BuiltWrong(w, u)'
    BY <1>3, <1>4, <1>5, <2>1 DEF Carried, JobsKept
  <2>. QED
    BY <2>1 DEF Carried
<1>9. Delivered'
  <2>1. ASSUME NEW w \in Workers, job'[w].pc \in {"applied", "finished"}, NEW i \in Closing(w)',
               NEW u \in Users, Latest(i, u)'
        PROVE  ~Wrong(u)' /\ \A v \in Workers : job'[v].pc = "built" => ~BuiltWrong(v, u)'
    <3>1. job[w].pc \in {"applied", "finished"} /\ i \in Closing(w) /\ Latest(i, u)
      BY <1>3, <1>5, <2>1 DEF JobsKept
    <3>. QED
      BY <1>2, <1>4, <3>1 DEF Delivered
  <2>. QED
    BY <2>1 DEF Delivered
<1>10. WrongInFlight'
  BY <1>1, <1>4 DEF WrongInFlight
<1>11. NoWrongAccess'
  BY <1>1, <1>2 DEF NoWrongAccess
<1>. QED
  BY <1>6, <1>7, <1>8, <1>9, <1>10, <1>11

LEMMA CommitDeliveries ==
  ASSUME Shape, Deliveries, NEW u \in Users, NEW to, NEW kind \in UserKinds, Commit(u, to, kind),
         "targeted" \in Delta /\ kind \in AddKinds => to = "on"
  PROVE  Deliveries'
<1>. USE DEF Deliveries
<1>. DEFINE added ==
       /\ next \in RowId /\ missed' = missed \ {u}
       /\ ops[next].status = "free" /\ ops'[next] = Pending(kind, u, ver[u] + 1)
       /\ \A i \in RowId \ {next} :
            /\ ops'[i].kind = ops[i].kind /\ ops'[i].user = ops[i].user
            /\ ops'[i].need = ops[i].need
            /\ ops'[i].status = IF i \in CompactedRows(u) THEN "done" ELSE ops[i].status
<1>1. (UNCHANGED ops /\ missed' = missed \cup {u}) \/ added
  BY CommitRows DEF Shape
<1>2. /\ job' = job /\ nodeUser' = nodeUser
      /\ user'[u] = to /\ ver'[u] = ver[u] + 1
      /\ \A v \in Users \ {u} : user'[v] = user[v] /\ ver'[v] = ver[v]
      /\ \A v \in Users : ver[v] \in Nat
      /\ \A i \in RowId : ops[i].need \in Nat
  BY DEF Commit, Shape, TypeOK, Row, node
<1>3. added => ops'[next].kind = kind /\ ops'[next].user = u /\ ops'[next].need = ver[u] + 1
               /\ ops'[next].status = "pending"
  BY DEF Pending
<1>. HIDE DEF added
<1>4. ASSUME NEW i \in RowId, ops[i].status # "free"
      PROVE  /\ ops'[i].kind = ops[i].kind /\ ops'[i].user = ops[i].user /\ ops'[i].need = ops[i].need
             /\ ops[i].user # u => ops'[i].status = ops[i].status
  BY <1>1, <1>4 DEF added, CompactedRows
<1>5. ASSUME NEW i \in RowId, ops[i].status # "free", NEW v \in Users, Latest(i, v)'
      PROVE  v # u /\ Latest(i, v)
  BY <1>2, <1>4, <1>5 DEF Latest, NeedBounded
<1>6. ASSUME NEW w \in Workers, job[w].pc # "idle"
      PROVE  Closing(w)' = Closing(w)
  <2>1. w # "ctl" => ops'[job[w].row].kind = ops[job[w].row].kind
    BY <1>4, <1>6 DEF Shape, Programs, InProgram
  <2>. QED
    BY <1>2, <2>1 DEF Closing, FullSyncJob
<1>7. ASSUME NEW w \in Workers, job[w].pc # "idle", NEW i \in Closing(w)', NEW v \in Users, Latest(i, v)'
      PROVE  i \in Closing(w) /\ v # u /\ Latest(i, v)
  BY <1>5, <1>6, <1>7, ClosingInTable
<1>8. \A v \in Users \ {u} : /\ Want(v)' = Want(v) /\ (Wrong(v)' <=> Wrong(v))
                            /\ \A w \in Workers : BuiltWrong(w, v)' <=> BuiltWrong(w, v)
  BY <1>2 DEF Want, Wrong, Amiss, BuiltWrong
<1>9. ASSUME NEW v \in Users \ {u}, Owed(v) PROVE Owed(v)'
  <2>1. PICK i \in RowId : ops[i].user = v /\ ops[i].need = ver[v] /\ (Open(i) \/ ops[i].status = "failed")
    BY <1>9 DEF Owed
  <2>2. ops[i].status # "free"
    BY <2>1 DEF Open, OpenStatus
  <2>3. ops'[i].user = v /\ ops'[i].need = ver'[v] /\ ops'[i].status = ops[i].status
    BY <1>2, <1>4, <2>1, <2>2
  <2>. QED
    BY <2>1, <2>3 DEF Owed, Open
<1>10. Owed(u)' \/ u \in missed'
  <2>1. CASE missed' = missed \cup {u}
    BY <2>1
  <2>2. CASE added
    <3>1. next \in RowId /\ ops'[next].user = u /\ ops'[next].need = ver'[u] /\ ops'[next].status \in OpenStatus
      BY <1>2, <1>3, <2>2 DEF added, OpenStatus
    <3>. QED
      BY <3>1 DEF Owed, Open
  <2>. QED
    BY <1>1, <2>1, <2>2
<1>11. \A v \in Users \ {u} : Owed(v) \/ v \in missed => Owed(v)' \/ v \in missed'
  BY <1>1, <1>9 DEF added
<1>12. NeedBounded'
  <2>1. ASSUME NEW i \in RowId, NEW v \in Users, ops'[i].user = v PROVE ops'[i].need <= ver'[v]
    <3>1. CASE added /\ i = next
      BY <1>2, <1>3, <2>1, <3>1
    <3>2. CASE ~(added /\ i = next)
      <4>1. ops'[i].user = ops[i].user /\ ops'[i].need = ops[i].need
        BY <1>1, <3>2 DEF added
      <4>2. ops[i].need <= ver[v]
        BY <2>1, <4>1 DEF NeedBounded
      <4>. QED
        BY <1>2, <4>1, <4>2
    <3>. QED
      BY <3>1, <3>2
  <2>. QED
    BY <2>1 DEF NeedBounded
<1>13. KindMatches'
  <2>1. ASSUME "targeted" \in Delta, NEW i \in RowId, NEW v \in Users, Latest(i, v)', ops'[i].kind \in AddKinds
        PROVE  user'[v] = "on"
    <3>1. CASE added /\ i = next
      BY <1>2, <1>3, <2>1, <3>1 DEF Latest
    <3>2. CASE ~(added /\ i = next)
      <4>1. ops'[i].user = ops[i].user /\ ops'[i].need = ops[i].need /\ ops'[i].kind = ops[i].kind
        BY <1>1, <3>2 DEF added
      <4>2. ops[i].status # "free"
        <5>1. v # NoUser
          BY NodeOperationsAssumption
        <5>. QED
          BY <2>1, <4>1, <5>1 DEF Latest, Shape, RowShape
      <4>. QED
        BY <1>2, <1>5, <2>1, <4>1, <4>2 DEF KindMatches
    <3>. QED
      BY <3>1, <3>2
  <2>. QED
    BY <2>1 DEF KindMatches
<1>14. Carried'
  <2>1. ASSUME NEW w \in Workers, job'[w].pc = "built", NEW i \in Closing(w)', NEW v \in Users, Latest(i, v)'
        PROVE  v \in job'[w].touch /\ ~BuiltWrong(w, v)'
    BY <1>2, <1>7, <1>8, <2>1 DEF Carried
  <2>. QED
    BY <2>1 DEF Carried
<1>15. Delivered'
  <2>1. ASSUME NEW w \in Workers, job'[w].pc \in {"applied", "finished"}, NEW i \in Closing(w)',
               NEW v \in Users, Latest(i, v)'
        PROVE  ~Wrong(v)' /\ \A x \in Workers : job'[x].pc = "built" => ~BuiltWrong(x, v)'
    <3>1. job[w].pc \in {"applied", "finished"} /\ i \in Closing(w) /\ v # u /\ Latest(i, v)
      BY <1>2, <1>7, <2>1
    <3>. QED
      BY <1>2, <1>8, <3>1 DEF Delivered
  <2>. QED
    BY <2>1 DEF Delivered
<1>16. WrongInFlight'
  BY <1>2, <1>8, <1>10, <1>11 DEF WrongInFlight
<1>17. NoWrongAccess'
  BY <1>8, <1>10, <1>11 DEF NoWrongAccess
<1>. QED
  BY <1>12, <1>13, <1>14, <1>15, <1>16, <1>17

(* A worker that has taken the mutex reads what the users are now. *)
LEMMA BuildDeliveries ==
  ASSUME Shape, Deliveries, NEW w \in Workers, job[w].pc \notin {"idle", "applied", "finished"},
         UNCHANGED <<user, ver, nodeUser, missed, ops>>,
         \A v \in Workers \ {w} : job'[v] = job[v],
         job'[w].row = job[w].row, job'[w].super = job[w].super,
         \A u \in Users : ~BuiltWrong(w, u)',
         \A i \in Closing(w), u \in Users : Latest(i, u) =>
           IF job'[w].pc = "built" THEN u \in job'[w].touch ELSE job'[w].pc \notin {"applied", "finished"}
  PROVE  Deliveries'
<1>. USE DEF Deliveries
<1>1. \A i, u : Latest(i, u)' <=> Latest(i, u)
  BY DEF Latest
<1>2. \A u \in Users : (Wrong(u)' <=> Wrong(u)) /\ (Owed(u)' <=> Owed(u))
  BY DEF Wrong, Amiss, Owed, Want, Open
<1>3. \A v \in Workers \ {w}, u \in Users : BuiltWrong(v, u)' <=> BuiltWrong(v, u)
  BY DEF BuiltWrong, Amiss, Want
<1>4. \A v \in Workers : Closing(v)' = Closing(v)
  BY DEF Closing, FullSyncJob
<1>5. NeedBounded' /\ KindMatches'
  BY <1>1 DEF NeedBounded, KindMatches
<1>6. Carried'
  <2>1. ASSUME NEW v \in Workers, job'[v].pc = "built", NEW i \in Closing(v)', NEW u \in Users, Latest(i, u)'
        PROVE  u \in job'[v].touch /\ ~BuiltWrong(v, u)'
    <3>1. CASE v = w
      BY <1>1, <1>4, <2>1, <3>1
    <3>2. CASE v # w
      BY <1>1, <1>3, <1>4, <2>1, <3>2 DEF Carried
    <3>. QED
      BY <3>1, <3>2
  <2>. QED
    BY <2>1 DEF Carried
<1>7. Delivered'
  <2>1. ASSUME NEW v \in Workers, job'[v].pc \in {"applied", "finished"}, NEW i \in Closing(v)',
               NEW u \in Users, Latest(i, u)'
        PROVE  ~Wrong(u)' /\ \A x \in Workers : job'[x].pc = "built" => ~BuiltWrong(x, u)'
    <3>1. v # w
      BY <1>1, <1>4, <2>1
    <3>. QED
      BY <1>1, <1>2, <1>3, <1>4, <2>1, <3>1 DEF Delivered
  <2>. QED
    BY <2>1 DEF Delivered
<1>8. WrongInFlight'
  BY <1>2, <1>3 DEF WrongInFlight
<1>9. NoWrongAccess'
  BY <1>2 DEF NoWrongAccess
<1>. QED
  BY <1>5, <1>6, <1>7, <1>8, <1>9

(* What a worker brings to the node while it holds the mutex.              *)
LEMMA EffectDeliveries ==
  ASSUME Shape, Deliveries, NEW w \in Workers, job[w].pc = "built",
         TakeEffect(w) \/ BreakOff(w),
         UNCHANGED <<user, ver, ops>>,
         \A v \in Workers \ {w} : job'[v] = job[v],
         \/ job'[w].pc \in {"idle", "failing"}
         \/ /\ TakeEffect(w) /\ job'[w].pc \in {"applied", "finished"}
            /\ job'[w].row = job[w].row /\ job'[w].super = job[w].super
  PROVE  Deliveries'
<1>. USE DEF Deliveries
<1>1. \A i, u : Latest(i, u)' <=> Latest(i, u)
  BY DEF Latest
<1>2. \A u \in Users : Want(u)' = Want(u) /\ (Owed(u)' <=> Owed(u))
  BY DEF Owed, Want, Open
<1>3. \A v \in Workers : job'[v].pc # "built"
  BY OneCaller DEF Shape
<1>10. BreakOff(w) => "targeted" \in Delta
  BY DEF BreakOff, Shape, Programs, InProgram
<1>4. ASSUME NEW u \in Users, BuiltWrong(w, u) \/ u \notin job[w].touch, Wrong(u)'
      PROVE  (BuiltWrong(w, u) \/ Wrong(u)) /\ (u \in missed => u \in missed')
  BY <1>2, <1>4 DEF TakeEffect, BreakOff, Wrong, Amiss, BuiltWrong, Shape, TypeOK
<1>9. ASSUME NEW u \in Users, ~BuiltWrong(w, u), u \in job[w].touch
      PROVE  ~Wrong(u)'
  BY <1>2, <1>9, <1>10 DEF TakeEffect, BreakOff, Wrong, Amiss, BuiltWrong, Shape, TypeOK
<1>5. NeedBounded' /\ KindMatches'
  BY <1>1 DEF NeedBounded, KindMatches
<1>6. Carried' /\ WrongInFlight'
  BY <1>3 DEF Carried, WrongInFlight
<1>7. Delivered'
  <2>1. ASSUME NEW v \in Workers, job'[v].pc \in {"applied", "finished"}, NEW i \in Closing(v)',
               NEW u \in Users, Latest(i, u)'
        PROVE  ~Wrong(u)'
    <3>1. CASE v = w
      <4>1. Closing(w)' = Closing(w) /\ TakeEffect(w)
        BY <2>1, <3>1 DEF Closing, FullSyncJob
      <4>2. u \in job[w].touch /\ ~BuiltWrong(w, u)
        BY <1>1, <2>1, <3>1, <4>1 DEF Carried
      <4>. QED
        BY <1>9, <4>2
    <3>2. CASE v # w
      <4>1. Closing(v)' = Closing(v) /\ job[v].pc \in {"applied", "finished"}
        BY <2>1, <3>2 DEF Closing, FullSyncJob
      <4>2. ~Wrong(u) /\ ~BuiltWrong(w, u)
        BY <1>1, <2>1, <4>1 DEF Delivered
      <4>. QED
        BY <1>4, <1>9, <4>2
    <3>. QED
      BY <3>1, <3>2
  <2>. QED
    BY <1>3, <2>1 DEF Delivered
<1>8. NoWrongAccess'
  BY <1>2, <1>4, <1>9 DEF NoWrongAccess, WrongInFlight
<1>. QED
  BY <1>5, <1>6, <1>7, <1>8

(* A row is closed by a worker that has delivered what it asks for. *)
LEMMA CloseDeliveries ==
  ASSUME Shape, Deliveries, NEW w \in Workers, CloseRows(w), RowsKept
  PROVE  Deliveries'
<1>. USE DEF Deliveries
<1>1. /\ job'[w].pc = "idle" /\ \A v \in Workers \ {w} : job'[v] = job[v]
      /\ UNCHANGED <<user, ver, nodeUser, missed>> /\ job[w].pc = "finished"
  BY DEF CloseRows, Shape, TypeOK, Idle, database, node
<1>2. \A i \in RowId, u \in Users : Latest(i, u)' <=> Latest(i, u)
  BY <1>1, LatestKept
<1>3. \A u \in Users : Want(u)' = Want(u) /\ (Wrong(u)' <=> Wrong(u))
  BY <1>1 DEF Want, Wrong, Amiss
<1>4. \A v \in Workers \ {w}, u \in Users : BuiltWrong(v, u)' <=> BuiltWrong(v, u)
  BY <1>1, <1>3 DEF BuiltWrong, Amiss
<1>5. ASSUME NEW v \in Workers \ {w}, job[v].pc # "idle"
      PROVE  Closing(v)' = Closing(v) /\ Closing(v) \subseteq RowId
  BY <1>1, <1>5, ClosingKept, ClosingInTable
<1>6. \A i \in RowId : ops'[i].status = IF i \in ClosedRows(w) THEN "done" ELSE ops[i].status
  BY WithStatusRows DEF CloseRows, Shape, TypeOK, RowStatus
<1>7. ASSUME NEW u \in Users
      PROVE  \/ Owed(u) => Owed(u)'
             \/ ~Wrong(u) /\ \A v \in Workers : job[v].pc = "built" => ~BuiltWrong(v, u)
  <2>1. CASE \E i \in Closing(w) : Latest(i, u)
    BY <1>1, <2>1 DEF Delivered
  <2>2. CASE /\ ~ \E i \in Closing(w) : Latest(i, u)
             /\ Owed(u)
    <3>1. PICK i \in RowId : Latest(i, u) /\ (Open(i) \/ ops[i].status = "failed")
      BY <2>2 DEF Owed, Latest
    <3>2. i \notin ClosedRows(w)
      <4>1. CASE i \in Closing(w)
        BY <2>2, <3>1, <4>1
      <4>2. CASE w # "ctl" /\ i = job[w].row
        <5>1. u # NoUser
          BY NodeOperationsAssumption
        <5>2. ~FullSyncJob(w)
          BY <3>1, <4>2, <5>1 DEF FullSyncJob, Latest, Shape, RowShape
        <5>. QED
          BY <2>2, <3>1, <4>2, <5>2 DEF Closing
      <4>. QED
        BY <1>1, <4>1, <4>2, ClosedRowsUsed DEF Shape
    <3>3. Latest(i, u)' /\ (Open(i) \/ ops[i].status = "failed")'
      BY <1>2, <1>6, <3>1, <3>2 DEF Open
    <3>. QED
      BY <3>3 DEF Owed, Latest
  <2>. QED
    BY <2>1, <2>2
<1>8. NeedBounded'
  <2>1. \A u \in Users : u # NoUser
    BY NodeOperationsAssumption
  <2>. QED
    BY <1>1, <2>1 DEF NeedBounded, RowsKept
<1>9. KindMatches'
  BY <1>1, <1>2 DEF KindMatches, RowsKept
<1>10. Carried'
  <2>1. ASSUME NEW v \in Workers, job'[v].pc = "built", NEW i \in Closing(v)', NEW u \in Users, Latest(i, u)'
        PROVE  u \in job'[v].touch /\ ~BuiltWrong(v, u)'
    <3>1. v # w /\ job'[v] = job[v]
      BY <1>1, <2>1
    <3>. QED
      BY <1>2, <1>4, <1>5, <2>1, <3>1 DEF Carried
  <2>. QED
    BY <2>1 DEF Carried
<1>11. Delivered'
  <2>1. ASSUME NEW v \in Workers, job'[v].pc \in {"applied", "finished"}, NEW i \in Closing(v)',
               NEW u \in Users, Latest(i, u)'
        PROVE  ~Wrong(u)' /\ \A x \in Workers : job'[x].pc = "built" => ~BuiltWrong(x, u)'
    <3>1. v # w /\ job'[v] = job[v]
      BY <1>1, <2>1
    <3>2. ~Wrong(u) /\ \A x \in Workers : job[x].pc = "built" => ~BuiltWrong(x, u)
      BY <1>2, <1>5, <2>1, <3>1 DEF Delivered
    <3>. QED
      BY <1>1, <1>3, <1>4, <3>2
  <2>. QED
    BY <2>1 DEF Delivered
<1>12. WrongInFlight'
  BY <1>1, <1>4, <1>7 DEF WrongInFlight
<1>13. NoWrongAccess'
  BY <1>1, <1>3, <1>7 DEF NoWrongAccess
<1>. QED
  BY <1>8, <1>9, <1>10, <1>11, <1>12, <1>13

(* An add whose user is not on any more is not the row of his last change. *)
LEMMA FinishedDeliveries ==
  ASSUME Shape, Deliveries, NEW w \in Workers, job[w].pc \notin {"idle", "built"},
         UNCHANGED <<user, ver, nodeUser, missed, ops>>,
         \A v \in Workers \ {w} : job'[v] = job[v],
         job'[w].pc = "finished", job'[w].row = job[w].row, job'[w].super = job[w].super,
         \A i \in Closing(w), u \in Users : ~Latest(i, u)
  PROVE  Deliveries'
  BY DEF Deliveries, NeedBounded, KindMatches, Carried, Delivered, WrongInFlight, NoWrongAccess,
         Latest, Wrong, Amiss, Owed, BuiltWrong, Want, Open, Closing, FullSyncJob

LEMMA LockDeliveries ==
  ASSUME Shape, Deliveries, NEW w \in Workers, LockAndBuild(w)
  PROVE  Deliveries'
<1>. DEFINE r == ops[job[w].row]
<1>. DEFINE value == IF r.kind \in AddKinds THEN ver[r.user] ELSE 0
<1>0. /\ job[w] \in Job /\ job[w].pc = "waiting" /\ job[w].row \in RowId /\ r \in Row
  BY DEF LockAndBuild, MutexFree, Targeted, Shape, TypeOK, Programs, InProgram
<1>1. UNCHANGED <<user, ver, nodeUser, missed, ops>> /\ \A v \in Workers \ {w} : job'[v] = job[v]
  BY DEF LockAndBuild, MutexFree, Targeted, Shape, TypeOK, database, table, node
<1>2. r.kind # "sync" => Closing(w) = {job[w].row} /\ r.user \in Users
  BY <1>0 DEF Closing, FullSyncJob, Shape, RowShape, Row, Programs, InProgram
<1>3. \/ job'[w] = FullConfig(job[w])
      \/ /\ r.kind # "sync" /\ "targeted" \in Delta
         /\ r.kind \in AddKinds /\ user[r.user] # "on"
         /\ job'[w] = [job[w] EXCEPT !.pc = "finished"]
      \/ /\ r.kind # "sync" /\ "targeted" \in Delta
         /\ r.kind \in AddKinds => user[r.user] = "on"
         /\ job'[w] = OneUser(job[w], r.user, value)
  BY DEF LockAndBuild, MutexFree, Targeted, Shape, TypeOK
<1>4. CASE job'[w] = FullConfig(job[w])
  <2>1. /\ job'[w].pc = "built" /\ job'[w].row = job[w].row /\ job'[w].super = job[w].super
        /\ job'[w].touch = Users /\ job'[w].users = [u \in Users |-> Want(u)]
    BY <1>0, <1>4 DEF FullConfig, Job
  <2>2. \A u \in Users : ~BuiltWrong(w, u)'
    BY <1>1, <2>1 DEF BuiltWrong, Amiss, Want
  <2>. QED
    BY <1>0, <1>1, <2>1, <2>2, BuildDeliveries
<1>5. CASE /\ r.kind # "sync" /\ "targeted" \in Delta
           /\ r.kind \in AddKinds /\ user[r.user] # "on"
           /\ job'[w] = [job[w] EXCEPT !.pc = "finished"]
  <2>1. /\ job'[w].pc = "finished" /\ job'[w].row = job[w].row /\ job'[w].super = job[w].super
    BY <1>0, <1>5 DEF Job
  <2>2. \A i \in Closing(w), u \in Users : ~Latest(i, u)
    BY <1>0, <1>2, <1>5 DEF Deliveries, KindMatches, Latest
  <2>. QED
    BY <1>0, <1>1, <2>1, <2>2, FinishedDeliveries
<1>6. CASE /\ r.kind # "sync" /\ "targeted" \in Delta
           /\ r.kind \in AddKinds => user[r.user] = "on"
           /\ job'[w] = OneUser(job[w], r.user, value)
  <2>1. /\ job'[w].pc = "built" /\ job'[w].row = job[w].row /\ job'[w].super = job[w].super
        /\ job'[w].touch = {r.user} /\ job'[w].users[r.user] = value
    BY <1>0, <1>2, <1>6 DEF OneUser, Job
  <2>2. \A u \in Users : ~BuiltWrong(w, u)'
    BY <1>1, <1>6, <2>1 DEF BuiltWrong, Amiss, Want
  <2>3. \A i \in Closing(w), u \in Users : Latest(i, u) => u \in job'[w].touch
    BY <1>2, <1>6, <2>1 DEF Latest
  <2>. QED
    BY <1>0, <1>1, <2>1, <2>2, <2>3, BuildDeliveries
<1>. QED
  BY <1>3, <1>4, <1>5, <1>6

(* Every step keeps what makes stale access impossible. *)
LEMMA DeliveriesStep ==
  ASSUME BulkSafe, Shape, Deliveries, [Next]_vars
  PROVE  Deliveries'
<1>0. \A w \in Workers : job[w] \in Job /\ InProgram(w)
  BY DEF Shape, TypeOK, Programs
<1>a. ASSUME UNCHANGED <<user, ver, nodeUser, missed, ops, next>>, NEW w \in Workers,
             \A v \in Workers \ {w} : job'[v] = job[v],
             job'[w].pc \notin {"built", "applied", "finished"}
      PROVE  Deliveries'
  BY <1>a, SameTable, DeliveriesKept DEF Shape, JobsKept
<1>b. ASSUME RowsKept, NoneClosed, UNCHANGED <<user, ver, nodeUser, missed, job>> PROVE Deliveries'
  BY <1>b, DeliveriesKept DEF JobsKept
<1>1. ASSUME NEW u \in Users, CreateUser(u) \/ UpdateUser(u) \/ DeleteUser(u) \/ BulkUpdate(u)
      PROVE  Deliveries'
  BY <1>1, ChangesCommit, CommitDeliveries
<1>2. CASE \/ ChangeConfig \/ ProbeUp \/ HealthDown \/ UNCHANGED vars
           \/ \E u \in Users : ProcessRuntimeUserOperations(u)
  BY <1>2, <1>b, SameTable
     DEF Shape, ChangeConfig, ProbeUp, HealthDown, ProcessRuntimeUserOperations,
         vars, database, table, node
<1>3. CASE QueueNodeSync
  BY <1>3, <1>b, QueueKept, SameTable DEF Shape, QueueNodeSync, database, table, node
<1>4. ASSUME NEW stale \in SUBSET Running, NEW ready \in SUBSET Retrying, FetchRows(stale, ready)
      PROVE  Deliveries'
  <2>1. RowsKept /\ NoneClosed
    BY <1>4, SyncKept DEF Shape, FetchRows, Recovered, Lagging
  <2>. QED
    BY <1>4, <1>b, <2>1 DEF FetchRows, Recovered, Lagging, database, node
<1>5. ASSUME NEW w \in Workers, ClaimRow(w) PROVE Deliveries'
  <2>. PICK i \in batch[w] :
         \/ /\ ops[i].status \in {"pending", "retrying"}
            /\ ops' = [ops EXCEPT ![i].status = "running"]
            /\ job' = [job EXCEPT ![w] = Claimed(i)]
         \/ UNCHANGED <<ops, job>>
    BY <1>5 DEF ClaimRow
  <2>1. UNCHANGED <<user, ver, nodeUser, missed, next>>
    BY <1>5 DEF ClaimRow, database, node
  <2>2. CASE UNCHANGED <<ops, job>>
    BY <1>b, <2>1, <2>2, SameTable DEF Shape
  <2>3. CASE /\ ops[i].status \in {"pending", "retrying"}
             /\ ops' = [ops EXCEPT ![i].status = "running"]
             /\ job' = [job EXCEPT ![w] = Claimed(i)]
    <3>1. ops' = WithStatus(ops, {i}, "running") /\ \A k \in {i} \cap RowId : ops[k].status # "free"
      BY <2>3 DEF WithStatus, Shape, TypeOK
    <3>2. RowsKept /\ NoneClosed
      BY <2>1, <3>1, WithStatusKept DEF Shape, RowStatus
    <3>3. job'[w].pc \notin {"built", "applied", "finished"} /\ \A v \in Workers \ {w} : job'[v] = job[v]
      BY <2>3 DEF Shape, TypeOK, Claimed, Idle
    <3>. QED
      BY <2>1, <3>2, <3>3, DeliveriesKept DEF JobsKept
  <2>. QED
    BY <2>2, <2>3
<1>6. CASE ReadSuperseded
  <2>1. job'["queue"].pc = "waiting" /\ \A v \in Workers \ {"queue"} : job'[v] = job[v]
    BY <1>0, <1>6 DEF ReadSuperseded, Shape, TypeOK, Workers, Job
  <2>. QED
    BY <1>6, <1>a, <2>1 DEF ReadSuperseded, database, table, node, Workers
<1>7. ASSUME NEW w \in Workers, LockAndBuild(w) PROVE Deliveries'
  BY <1>7, LockDeliveries
<1>8. CASE StartConnect \/ StartSync
  <2>1. job'["ctl"].pc \in {"queued", "locked"} /\ \A v \in Workers \ {"ctl"} : job'[v] = job[v]
    BY <1>0, <1>8 DEF StartConnect, MutexFree, StartSync, Shape, TypeOK, Workers, Job
  <2>2. RowsKept /\ NoneClosed
    BY <1>8, QueueKept DEF Shape, StartConnect, MutexFree, StartSync
  <2>3. UNCHANGED <<user, ver, nodeUser, missed>>
    BY <1>8 DEF StartConnect, MutexFree, StartSync, database, node
  <2>. QED
    BY <2>1, <2>2, <2>3, DeliveriesKept DEF JobsKept
<1>9. CASE SetConnecting \/ CtlReadSuperseded
  <2>1. job'["ctl"].pc \in {"locked", "reading"} /\ \A v \in Workers \ {"ctl"} : job'[v] = job[v]
    BY <1>0, <1>9 DEF SetConnecting, CtlReadSuperseded, Shape, TypeOK, Workers, Job
  <2>. QED
    BY <1>9, <1>a, <2>1 DEF SetConnecting, CtlReadSuperseded, database, table, node, Workers
<1>10. CASE CtlBuild
  <2>1. /\ job'["ctl"].pc = "built" /\ job'["ctl"].row = job["ctl"].row
        /\ job'["ctl"].super = job["ctl"].super
        /\ job'["ctl"].touch = Users /\ job'["ctl"].users = [u \in Users |-> Want(u)]
        /\ \A v \in Workers \ {"ctl"} : job'[v] = job[v]
    BY <1>0, <1>10 DEF CtlBuild, FullConfig, Shape, TypeOK, Workers, Job
  <2>2. UNCHANGED <<user, ver, nodeUser, missed, ops>>
    BY <1>10 DEF CtlBuild, database, table, node
  <2>3. \A u \in Users : ~BuiltWrong("ctl", u)'
    BY <2>1, <2>2 DEF BuiltWrong, Amiss, Want
  <2>4. "ctl" \in Workers /\ job["ctl"].pc \notin {"idle", "applied", "finished"}
    BY <1>10 DEF CtlBuild, Workers
  <2>. QED
    BY <2>1, <2>2, <2>3, <2>4, BuildDeliveries
<1>11. ASSUME NEW w \in Workers, ApplyOk(w) PROVE Deliveries'
  <2>1. /\ job'[w].pc \in {"applied", "finished"}
        /\ job'[w].row = job[w].row /\ job'[w].super = job[w].super
        /\ \A v \in Workers \ {w} : job'[v] = job[v]
    BY <1>0, <1>11 DEF ApplyOk, Shape, TypeOK, Job
  <2>. QED
    BY <1>11, <2>1, EffectDeliveries DEF ApplyOk, database, table
<1>12. ASSUME NEW w \in Workers, ApplyLost(w) PROVE Deliveries'
  <2>1. job'[w].pc \in {"idle", "failing"} /\ \A v \in Workers \ {w} : job'[v] = job[v]
    BY <1>0, <1>12 DEF ApplyLost, Fail, Shape, TypeOK, Job, Idle
  <2>. QED
    BY <1>12, <2>1, EffectDeliveries DEF ApplyLost, database, table
<1>13. ASSUME NEW w \in Workers, ApplyRefused(w) \/ FinishFails(w) \/ CloseFails(w) PROVE Deliveries'
  <2>1. job'[w].pc \in {"idle", "failing"} /\ \A v \in Workers \ {w} : job'[v] = job[v]
    BY <1>0, <1>13 DEF ApplyRefused, Fail, FinishFails, CloseFails, Shape, TypeOK, Job, Idle
  <2>. QED
    BY <1>13, <1>a, <2>1 DEF ApplyRefused, FinishFails, CloseFails, database, table, node
<1>14. ASSUME NEW w \in Workers, FinishRuntime(w) PROVE Deliveries'
  <2>1. /\ job[w].pc = "applied" /\ job'[w].pc = "finished"
        /\ job'[w].row = job[w].row /\ job'[w].super = job[w].super
        /\ job'[w].users = job[w].users /\ job'[w].touch = job[w].touch
        /\ \A v \in Workers \ {w} : job'[v] = job[v]
    BY <1>0, <1>14 DEF FinishRuntime, Shape, TypeOK, Job
  <2>. QED
    BY <1>14, <2>1, SameTable, DeliveriesKept
       DEF FinishRuntime, database, table, node, JobsKept, Shape
<1>15. ASSUME NEW w \in Workers, CloseRows(w) PROVE Deliveries'
  <2>1. \A i \in ClosedRows(w) \cap RowId : ops[i].status # "free"
    BY <1>15, ClosedRowsUsed, ClosingInTable DEF CloseRows, Shape, Programs, InProgram
  <2>2. RowsKept
    BY <1>15, <2>1, WithStatusKept DEF CloseRows, RowStatus, Shape
  <2>. QED
    BY <1>15, <2>2, CloseDeliveries
<1>16. ASSUME NEW w \in Workers, RecordFailure(w) PROVE Deliveries'
  <2>1. w # "ctl" /\ job[w].row \in RowId /\ ops[job[w].row].status # "free"
    BY <1>0, <1>16 DEF RecordFailure, InProgram
  <2>2. RowsKept /\ NoneClosed
    BY <1>16, <2>1, WithStatusKept, SameTable DEF RecordFailure, RowStatus, Shape
  <2>3. job'[w].pc = "idle" /\ \A v \in Workers \ {w} : job'[v] = job[v]
    BY <1>16 DEF RecordFailure, Shape, TypeOK, Idle
  <2>. QED
    BY <1>16, <2>2, <2>3, DeliveriesKept DEF RecordFailure, database, node, JobsKept
<1>17. CASE Crash
  BY <1>17, SameTable, DeliveriesKept DEF Crash, database, table, node, JobsKept, Idle, Shape
<1>. QED
  BY <1>1, <1>2, <1>3, <1>4, <1>5, <1>6, <1>7, <1>8, <1>9, <1>10, <1>11, <1>12, <1>13, <1>14,
     <1>15, <1>16, <1>17 DEF Next, Step, CtlStep, ProcessQueue

LEMMA DeliveriesInit == Init => Deliveries
<1> SUFFICES ASSUME Init PROVE Deliveries
  OBVIOUS
<1>1. \A i \in RowId, u \in Users : ~Latest(i, u)
  BY NodeOperationsAssumption DEF Init, Latest, FreeRow
<1>2. \A u \in Users : ~Wrong(u)
  BY DEF Init, Wrong, Amiss, Want
<1>3. \A w \in Workers : job[w].pc = "idle"
  BY DEF Init, Idle
<1>4. NeedBounded
  BY NodeOperationsAssumption DEF Init, NeedBounded, FreeRow
<1>. QED
  BY <1>1, <1>2, <1>3, <1>4
     DEF Deliveries, KindMatches, Carried, Delivered, WrongInFlight, NoWrongAccess

LEMMA DeliveriesEver == ASSUME BulkSafe PROVE Spec => [](Shape /\ Deliveries)
<1>1. Init => Shape /\ Deliveries
  BY ShapeInit, DeliveriesInit
<1>2. Shape /\ Deliveries /\ [Next]_vars => (Shape /\ Deliveries)'
  BY BulkSafe, ShapeStep, DeliveriesStep
<1>. QED
  BY <1>1, <1>2, PTL DEF Spec

(* A node that accepts a user it should not has a row left that says so,   *)
(* whatever the interleaving of the workers and the faults, where the      *)
(* node takes whole configurations or no bulk action disables or deletes.  *)
THEOREM NoStaleAccessEver == ASSUME BulkSafe PROVE Spec => []NoStaleAccess
<1>1. Shape /\ Deliveries => NoStaleAccess
  BY DEF Deliveries, NoWrongAccess, NoStaleAccess, Wrong, Amiss, Stale
<1>. QED
  BY <1>1, BulkSafe, DeliveriesEver, PTL

(* A user who is on has been changed at least once: he was created. *)
OnceChanged == \A u \in Users : user[u] = "on" => ver[u] # 0

LEMMA OnceChangedStep == TypeOK /\ OnceChanged /\ [Next]_vars => OnceChanged'
<1> SUFFICES ASSUME TypeOK, OnceChanged, [Next]_vars PROVE OnceChanged'
  OBVIOUS
<1>1. ASSUME NEW u \in Users, NEW to, NEW kind, Commit(u, to, kind) PROVE OnceChanged'
  <2>1. ver[u] \in Nat /\ ver'[u] = ver[u] + 1 /\ \A v \in Users \ {u} : user'[v] = user[v] /\ ver'[v] = ver[v]
    BY <1>1 DEF Commit, TypeOK
  <2>. QED
    BY <2>1 DEF OnceChanged
<1>2. ASSUME NEW u \in Users, CreateUser(u) \/ UpdateUser(u) \/ DeleteUser(u) \/ BulkUpdate(u) PROVE OnceChanged'
  BY <1>1, <1>2 DEF CreateUser, UpdateUser, DeleteUser, BulkUpdate
<1>3. ASSUME UNCHANGED <<user, ver>> PROVE OnceChanged'
  BY <1>3 DEF OnceChanged
<1>4. ASSUME NEW w \in Workers, \/ Step(w) \/ ApplyLost(w) \/ ApplyRefused(w)
                                    \/ FinishFails(w) \/ CloseFails(w)
      PROVE  UNCHANGED <<user, ver>>
  BY <1>4 DEF Step, ClaimRow, LockAndBuild, ApplyOk, FinishRuntime, CloseRows, RecordFailure, ApplyLost, ApplyRefused,
              FinishFails, CloseFails, database
<1>5. ASSUME \/ \E u \in Users : ProcessRuntimeUserOperations(u)
             \/ ChangeConfig \/ QueueNodeSync \/ ProcessQueue \/ ReadSuperseded \/ CtlStep
             \/ ProbeUp \/ HealthDown \/ Crash \/ UNCHANGED vars
      PROVE  UNCHANGED <<user, ver>>
  BY <1>5 DEF ProcessRuntimeUserOperations, ChangeConfig, QueueNodeSync, ProcessQueue, FetchRows, ReadSuperseded,
              CtlStep, StartSync, StartConnect, SetConnecting, CtlReadSuperseded, CtlBuild,
              ProbeUp, HealthDown, Crash, vars, database
<1>. QED
  BY <1>2, <1>3, <1>4, <1>5 DEF Next

(* Where the node takes whole configurations, a user who is on is accepted *)
(* by the node or a row is left that says so, whatever the interleaving of *)
(* the workers, of Connect and of Sync, and whatever the faults: no worker *)
(* brings an older configuration after a newer one.                        *)
THEOREM NoLostAccessEver == ASSUME "targeted" \notin Delta PROVE Spec => []NoLostAccess
<1>1. BulkSafe
  BY DEF BulkSafe
<1>2. Init => OnceChanged
  BY DEF Init, OnceChanged
<1>3. Shape => TypeOK
  BY DEF Shape
<1>4. Deliveries /\ OnceChanged => NoLostAccess
  BY DEF Deliveries, OnceChanged, NoWrongAccess, NoLostAccess, Wrong, Amiss, Want
<1>. QED
  BY <1>1, <1>2, <1>3, <1>4, DeliveriesEver, OnceChangedStep, PTL DEF Spec

-----------------------------------------------------------------------------
(* The refinement of NodeAccess *)

(* A step that neither changes a user, nor reaches the node, nor closes a  *)
(* row of a user.                                                          *)
Quiet == RowsKept /\ NoneClosed /\ UNCHANGED <<user, ver, nodeUser, missed>>

(* Every other step is a committed change, a call or the closing of rows.  *)
LEMMA StepKinds ==
  ASSUME Shape, [Next]_vars
  PROVE  \/ \E u \in Users, to \in {"on", "off", "deleted"}, kind \in UserKinds : Commit(u, to, kind)
         \/ \E w \in Workers : ApplyOk(w) \/ ApplyLost(w) \/ CloseRows(w)
         \/ Quiet
<1>1. CASE \E u \in Users : CreateUser(u) \/ UpdateUser(u) \/ DeleteUser(u) \/ BulkUpdate(u)
  BY <1>1, ChangesCommit
<1>2. CASE \/ ChangeConfig \/ ProbeUp \/ HealthDown \/ UNCHANGED vars \/ Crash
           \/ ReadSuperseded \/ SetConnecting \/ CtlReadSuperseded \/ CtlBuild
           \/ \E u \in Users : ProcessRuntimeUserOperations(u)
           \/ \E w \in Workers : LockAndBuild(w) \/ ApplyRefused(w) \/ FinishRuntime(w)
           \/ \E w \in Workers : FinishFails(w) \/ CloseFails(w)
  <2>1. UNCHANGED <<user, ver, nodeUser, missed, ops, next>>
    BY <1>2 DEF ChangeConfig, ProbeUp, HealthDown, Crash, ReadSuperseded, SetConnecting,
                CtlReadSuperseded, FinishFails, CtlBuild, ProcessRuntimeUserOperations, LockAndBuild, ApplyRefused, FinishRuntime,
                CloseFails, vars, database, table, node
  <2>. QED
    BY <2>1, SameTable DEF Shape, Quiet
<1>3. CASE QueueNodeSync \/ StartConnect \/ StartSync
  <2>1. (QueueSync(ops) \/ UNCHANGED <<ops, next>>) /\ UNCHANGED <<user, ver, nodeUser, missed>>
    BY <1>3 DEF QueueNodeSync, StartConnect, StartSync, database, table, node
  <2>. QED
    BY <2>1, SameTable, QueueKept DEF Shape, Quiet
<1>4. ASSUME NEW stale \in SUBSET Running, NEW ready \in SUBSET Retrying, FetchRows(stale, ready)
      PROVE  Quiet
  BY <1>4, SyncKept DEF Shape, FetchRows, Recovered, Lagging, Quiet, database, node
<1>5. ASSUME NEW w \in Workers, ClaimRow(w) PROVE Quiet
  <2>1. PICK i \in batch[w] :
          \/ ops[i].status \in {"pending", "retrying"} /\ ops' = [ops EXCEPT ![i].status = "running"]
          \/ UNCHANGED ops
    BY <1>5 DEF ClaimRow
  <2>2. UNCHANGED <<user, ver, nodeUser, missed, next>>
    BY <1>5 DEF ClaimRow, database, node
  <2>3. ASSUME ops[i].status \in {"pending", "retrying"}, ops' = [ops EXCEPT ![i].status = "running"]
        PROVE  RowsKept /\ NoneClosed
    <3>1. ops' = WithStatus(ops, {i}, "running") /\ \A k \in {i} \cap RowId : ops[k].status # "free"
      BY <2>3 DEF WithStatus, Shape, TypeOK
    <3>. QED
      BY <2>2, <3>1, WithStatusKept DEF Shape, RowStatus
  <2>. QED
    BY <2>1, <2>2, <2>3, SameTable DEF Quiet, Shape
<1>6. ASSUME NEW w \in Workers, RecordFailure(w) PROVE Quiet
  <2>1. job[w].row \in RowId /\ ops[job[w].row].status # "free"
    BY <1>6 DEF RecordFailure, Shape, Programs, InProgram
  <2>. QED
    BY <1>6, <2>1, WithStatusKept, SameTable
       DEF RecordFailure, RowStatus, Shape, Quiet, database, node
<1>. QED
  BY <1>1, <1>2, <1>3, <1>4, <1>5, <1>6 DEF Next, Step, CtlStep, ProcessQueue

(* A committed change is the promise's Change. *)
LEMMA CommitImplements ==
  ASSUME Shape, Shape', NEW u \in Users, NEW to, NEW kind \in UserKinds, Commit(u, to, kind)
  PROVE  Access!Change(u)
<1>1. /\ \A v \in Users \ {u} : user'[v] = user[v] /\ ver'[v] = ver[v]
      /\ ver'[u] = ver[u] + 1 /\ nodeUser' = nodeUser
  BY DEF Commit, Shape, TypeOK, node
<1>2. \A v \in Users \ {u} : Want(v)' = Want(v)
  BY <1>1 DEF Want
<1>3. \A v \in Users : Want(v)' \in Nat
  BY DEF Shape, TypeOK, Want
<1>4. u \in OwedUsers' /\ \A v \in Users \ {u} : v \in OwedUsers' <=> v \in OwedUsers
  <2>1. CASE UNCHANGED <<ops, next>> /\ missed' = missed \cup {u}
    <3>1. \A v \in Users \ {u} : Owed(v)' <=> Owed(v)
      BY <1>1, <2>1 DEF Owed, Open
    <3>. QED
      BY <2>1, <3>1 DEF OwedUsers
  <2>2. CASE /\ next \in RowId /\ next' = next + 1 /\ missed' = missed \ {u}
             /\ ops[next].status = "free" /\ ops'[next] = Pending(kind, u, ver[u] + 1)
             /\ \A i \in RowId \ {next} :
                  /\ ops'[i].kind = ops[i].kind /\ ops'[i].user = ops[i].user
                  /\ ops'[i].need = ops[i].need
                  /\ ops'[i].status = IF i \in CompactedRows(u) THEN "done" ELSE ops[i].status
    <3>1. ops'[next].user = u /\ ops'[next].need = ver'[u] /\ ops'[next].status = "pending"
      BY <1>1, <2>2 DEF Pending
    <3>2. Owed(u)'
      BY <2>2, <3>1 DEF Owed, Open, OpenStatus
    <3>3. ASSUME NEW v \in Users \ {u} PROVE Owed(v)' <=> Owed(v)
      <4>1. ops[next].user # v
        BY <2>2, NodeOperationsAssumption DEF Shape, RowShape
      <4>2. \A i \in RowId \ {next} : ops[i].user = v => ops'[i].status = ops[i].status
        BY <2>2 DEF CompactedRows
      <4>3. \A i \in RowId : /\ ops[i].user = v => ops'[i].user = v /\ ops'[i].need = ops[i].need
                                                    /\ ops'[i].status = ops[i].status
                             /\ ops'[i].user = v => ops[i].user = v
        BY <2>2, <3>1, <4>1, <4>2
      <4>4. ver'[v] = ver[v]
        BY <1>1
      <4>. QED
        BY <4>3, <4>4 DEF Owed, Open
    <3>. QED
      BY <2>2, <3>2, <3>3 DEF OwedUsers
  <2>. QED
    BY <2>1, <2>2, CommitRows DEF Shape
<1>. QED
  BY <1>1, <1>2, <1>3, <1>4 DEF Access!Change, OwedUsers

(* What a call brings to the node is current, nothing, or still owed; what *)
(* is no longer missed is current.                                         *)
LEMMA CallImplements ==
  ASSUME Shape, Shape', Deliveries, NEW w \in Workers, ApplyOk(w) \/ ApplyLost(w)
  PROVE  Access!Serve
<1>1. /\ UNCHANGED <<user, ver, ops>> /\ job[w].pc = "built" /\ (TakeEffect(w) \/ BreakOff(w))
      /\ nodeUser' \in [Users -> Nat]
  BY DEF ApplyOk, ApplyLost, database, table, Shape, TypeOK
<1>2. \A u \in Users : Want(u)' = Want(u) /\ (Owed(u)' <=> Owed(u))
  BY <1>1 DEF Want, Owed, Open
<1>3. ASSUME NEW u \in Users PROVE nodeUser'[u] \in {nodeUser[u], Want(u), 0} \/ u \in OwedUsers
  <2>1. CASE BuiltWrong(w, u)
    BY <1>1, <2>1 DEF Deliveries, WrongInFlight, OwedUsers
  <2>2. CASE ~BuiltWrong(w, u)
    BY <1>1, <2>2 DEF TakeEffect, BreakOff, BuiltWrong, Amiss, Shape, TypeOK
  <2>. QED
    BY <2>1, <2>2
<1>4. ASSUME NEW u \in OwedUsers \ OwedUsers' PROVE nodeUser'[u] \in {Want(u), 0}
  <2>1. u \in Users /\ u \in missed /\ u \notin missed'
    BY <1>2, <1>4 DEF OwedUsers
  <2>. QED
    BY <1>1, <2>1 DEF TakeEffect, BreakOff, Shape, TypeOK
<1>. QED
  BY <1>1, <1>2, <1>3, <1>4 DEF Access!Serve, OwedUsers

(* Rows are closed only for users the node accepts as they are or not at all. *)
LEMMA CloseImplements ==
  ASSUME Shape, Shape', Deliveries, NEW w \in Workers, CloseRows(w)
  PROVE  Access!Serve
<1>1. UNCHANGED <<user, ver, nodeUser, missed>> /\ nodeUser' \in [Users -> Nat] /\ job[w].pc = "finished"
  BY DEF CloseRows, database, node, Shape, TypeOK
<1>2. \A u \in Users : Want(u)' = Want(u)
  BY <1>1 DEF Want
<1>3. ASSUME NEW u \in OwedUsers \ OwedUsers' PROVE nodeUser'[u] \in {Want(u), 0}
  <2>1. u \in Users /\ Owed(u) /\ ~Owed(u)'
    BY <1>1, <1>3 DEF OwedUsers
  <2>2. PICK i \in RowId : Latest(i, u) /\ (Open(i) \/ ops[i].status = "failed")
    BY <2>1 DEF Owed, Latest
  <2>3. /\ ops'[i].user = ops[i].user /\ ops'[i].need = ops[i].need
        /\ ops'[i].status = IF i \in ClosedRows(w) THEN "done" ELSE ops[i].status
    BY WithStatusRows DEF CloseRows, Shape, TypeOK, RowStatus
  <2>4. i \in ClosedRows(w)
    BY <1>1, <2>1, <2>2, <2>3 DEF Owed, Latest, Open
  <2>5. i \in Closing(w)
    <3>1. u # NoUser
      BY <2>1, NodeOperationsAssumption
    <3>2. CASE w # "ctl" /\ i = job[w].row
      BY <2>2, <3>1, <3>2 DEF Closing, FullSyncJob, Latest, Shape, RowShape
    <3>. QED
      BY <1>1, <2>4, <3>2, ClosedRowsUsed DEF Shape
  <2>6. ~Wrong(u)
    BY <1>1, <2>1, <2>2, <2>5 DEF Deliveries, Delivered
  <2>. QED
    BY <1>1, <2>6 DEF Wrong, Amiss
<1>. QED
  BY <1>1, <1>2, <1>3 DEF Access!Serve, OwedUsers

LEMMA QuietImplements == ASSUME Shape, Shape', Quiet PROVE Access!Serve
<1>1. \A u \in Users : Want(u)' = Want(u) /\ (Owed(u) => Owed(u)')
  BY OwedKept DEF Quiet, Want, Shape
<1>2. nodeUser' = nodeUser /\ nodeUser' \in [Users -> Nat] /\ missed' = missed
  BY DEF Quiet, Shape, TypeOK
<1>. QED
  BY <1>1, <1>2 DEF Access!Serve, OwedUsers

(* The queue implements the promise, with any number of users, rows,       *)
(* changes and faults, where the node takes whole configurations or no     *)
(* bulk action disables or deletes: every step is a change that becomes    *)
(* owed, or serves the node without forgetting what it has not seen.       *)
THEOREM QueueKeepsPromise == ASSUME BulkSafe PROVE Spec => KeepsPromise
<1>1. Init => Access!Init
  <2> SUFFICES ASSUME Init PROVE Access!Init
    OBVIOUS
  <2>1. \A u \in Users : Want(u) = 0 /\ ~Owed(u)
    BY NodeOperationsAssumption DEF Init, Want, Owed, FreeRow
  <2>. QED
    BY <2>1 DEF Init, Access!Init, OwedUsers
<1>2. ASSUME Shape, Deliveries, [Next]_vars, Shape'
      PROVE  [Access!Next]_Access!vars
  <2>1. (\E u \in Users : Access!Change(u)) \/ Access!Serve
    BY <1>2, StepKinds, CommitImplements, CallImplements, CloseImplements, QuietImplements
  <2>. QED
    BY <2>1 DEF Access!Next
<1>3. Init => Shape /\ Deliveries
  BY ShapeInit, DeliveriesInit
<1>4. Shape /\ Deliveries /\ [Next]_vars => (Shape /\ Deliveries)'
  BY BulkSafe, ShapeStep, DeliveriesStep
<1>. QED
  BY <1>1, <1>2, <1>3, <1>4, PTL DEF Spec, KeepsPromise, Access!Spec
=============================================================================
