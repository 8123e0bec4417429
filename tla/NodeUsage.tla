----------------------------- MODULE NodeUsage -----------------------------
(***************************************************************************)
(* How the traffic a node reports is counted                               *)
(* (internal/app/nodecontroller/usage.go and usage_repository.go).         *)
(*                                                                         *)
(* The collector asks the node for a batch of samples, one per user,       *)
(* stages them in node_usage_user_queue and acknowledges the batch.  The   *)
(* flush worker adds staged samples to the counters of the users and their *)
(* admins, stops the users who reached their limit, copies the samples to  *)
(* the history and deletes the rows it is done with.  A batch the node     *)
(* holds no acknowledgement for is delivered again.                        *)
(*                                                                         *)
(* The node is any one node: rows are keyed by node, and a pass collects   *)
(* each node in a goroutine of its own.  The node process is external.     *)
(***************************************************************************)
EXTENDS Naturals, FiniteSets, FiniteSetsExt

CONSTANTS
  Users,       \* users of the panel
  Planned,     \* those with a next plan
  MaxBatch,    \* bound: batches the node makes
  MaxSample,   \* bound: traffic of one user in one batch
  MaxFaults,   \* bound: faults of one behaviour
  FlushLimit,  \* NodeUsageFlushBatchSize
  Limit,       \* data_limit of every user
  Outage       \* TRUE: a batch may go unacknowledged for longer than nodeUsageQueueRetention

ASSUME NodeUsageAssumption ==
  /\ IsFiniteSet(Users) /\ Planned \subseteq Users
  /\ {MaxBatch, MaxSample, MaxFaults} \subseteq Nat
  /\ FlushLimit \in Nat \ {0} /\ Limit \in Nat \ {0}
  /\ Outage \in BOOLEAN

VARIABLES
  made,      \* external: batches made so far, the last one has this id
  sample,    \* external: the samples of each batch
  unacked,   \* external: the batch the node waits an acknowledgement for, or 0
  held,      \* the batch the collector has in memory, or 0
  stored,    \* the collector has staged it
  row,       \* node_usage_user_queue, by batch and user
  used,      \* users.used_traffic
  logged,    \* user_usage_logs, added up: what each user had used at his resets
  lifetime,  \* admins.lifetime_usage, of all admins together
  status,    \* users.status: on (active, on_hold), limited, or off (disabled)
  plan,      \* users who still have a next plan
  forced,    \* ghost: users an administrator set to on with their limit used up
  taken,     \* ghost: how many flushes took each sample
  dropped,   \* ghost: samples taken while their user was not on, which counted for nobody
  recorded,  \* ghost: how often each sample was added to the history
  faults     \* faults so far

node      == <<made, sample, unacked>>
collector == <<held, stored>>
accounts  == <<used, logged, lifetime, status, plan, forced>>
ghosts    == <<taken, dropped, recorded>>
vars == <<node, collector, row, accounts, ghosts, faults>>

Batch == 1..MaxBatch
(* A sample is what the coefficients of node and inbound have made of it;   *)
(* one they round to 0 is never staged (aggregateUserUsageForStage), and    *)
(* forgotten with its batch.                                                *)
Sample == Batch \X Users
RowState == {"none", "staged", "counted", "done"}

(* Every variable keeps its type, and no counter of a user passes what the *)
(* node can have counted for him.                                          *)
TypeOK ==
  /\ made \in 0..MaxBatch /\ unacked \in 0..MaxBatch /\ held \in 0..MaxBatch
  /\ sample \in [Sample -> 0..MaxSample]
  /\ stored \in BOOLEAN
  /\ row \in [Sample -> RowState]
  /\ used \in [Users -> 0..(MaxBatch * MaxSample)]
  /\ logged \in [Users -> 0..(MaxBatch * MaxSample)]
  /\ lifetime \in Nat
  /\ status \in [Users -> {"on", "limited", "off"}]
  /\ plan \subseteq Users /\ forced \subseteq Users
  /\ taken \in [Sample -> Nat] /\ recorded \in [Sample -> Nat]
  /\ dropped \subseteq Sample
  /\ faults \in Nat

Init ==
  /\ sample = [s \in Sample |-> 0]
  /\ made = 0 /\ unacked = 0
  /\ held = 0 /\ stored = FALSE
  /\ row = [s \in Sample |-> "none"]
  /\ used = [u \in Users |-> 0] /\ logged = [u \in Users |-> 0] /\ lifetime = 0
  /\ status = [u \in Users |-> "on"]
  /\ plan = Planned /\ forced = {}
  /\ taken = [s \in Sample |-> 0] /\ recorded = [s \in Sample |-> 0] /\ dropped = {}
  /\ faults = 0

Fault == faults < MaxFaults /\ faults' = faults + 1

-----------------------------------------------------------------------------
(* The node *)

(* CollectUserUsage on the node: the batch that waits for its              *)
(* acknowledgement, or a new one of what has been counted since.           *)
Deliver(b) ==
  \/ unacked # 0 /\ b = unacked /\ UNCHANGED node
  \/ /\ unacked = 0 /\ made < MaxBatch
     /\ b = made + 1 /\ made' = b /\ unacked' = b
     /\ \E traffic \in [Users -> 0..MaxSample] :
          /\ \E u \in Users : traffic[u] > 0
          /\ sample' = [s \in Sample |-> IF s[1] = b THEN traffic[s[2]] ELSE sample[s]]

-----------------------------------------------------------------------------
(* The collector *)

Collect ==
  /\ held = 0
  /\ \E b \in Batch : Deliver(b) /\ held' = b
  /\ stored' = FALSE
  /\ UNCHANGED <<row, accounts, ghosts, faults>>

CollectLost ==
  /\ held = 0 /\ Fault
  /\ \E b \in Batch : Deliver(b)
  /\ UNCHANGED <<collector, row, accounts, ghosts>>

(* insertStagedUserUsage: the sample of a batch and user that is staged    *)
(* already is left as it is.                                               *)
StagedTwice(s) == TRUE
Stageable(s) == row[s] = "none"
Staged(b) ==
  [s \in Sample |-> IF s[1] = b /\ sample[s] > 0 /\ Stageable(s) THEN "staged" ELSE row[s]]

Store ==
  /\ held # 0 /\ ~stored
  /\ row' = Staged(held)
  /\ stored' = TRUE
  /\ UNCHANGED <<node, held, accounts, ghosts, faults>>

(* The transaction fails, or its answer is lost: the batch is given up.    *)
StoreFails ==
  /\ held # 0 /\ ~stored /\ Fault
  /\ row' \in {row, Staged(held)}
  /\ held' = 0
  /\ UNCHANGED <<node, stored, accounts, ghosts>>

AckUnstored == held # 0
Acknowledgeable == held # 0 /\ stored

AckUserUsage ==
  /\ Acknowledgeable
  /\ unacked' = IF unacked = held THEN 0 ELSE unacked
  /\ held' = 0 /\ stored' = FALSE
  /\ UNCHANGED <<made, sample, row, accounts, ghosts, faults>>

AckLost ==
  /\ Acknowledgeable /\ Fault
  /\ unacked' \in {unacked, IF unacked = held THEN 0 ELSE unacked}
  /\ held' = 0 /\ stored' = FALSE
  /\ UNCHANGED <<made, sample, row, accounts, ghosts>>

-----------------------------------------------------------------------------
(* The flush worker *)

Older(s, t) == s[1] < t[1]
StagedRows == {s \in Sample : row[s] = "staged"}

(* The oldest rows of a query, up to the limit of a flush.                 *)
Oldest(S, rows) ==
  /\ S # {} /\ S \subseteq rows
  /\ Cardinality(S) = Min({FlushLimit, Cardinality(rows)})
  /\ \A s \in S, t \in rows \ S : ~Older(t, s)

PendingUsage(S, u) == SumFunctionOnSet(sample, {s \in StagedRows : s[2] = u})
Usage(S, u) == SumFunctionOnSet(sample, {s \in S : s[2] = u})

LimitPassed(total) == total > Limit
LimitReached(total) == total >= Limit

NeverMarked(S) == row
Counted(S) == [s \in Sample |-> IF s \in S THEN "counted" ELSE row[s]]

(* loadUsageUserMapping: only users who are on are charged.                *)
Charged(S) == {u \in Users : status[u] = "on" /\ \E s \in S : s[2] = u}
Total(S, u) == used[u] + Usage(S, u)
Stopped(S) == {u \in Charged(S) : LimitReached(Total(S, u))}

(* What the users' admins are charged.                                     *)
CreditedForAll(S) == SumFunctionOnSet([u \in Users |-> Usage(S, u)], {s[2] : s \in S})
Credited(S) == SumFunctionOnSet([u \in Users |-> Usage(S, u)], Charged(S))

(* One transaction: the users and their admins are charged, users who      *)
(* reach their limit get their next plan, which logs what they have used,  *)
(* or are stopped, and the rows are processed.                             *)
FlushStagedUsage ==
  \E S \in SUBSET StagedRows :
     /\ Oldest(S, StagedRows)
     /\ used' = [u \in Users |-> IF u \in Stopped(S) \cap plan THEN 0
                                 ELSE IF u \in Charged(S) THEN Total(S, u) ELSE used[u]]
     /\ logged' = [u \in Users |-> IF u \in Stopped(S) \cap plan THEN logged[u] + Total(S, u) ELSE logged[u]]
     /\ lifetime' = lifetime + Credited(S)
     /\ status' = [u \in Users |-> IF u \in Stopped(S) \ plan THEN "limited" ELSE status[u]]
     /\ plan' = plan \ Stopped(S) /\ forced' = forced \ Stopped(S)
     /\ row' = Counted(S)
     /\ taken' = [s \in Sample |-> IF s \in S THEN taken[s] + 1 ELSE taken[s]]
     /\ dropped' = dropped \cup {s \in S : s[2] \notin Charged(S)}
     /\ UNCHANGED <<node, collector, recorded, faults>>

CountedOrDone(s) == row[s] \in {"counted", "done"}
HistoryDue(s) == row[s] = "counted"

FlushStagedUsageHistory ==
  \E S \in SUBSET {s \in Sample : HistoryDue(s)} :
     /\ Oldest(S, {s \in Sample : HistoryDue(s)})
     /\ recorded' = [s \in Sample |-> IF s \in S THEN recorded[s] + 1 ELSE recorded[s]]
     /\ row' = [s \in Sample |-> IF s \in S THEN "done" ELSE row[s]]
     /\ UNCHANGED <<node, collector, accounts, taken, dropped, faults>>

(* A row is kept for nodeUsageQueueRetention after it was done.            *)
PruneProcessedUsageQueue ==
  /\ \E s \in Sample :
       /\ row[s] = "done"
       /\ Outage \/ (s[1] # unacked /\ s[1] # held)
       /\ row' = [row EXCEPT ![s] = "none"]
  /\ UNCHANGED <<node, collector, accounts, ghosts, faults>>

-----------------------------------------------------------------------------
(* The API, the lifecycle jobs and restarts *)

DisableUser(u) ==
  /\ status[u] # "off"
  /\ status' = [status EXCEPT ![u] = "off"] /\ forced' = forced \ {u}
  /\ UNCHANGED <<node, collector, row, used, logged, lifetime, plan, ghosts, faults>>

(* A new status alone is taken as it is given, whatever has been used.     *)
EnableUser(u) ==
  /\ status[u] # "on"
  /\ status' = [status EXCEPT ![u] = "on"]
  /\ forced' = IF LimitReached(used[u]) THEN forced \cup {u} ELSE forced
  /\ UNCHANGED <<node, collector, row, used, logged, lifetime, plan, ghosts, faults>>

(* What has been used is logged, then cleared.                             *)
Cleared(u) == used' = [used EXCEPT ![u] = 0] /\ logged' = [logged EXCEPT ![u] = @ + used[u]]

ResetUser(u) ==
  /\ used[u] > 0
  /\ Cleared(u)
  /\ status' = [status EXCEPT ![u] = IF @ = "limited" THEN "on" ELSE @]
  /\ forced' = forced \ {u}
  /\ UNCHANGED <<node, collector, row, lifetime, plan, ghosts, faults>>

(* runUsersReviewOnce                                                      *)
ReviewUser(u) ==
  /\ status[u] = "on" /\ LimitReached(used[u])
  /\ IF u \in plan
       THEN Cleared(u) /\ UNCHANGED status
       ELSE status' = [status EXCEPT ![u] = "limited"] /\ UNCHANGED <<used, logged>>
  /\ plan' = plan \ {u} /\ forced' = forced \ {u}
  /\ UNCHANGED <<node, collector, row, lifetime, ghosts, faults>>

Crash ==
  /\ held # 0 /\ Fault
  /\ held' = 0 /\ stored' = FALSE
  /\ UNCHANGED <<node, row, accounts, ghosts>>

Next ==
  \/ \E u \in Users : DisableUser(u) \/ EnableUser(u) \/ ResetUser(u) \/ ReviewUser(u)
  \/ Collect \/ CollectLost \/ Store \/ StoreFails \/ AckUserUsage \/ AckLost
  \/ FlushStagedUsage \/ FlushStagedUsageHistory \/ PruneProcessedUsageQueue
  \/ Crash

Spec == Init /\ [][Next]_vars

(* Fairness: the collector and the flush worker run again after every      *)
(* interval, and a connected node is reached unless a fault intervenes.    *)
Fairness ==
  /\ WF_vars(Collect) /\ WF_vars(Store) /\ WF_vars(AckUserUsage)
  /\ WF_vars(FlushStagedUsage)
FairSpec == Spec /\ Fairness

-----------------------------------------------------------------------------
(* Properties *)

(* No sample is charged twice, however often its batch is delivered,       *)
(* staged and flushed.                                                     *)
NeverTwice == \A s \in Sample : taken[s] <= 1

(* The history has every sample once at most, and only samples that were   *)
(* charged or dropped before.                                              *)
HistoryOnce == \A s \in Sample : recorded[s] <= 1 /\ recorded[s] <= taken[s]

(* Every byte is accounted for: what a user has used and what was logged   *)
(* at his resets add up to the samples charged to him, each of them once,  *)
(* whatever is delivered, staged, flushed and reset in between.            *)
TrafficAccounted ==
  \A u \in Users : used[u] + logged[u] = Usage({s \in Sample : taken[s] > 0} \ dropped, u)

(* The admins are charged what their users are: the counters of the admins *)
(* are the sum of what the users have used since they were created.        *)
AdminsAgree == lifetime = SumFunctionOnSet([u \in Users |-> used[u] + logged[u]], Users)

(* What the node has forgotten is staged or was taken by a flush: it is    *)
(* told to forget a batch only after the batch is in the database.         *)
ForgottenIsKept ==
  \A s \in Sample :
    s[1] <= made /\ s[1] # unacked /\ sample[s] > 0 => row[s] = "staged" \/ taken[s] > 0

(* What the node has forgotten is charged to its user or will be.          *)
AckSafe ==
  \A s \in Sample : s[1] <= made /\ s[1] # unacked => s \notin dropped

(* A user who is on is below the limit, or an administrator set him to on  *)
(* after it was used up: the flush that counts the traffic stops the user. *)
LimitKept == \A u \in Users : status[u] = "on" /\ used[u] >= Limit => u \in forced

(* Traffic the node has put in a batch is taken by a flush in the end,     *)
(* whatever calls are lost on the way.                                     *)
EverySampleTaken == \A s \in Sample : sample[s] > 0 ~> taken[s] > 0
=============================================================================
