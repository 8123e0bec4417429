--------------------------- MODULE UserLifecycle ---------------------------
(***************************************************************************)
(* The life of a user's row (internal/app/user): the three jobs that       *)
(* review, reset and delete users (lifecycle.go), the enforcement inside   *)
(* a usage flush (nodecontroller/usage_repository.go) and the mutations of *)
(* the API, one user at a time and in bulk.                                *)
(*                                                                         *)
(* A job is one transaction in two steps: it reads the rows, then writes   *)
(* and commits.  The database is SQLite in WAL mode, which refuses the     *)
(* writes of a transaction whose snapshot another commit has passed; every *)
(* other operation is short and stands for one step.  The clock counts     *)
(* days: a job does not last that long.                                    *)
(***************************************************************************)
EXTENDS Integers, Sequences, FiniteSets

CONSTANTS
  UserIds,      \* users, ordered by id
  InitialRows,  \* the rows the behaviour starts from
  Periodic,     \* users with a data_limit_reset_strategy, here of one day
  DeleteAfter,  \* auto_delete_in_days of each user, or -1 (never)
  Edits,        \* what UpdateUser may be asked to change
  IncludeLimited,  \* AutodeleteOptions.IncludeLimited
  BatchSize,    \* LifecycleOptions.BatchSize, UsageResetOptions.BatchSize, AutodeleteOptions.BatchSize
  MaxClock,     \* bound: days
  MaxTraffic,   \* bound: traffic of one user
  MaxEdits      \* bound: mutations through the API

VARIABLES
  users,     \* the table, with the plans (next_plans) and reset log (user_usage_logs) of each user
  clock,     \* time.Now, in days
  snapshot,  \* what each job has read in its open transaction, or NoTx
  queued,    \* the users the last step queued a node operation for
  traffic,   \* ghost: all traffic ever counted for each user
  usable,    \* ghost: the last day each user was active
  edits      \* mutations so far

lifecycleVars == <<users, clock, snapshot, queued, traffic, usable, edits>>

Jobs == {"review", "reset", "autodelete"}
FirstDay == 3    \* times are positive: 0 stands for NULL
NoTx == <<>>     \* a job with no transaction open has read no rows
Keep == -1      \* an absent field of an edit
NoHold == -1    \* on_hold_expire_duration NULL; a limit or an expire of 0 is NULL

UserStatus == {"active", "on_hold", "limited", "expired", "disabled", "deleted"}
Plan == [trigger: {"data", "expire", "either"}, limit: Nat, expire: Nat,
         carry: BOOLEAN, increase: BOOLEAN, firstConnect: BOOLEAN]
UserRow ==
  [status: UserStatus, used: Nat, limit: Nat, expire: Int, hold: Int, timeout: Nat,
   online: {"never", "before", "since"},   \* online_at, against edit_at or created_at
   plans: Seq(Plan), reset: Nat, logged: Nat, changed: Nat]
Edit == [status: UserStatus \cup {"keep"}, limit: Int, expire: Int, hold: Int]

ASSUME LifecycleAssumption ==
  /\ UserIds \subseteq Nat /\ IsFiniteSet(UserIds) /\ UserIds # {}
  /\ InitialRows \in [UserIds -> UserRow]
  /\ Periodic \subseteq UserIds /\ DeleteAfter \in [UserIds -> Int]
  /\ Edits \subseteq Edit
  /\ \A e \in Edits : e.limit >= Keep /\ e.expire >= Keep
  /\ BatchSize \in Nat \ {0} /\ IncludeLimited \in BOOLEAN
  /\ {MaxClock, MaxTraffic, MaxEdits} \subseteq Nat

Runtime == {"active", "on_hold"}
Limited(r) == r.limit > 0 /\ r.used >= r.limit
Expired(r) == r.expire > 0 /\ r.expire <= clock

StatusOnly(r, s) == [r EXCEPT !.status = s]
(* UPDATE users SET status = ?, last_status_change = ? *)
WithStatus(r, s) == [r EXCEPT !.status = s, !.changed = clock]
(* last_status_change = CASE WHEN status != ? ... *)
ToStatus(r, s) == IF r.status = s THEN r ELSE WithStatus(r, s)

Unlogged(r) == [r EXCEPT !.used = 0, !.reset = clock]
(* The log keeps what was used before a reset. *)
Logged(r) == [r EXCEPT !.logged = @ + r.used, !.used = 0, !.reset = clock]

Remaining(r) == IF r.limit > r.used THEN r.limit - r.used ELSE 0
(* Whether the first plan of r carries over what remains; the flush reads   *)
(* the same flag the other way round.                                       *)
Carries(r) == r.plans # <<>> /\ Head(r.plans).carry
UsageCarries(r) == r.plans # <<>> /\ ~Head(r.plans).carry
NewLimit(p, r, carried) ==
  IF p.increase THEN r.limit + p.limit
  ELSE IF carried THEN p.limit + Remaining(r) ELSE p.limit

(* The first plan takes effect: a fresh counter, the plan's limit and date *)
(* and the status active, whatever it was.                                  *)
ApplyPlan(r, carried) ==
  LET p == Head(r.plans) IN
  [WithStatus(Logged(r), "active") EXCEPT
     !.limit = NewLimit(p, r, carried),
     !.expire = IF p.expire > 0 THEN p.expire ELSE @,
     !.plans = Tail(@)]

Unstarted(r) == r.online = "never" /\ r.used = 0
NextPlanMatches(r) ==
  /\ r.plans # <<>>
  /\ ~(Head(r.plans).firstConnect /\ Unstarted(r))
  /\ \/ Head(r.plans).trigger = "either"
     \/ Head(r.plans).trigger = "data" /\ Limited(r)
     \/ Head(r.plans).trigger = "expire" /\ Expired(r)
     \/ Limited(r) /\ Expired(r)

(* A user who reached a limit gets the next plan or loses access. *)
Enforced(r, carried) ==
  IF ~Limited(r) /\ ~Expired(r) THEN r
  ELSE IF NextPlanMatches(r) THEN ApplyPlan(r, carried)
  ELSE WithStatus(r, IF Limited(r) THEN "limited" ELSE "expired")

HoldDue(r) == r.online = "since" \/ (r.timeout > 0 /\ r.timeout <= clock)
OffHold(r) ==
  [WithStatus(r, "active") EXCEPT
     !.expire = IF r.hold = NoHold THEN @ ELSE clock + r.hold,
     !.hold = NoHold, !.timeout = 0]

(* ORDER BY id LIMIT ? *)
FirstOf(S) == {u \in S : Cardinality({v \in S : v < u}) < BatchSize}

(* How the rows of S change, the others staying as they are. *)
Changed(rows, S, F(_)) == [u \in UserIds |-> IF u \in S THEN F(rows[u]) ELSE rows[u]]

-----------------------------------------------------------------------------
(* A commit that wrote something ends the transactions that read before    *)
(* it: they can no longer write.                                           *)
PassedNone(j, rows, ops) == [k \in Jobs |-> IF k = j THEN NoTx ELSE snapshot[k]]
Passed(j, rows, ops) == [k \in Jobs |-> IF k = j \/ rows # users \/ ops # {} THEN NoTx ELSE snapshot[k]]
Commit(j, rows, ops) ==
  /\ users' = rows
  /\ queued' = ops
  /\ snapshot' = Passed(j, rows, ops)
  /\ usable' = [u \in UserIds |-> IF "active" \in {users[u].status, rows[u].status} THEN clock ELSE usable[u]]
  /\ UNCHANGED clock

Tick ==
  /\ clock < MaxClock
  /\ \A j \in Jobs : snapshot[j] = NoTx
  /\ clock' = clock + 1
  /\ usable' = [u \in UserIds |-> IF users[u].status = "active" THEN clock + 1 ELSE usable[u]]
  /\ queued' = {}
  /\ UNCHANGED <<users, snapshot, traffic, edits>>

Begin(j) ==
  /\ snapshot[j] = NoTx
  /\ snapshot' = [snapshot EXCEPT ![j] = users]
  /\ queued' = {}
  /\ UNCHANGED <<users, clock, traffic, usable, edits>>

(* reviewUserLifecycle: active rows, then inactive ones, then those on hold, *)
(* each query reading what the ones before it wrote.                         *)
FirstActiveRows(rows) ==
  {u \in FirstOf({v \in UserIds : rows[v].status = "active"}) : Limited(rows[u]) \/ Expired(rows[u])}
ActiveRows(rows) == FirstOf({u \in UserIds : rows[u].status = "active" /\ (Limited(rows[u]) \/ Expired(rows[u]))})
InactiveRows(rows) ==
  FirstOf({u \in UserIds :
    \/ rows[u].status = "limited" /\ ~Limited(rows[u])
    \/ rows[u].status = "expired" /\ (Limited(rows[u]) \/ ~Expired(rows[u]))})
ConnectedRows(rows) == {u \in FirstOf({v \in UserIds : rows[v].status = "on_hold"}) : rows[u].online = "since"}
OnHoldRows(rows) == {u \in FirstOf({v \in UserIds : rows[v].status = "on_hold"}) : HoldDue(rows[u])}

EnforcedByReview(r) == Enforced(r, Carries(r))
Corrected(r) == WithStatus(r, IF Limited(r) THEN "limited" ELSE IF Expired(r) THEN "expired" ELSE "active")

ReviewLifecycle ==
  /\ snapshot["review"] # NoTx
  /\ \E first \in {ActiveRows(snapshot["review"])} :
     \E seen \in {Changed(snapshot["review"], first, EnforcedByReview)} :
     \E second \in {InactiveRows(seen)} :
     \E fixed \in {Changed(seen, second, Corrected)} :
     \E third \in {OnHoldRows(fixed)} :
     \E rows \in {Changed(fixed, third, OffHold)} :
       Commit("review", rows, first \cup {u \in second : fixed[u].status = "active"} \cup third)
  /\ UNCHANGED <<traffic, edits>>

(* resetPeriodicUserUsage; the batch is taken before the due dates are read. *)
PeriodicRows(rows) ==
  {u \in FirstOf({v \in Periodic : rows[v].status \in {"active", "limited"}}) : rows[u].reset < clock}
Restarted(r) ==
  LET l == Logged(r) IN [ToStatus(l, "active") EXCEPT !.plans = <<>>]
ResetPeriodicUsage ==
  /\ snapshot["reset"] # NoTx
  /\ LET rows == snapshot["reset"] IN Commit("reset", Changed(rows, PeriodicRows(rows), Restarted), PeriodicRows(rows))
  /\ UNCHANGED <<traffic, edits>>

(* autodeleteExpiredUsers; last_status_change stays as it is, and a row     *)
(* without one is never old enough.                                         *)
AutodeleteStatus == IF IncludeLimited THEN {"expired", "limited"} ELSE {"expired"}
AgedSince(r, days) == r.changed > 0 /\ r.changed + days <= clock
AgedRows(rows) ==
  {u \in FirstOf({v \in UserIds : rows[v].status \in AutodeleteStatus}) :
     DeleteAfter[u] >= 0 /\ AgedSince(rows[u], DeleteAfter[u])}
Deleted(r) == [r EXCEPT !.status = "deleted"]
AutodeleteExpiredUsers ==
  /\ snapshot["autodelete"] # NoTx
  /\ LET rows == snapshot["autodelete"] IN Commit("autodelete", Changed(rows, AgedRows(rows), Deleted), AgedRows(rows))
  /\ UNCHANGED <<traffic, edits>>

(* touchUsersOnline, when a node's report is taken in: a transaction of its *)
(* own, before the traffic of the report is staged and flushed.             *)
TouchOnline(u) ==
  /\ users[u].status \in Runtime /\ users[u].online # "since"
  /\ Commit("touch", [users EXCEPT ![u].online = "since"], {})
  /\ UNCHANGED <<traffic, edits>>

(* One row of a usage flush: the counter, then enforceUsageLifecycle. *)
Used(r) == [r EXCEPT !.used = @ + 1]
EnforcedByFlush(r) ==
  Enforced(IF r.status = "on_hold" /\ HoldDue(r) THEN OffHold(r) ELSE r, UsageCarries(r))
FlushUsage(u) ==
  /\ users[u].status \in Runtime
  /\ traffic[u] < MaxTraffic
  /\ LET r == EnforcedByFlush(Used(users[u]))
     IN  Commit("flush", [users EXCEPT ![u] = r], IF r = Used(users[u]) THEN {} ELSE {u})
  /\ traffic' = [traffic EXCEPT ![u] = @ + 1]
  /\ UNCHANGED edits
-----------------------------------------------------------------------------
Mutation(rows, ops) ==
  /\ edits < MaxEdits /\ edits' = edits + 1
  /\ Commit("api", rows, ops)
  /\ UNCHANGED traffic

(* operationForStatusChange: none between two statuses without access *)
OpForLoss(u, r) == IF users[u].status \notin Runtime THEN {} ELSE {u}
OpFor(u, r) == IF {users[u].status, r.status} \cap Runtime = {} THEN {} ELSE {u}
Anyone(u) == TRUE
Exists(u) == users[u].status # "deleted"

(* updateUserMutation: the status asked for, then what a new limit and a *)
(* new date make of it.                                                   *)
StatusAfter(r, e) ==
  LET limit  == IF e.limit = Keep THEN r.limit ELSE e.limit
      expire == IF e.expire = Keep THEN r.expire ELSE e.expire
      asked  == IF e.status = "keep" THEN r.status ELSE e.status
      byLimit == IF e.limit = Keep \/ asked \notin {"active", "limited"} THEN asked
                 ELSE IF limit > 0 /\ r.used >= limit THEN "limited" ELSE "active"
  IN  IF e.expire = Keep \/ byLimit \notin {"active", "expired"} THEN byLimit
      ELSE IF expire > 0 /\ expire <= clock THEN "expired" ELSE "active"
Modified(r, e) ==
  [ToStatus(r, StatusAfter(r, e)) EXCEPT
     !.limit = IF e.limit = Keep THEN @ ELSE e.limit,
     !.expire = IF e.expire = Keep THEN @ ELSE e.expire,
     !.hold = IF e.hold = Keep THEN @ ELSE e.hold,
     !.online = IF @ = "since" THEN "before" ELSE @]    \* edit_at is now
UpdateUser(u, e) ==
  /\ Exists(u)
  /\ LET r == Modified(users[u], e) IN Mutation([users EXCEPT ![u] = r], OpFor(u, r))

DeleteUser(u) ==
  /\ Exists(u)
  /\ Mutation([users EXCEPT ![u] = WithStatus(@, "deleted")], {u})

(* resetUserMutation writes last_status_change whether the status changes or not. *)
ResetUser(u) ==
  /\ Exists(u)
  /\ LET r == WithStatus(Logged(users[u]), IF users[u].status = "limited" THEN "active" ELSE users[u].status)
     IN  Mutation([users EXCEPT ![u] = r], OpFor(u, r))

(* activeNextMutation *)
ActiveNext(u) ==
  /\ Exists(u)
  /\ users[u].plans # <<>>
  /\ ~(Head(users[u].plans).firstConnect /\ Unstarted(users[u]))
  /\ LET r == ApplyPlan(users[u], Carries(users[u]))
     IN  Mutation([users EXCEPT ![u] = r], OpFor(u, r))

(* The users a bulk action is about: those of an admin, a service or a list, *)
(* with a status of the scope, never the deleted ones (bulkFilter).          *)
InScope(S, scope) == {u \in S : Exists(u) /\ users[u].status \in scope}
Scopes == {{"active"}, UserStatus \ {"deleted"}}

ShiftedExpire(r, d) ==
  LET e == r.expire + d IN
  [ToStatus(r, IF r.status \in {"disabled", "limited"} THEN r.status
               ELSE IF e <= clock THEN "expired"
               ELSE "active") EXCEPT !.expire = e]
ShiftedHold(r, d) == [r EXCEPT !.hold = IF @ + d < 0 THEN 0 ELSE @ + d]
AdjustExpire(S, scope, d) ==
  LET dated == {u \in InScope(S, scope \ {"on_hold"}) : users[u].expire # 0}
      held  == {u \in InScope(S, scope \cap {"on_hold"}) : users[u].hold # NoHold}
  IN  Mutation([u \in UserIds |->
                  IF u \in dated THEN ShiftedExpire(users[u], d)
                  ELSE IF u \in held THEN ShiftedHold(users[u], d) ELSE users[u]],
               InScope(S, scope))

(* A limit lowered to nothing becomes no limit (adjustBulkLimitTx). *)
ShiftedLimit(r, d) ==
  LET l == IF r.limit + d < 0 THEN 0 ELSE r.limit + d IN
  [ToStatus(r, IF r.status \in {"disabled", "on_hold", "expired"} THEN r.status
               ELSE IF l > 0 /\ r.used >= l THEN "limited"
               ELSE "active") EXCEPT !.limit = l]
AdjustLimit(S, scope, d) ==
  LET hit == {u \in InScope(S, scope) : users[u].limit > 0}
      Shift(r) == ShiftedLimit(r, d)
  IN  Mutation(Changed(users, hit, Shift), hit)

(* updateBulkStatusTx *)
SetStatus(S, s) ==
  LET hit == {u \in S : Exists(u) /\ users[u].status # s}
      Set(r) == WithStatus(r, s)
  IN  Mutation(Changed(users, hit, Set), hit)

(* cleanupBulkStatusTx *)
Cleanup(S, days) ==
  LET hit == {u \in InScope(S, {"expired", "limited"}) : AgedSince(users[u], days)}
  IN  Mutation(Changed(users, hit, Deleted), hit)

(* deleteBulkUsersTx *)
DeleteUsers(S, scope) ==
  LET Delete(r) == WithStatus(r, "deleted")
      hit == InScope(S, scope)
  IN  Mutation(Changed(users, hit, Delete), hit)

BulkUsersAction ==
  \E S \in SUBSET UserIds \ {{}} :
    \/ \E scope \in Scopes, d \in {-1, 1} : AdjustExpire(S, scope, d) \/ AdjustLimit(S, scope, d)
    \/ \E s \in {"active", "disabled"} : SetStatus(S, s)
    \/ Cleanup(S, 1)
    \/ \E scope \in Scopes : DeleteUsers(S, scope)
-----------------------------------------------------------------------------
LifecycleInit ==
  /\ users = InitialRows
  /\ clock = FirstDay
  /\ snapshot = [j \in Jobs |-> NoTx]
  /\ queued = {}
  /\ traffic = [u \in UserIds |-> InitialRows[u].used + InitialRows[u].logged]
  /\ usable = [u \in UserIds |-> 0]
  /\ edits = 0

JobCommit(j) ==
  \/ j = "review" /\ ReviewLifecycle
  \/ j = "reset" /\ ResetPeriodicUsage
  \/ j = "autodelete" /\ AutodeleteExpiredUsers

LifecycleNext ==
  \/ Tick
  \/ \E j \in Jobs : Begin(j) \/ JobCommit(j)
  \/ \E u \in UserIds :
       \/ TouchOnline(u) \/ FlushUsage(u)
       \/ DeleteUser(u) \/ ResetUser(u) \/ ActiveNext(u)
       \/ \E e \in Edits : UpdateUser(u, e)
  \/ BulkUsersAction

(* The review runs for as long as the server does; nothing below needs the *)
(* other two jobs.                                                         *)
LifecycleFairness == WF_lifecycleVars(Begin("review")) /\ WF_lifecycleVars(ReviewLifecycle)
LifecycleSpec == LifecycleInit /\ [][LifecycleNext]_lifecycleVars /\ LifecycleFairness
-----------------------------------------------------------------------------
(* Every row keeps its type, and a job's open transaction sees the rows as *)
(* they are.                                                               *)
LifecycleTypeOK ==
  /\ users \in [UserIds -> UserRow]
  /\ clock \in Nat
  /\ snapshot \in [Jobs -> {NoTx, users}]
  /\ queued \subseteq UserIds
  /\ traffic \in [UserIds -> Nat] /\ usable \in [UserIds -> Nat]

(* Traffic is never lost: what a user used and what his resets logged is   *)
(* all that was ever counted for him, whatever jobs, plans, flushes and    *)
(* mutations run beside each other.                                        *)
TrafficConserved == \A u \in UserIds : users[u].used + users[u].logged = traffic[u]

(* A deleted user never comes back: no job that read him before, no plan   *)
(* and no bulk action sets him to another status.                          *)
DeletedStays ==
  [][\A u \in UserIds : users[u].status = "deleted" => users'[u].status = "deleted"]_lifecycleVars

(* Whoever gains or loses access is told to the nodes by the same          *)
(* transaction, whichever path changed him.                                *)
AccessQueued ==
  [][\A u \in UserIds : (users[u].status \in Runtime) # (users'[u].status \in Runtime) => u \in queued']_lifecycleVars

(* The days autodelete and cleanup count from last_status_change start     *)
(* after the last day the user was active.                                 *)
GraceKept ==
  \A u \in UserIds : users[u].status \in {"expired", "limited"} => usable[u] <= users[u].changed

(* A user with the wrong status for his limit and his date is corrected,   *)
(* however many others wait and whatever the batch size.                   *)
Unsettled(u) ==
  LET r == users[u] IN
  \/ r.status = "active" /\ (Limited(r) \/ Expired(r))
  \/ r.status = "limited" /\ ~Limited(r)
  \/ r.status = "expired" /\ (Limited(r) \/ ~Expired(r))
ReviewSettles == \A u \in UserIds : []<>~Unsettled(u)

(* A user on hold whose time has come is activated, if he is among the     *)
(* first BatchSize users on hold; those behind them may wait for ever.     *)
Held(u) == u \in FirstOf({v \in UserIds : users[v].status = "on_hold"}) /\ HoldDue(users[u])
HoldEnds == \A u \in UserIds : []<>~Held(u)

(* A plan that replaces the limit and is not said to carry the remaining   *)
(* traffic over gives the user its own limit.                              *)
CarriesAsAsked ==
  [][\A u \in UserIds :
       LET p == Head(users[u].plans) IN
       (/\ users[u].plans # <<>> /\ users'[u].plans = Tail(users[u].plans)
        /\ users'[u].limit # users[u].limit /\ ~p.increase /\ ~p.carry)
       => users'[u].limit = p.limit]_lifecycleVars
=============================================================================
