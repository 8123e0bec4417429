---------------------------- MODULE AdminLimits ----------------------------
(***************************************************************************)
(* Admins who run out of traffic or time, and what becomes of their users  *)
(* (internal/app/api/admin_lifecycle.go, admin.go, services.go) and of the *)
(* marks admin_disabled_at and service_limit_disabled_at that say whom to  *)
(* bring back.                                                             *)
(*                                                                         *)
(* Every request ends with a reconciliation in its own transaction and a   *)
(* worker reconciles one admin after the other.  The command line tool     *)
(* (cmd/rebecca_cli) writes the same tables and reconciles nothing.        *)
(***************************************************************************)
EXTENDS Integers, FiniteSets

CONSTANTS
  AdminIds,   \* admins, none of them full_access, in the order the review reads them
  Owned,      \* users of each admin (users.admin_id)
  Services,
  InService,  \* the service of each user
  InitialAdmin, InitialUser,
  AdminEdits, \* what handleUpdateAdmin may be asked to set
  MaxUsage,   \* bound: traffic of one admin
  MaxRequests \* bound: requests and commands

VARIABLES
  adminRow,   \* admins, with the used and allowed traffic of admins_services
  userRow,    \* their users: status, marks, and whether a restored one is on hold
  told,       \* the users the last step queued a node operation for
  todo,       \* admins the review has read and not reconciled yet
  byHand,     \* ghost: users whose last change asked for was to be disabled, with no mark left
  requests    \* requests so far

limitVars == <<adminRow, userRow, told, todo, byHand, requests>>

Owners == UNION {Owned[a] : a \in AdminIds}
OwnerOf(u) == CHOOSE a \in AdminIds : u \in Owned[a]
Reasons == {"none", "manual", "limit"}    \* disabled_reason: NULL, any text, the text of the review
AdminRow ==
  [status: {"active", "disabled", "deleted"}, reason: Reasons,
   used: Nat, limit: Nat, usersLimit: Nat,      \* 0 is no limit
   late: BOOLEAN,                               \* expire has passed
   perService: BOOLEAN,                         \* use_service_traffic_limits
   served: [Services -> Nat], allowed: [Services -> Nat]]
LimitedUser ==
  [status: {"active", "on_hold", "disabled", "deleted"}, hold: BOOLEAN,
   adminMark: BOOLEAN, serviceMark: BOOLEAN]
AdminEdit == [limit: Nat, usersLimit: Nat, late: BOOLEAN, perService: BOOLEAN]

ASSUME LimitAssumption ==
  /\ AdminIds \subseteq Nat /\ IsFiniteSet(AdminIds)
  /\ \A a, b \in AdminIds : a # b => Owned[a] \cap Owned[b] = {}
  /\ \A a \in AdminIds : IsFiniteSet(Owned[a])
  /\ InService \in [Owners -> Services]
  /\ InitialAdmin \in [AdminIds -> AdminRow] /\ InitialUser \in [Owners -> LimitedUser]
  /\ AdminEdits \subseteq AdminEdit
  /\ {MaxUsage, MaxRequests} \subseteq Nat

HasAccess(r) == r.status \in {"active", "on_hold"}

(* The tables a transaction works on, and the operations it queues. *)
Database == [admin |-> adminRow, user |-> userRow, ops |-> {}]
With(d, S, F(_)) == [d EXCEPT !.user = [u \in Owners |-> IF u \in S THEN F(d.user[u]) ELSE d.user[u]], !.ops = @ \cup S]
Accessible(d, a) == {u \in Owned[a] : HasAccess(d.user[u])}
Marked(d, a) == {u \in Owned[a] : d.user[u].status = "disabled" /\ d.user[u].adminMark}

(* A restored user goes on hold again if he was waiting there. *)
Back(r) == [r EXCEPT !.status = IF r.hold THEN "on_hold" ELSE "active"]
BackFromAdmin(r) == [Back(r) EXCEPT !.adminMark = FALSE]
BackFromService(r) == [Back(r) EXCEPT !.serviceMark = FALSE]
StoppedByAdmin(r) == [r EXCEPT !.status = "disabled", !.adminMark = TRUE]
StoppedByService(r) == [r EXCEPT !.status = "disabled", !.serviceMark = TRUE]

(* adminLimitReason, for the mode used_traffic *)
OutOfLimit(t) == t.late \/ (~t.perService /\ t.limit > 0 /\ t.used >= t.limit)

(* ensureAdminUserLimitForActivation: S are the users to restore *)
FitsRunning(d, a, S) == d.admin[a].usersLimit = 0 \/ Cardinality(Accessible(d, a)) <= d.admin[a].usersLimit
Fits(d, a, S) ==
  \/ d.admin[a].usersLimit = 0 \/ d.admin[a].perService
  \/ Cardinality(Accessible(d, a)) + Cardinality(S) <= d.admin[a].usersLimit

SetAdmin(d, a, status, reason) == [d EXCEPT !.admin[a].status = status, !.admin[a].reason = reason]
StopAdmin(d, a, reason) == With(SetAdmin(d, a, "disabled", reason), Accessible(d, a), StoppedByAdmin)
RestoreQuietly(d, a) ==
  [With(SetAdmin(d, a, "active", "none"), Marked(d, a), BackFromAdmin) EXCEPT !.ops = d.ops]
RestoreAdmin(d, a) == With(SetAdmin(d, a, "active", "none"), Marked(d, a), BackFromAdmin)

(* reconcileAdminLimitStateTx; it fails when the users to restore do not fit *)
StoppedByLimit(t) == t.status = "disabled" /\ t.reason = "limit"
Unrestorable(d, a) ==
  ~OutOfLimit(d.admin[a]) /\ StoppedByLimit(d.admin[a]) /\ ~Fits(d, a, Marked(d, a))
ReconcileAdmin(d, a) ==
  LET t == d.admin[a] IN
  IF OutOfLimit(t) THEN IF t.status = "active" THEN StopAdmin(d, a, "limit") ELSE d
  ELSE IF StoppedByLimit(t) THEN RestoreAdmin(d, a) ELSE d

(* reconcileAdminServiceLimitStateTx: an active admin's users come back when *)
(* their service has traffic again; no status saves users of an exhausted one. *)
Exhausted(t) == IF t.perService THEN {s \in Services : t.allowed[s] > 0 /\ t.served[s] >= t.allowed[s]} ELSE {}
ReconcileServices(d, a) ==
  LET t == d.admin[a]
      back == {u \in Owned[a] : /\ t.status = "active"
                                /\ d.user[u].status = "disabled" /\ d.user[u].serviceMark
                                /\ InService[u] \notin Exhausted(t)}
      stopped == {u \in Accessible(d, a) : InService[u] \in Exhausted(t)}
  IN  With(With(d, back, BackFromService), stopped, StoppedByService)

(* reconcileAdminTrafficLimitStateTx, which touches the rows of one admin *)
Reconciled(d, a) == ReconcileServices(ReconcileAdmin(d, a), a)
AllReconciled(d, S) ==
  [admin |-> [a \in AdminIds |-> IF a \in S THEN Reconciled(d, a).admin[a] ELSE d.admin[a]],
   user |-> [u \in Owners |-> IF u \in UNION {Owned[a] : a \in S} THEN Reconciled(d, OwnerOf(u)).user[u] ELSE d.user[u]],
   ops |-> UNION {Reconciled(d, a).ops : a \in S}]
-----------------------------------------------------------------------------
(* A transaction that commits; one that fails leaves everything as it was. *)
Write(d) == adminRow' = d.admin /\ userRow' = d.user /\ told' = d.ops
ThenReconcile(d, a) ==
  ~Unrestorable(d, a) /\ \E r \in {ReconcileAdmin(d, a)} : \E e \in {ReconcileServices(r, a)} : Write(e)
Request == requests < MaxRequests /\ requests' = requests + 1 /\ UNCHANGED todo
Present(a) == adminRow[a].status # "deleted"    \* adminByUsernameTx

UpdateAdmin(a, e) ==
  /\ Present(a) /\ Request
  /\ ThenReconcile([Database EXCEPT
       !.admin[a] = [@ EXCEPT !.limit = e.limit, !.usersLimit = e.usersLimit, !.late = e.late, !.perService = e.perService]], a)
  /\ UNCHANGED byHand

(* The reason is free text, which may happen to be that of the review.     *)
DisableAdmin(a) ==
  /\ adminRow[a].status = "active" /\ Request
  /\ \E why \in Reasons \ {"none"} : Write(StopAdmin(Database, a, why))
  /\ UNCHANGED byHand

EnableAdmin(a) ==
  /\ adminRow[a].status = "disabled" /\ adminRow[a].reason # "limit" /\ Request
  /\ Fits(Database, a, Marked(Database, a))
  /\ ThenReconcile(RestoreAdmin(Database, a), a)
  /\ UNCHANGED byHand

Gone(r) == [r EXCEPT !.status = "deleted"]
DeleteAdmin(a) ==
  /\ Present(a) /\ Request
  /\ Write(With([Database EXCEPT !.admin[a].status = "deleted"], Owned[a], Gone))
  /\ UNCHANGED byHand

(* handleAdminUsageResetPath *)
UnusedByOne(t) == [t EXCEPT !.used = @ - 1]
Unused(t) == [t EXCEPT !.used = 0, !.served = [s \in Services |-> 0]]
ResetAdminUsage(a) ==
  /\ Present(a) /\ Request
  /\ ThenReconcile([Database EXCEPT !.admin[a] = Unused(@)], a)
  /\ UNCHANGED byHand

(* bulkUpdateAdminUsers: service_limit_disabled_at is left alone. *)
StoppedByHand(r) == [r EXCEPT !.status = "disabled", !.adminMark = FALSE]
DisableAdminUsers(a) ==
  /\ Present(a) /\ Request
  /\ LET S == Accessible(Database, a) IN
       Write(With(Database, S, StoppedByHand)) /\ byHand' = byHand \cup {u \in S : ~userRow[u].serviceMark}
ActivateAdminUsers(a) ==
  /\ Present(a) /\ Request
  /\ LET S == {u \in Owned[a] : userRow[u].status = "disabled"} IN
       Fits(Database, a, S) /\ Write(With(Database, S, BackFromAdmin)) /\ byHand' = byHand \ S

(* handleServiceResetUsage reconciles every admin of the service, or none. *)
ResetServiceUsage(s) ==
  /\ Request
  /\ LET d == [Database EXCEPT !.admin = [a \in AdminIds |-> [@[a] EXCEPT !.served[s] = 0]]]
         linked == {a \in AdminIds : Present(a)}
     IN  /\ \A a \in linked : ~Unrestorable(d, a)
         /\ Write(AllReconciled(d, linked))
  /\ UNCHANGED byHand

(* handleServiceAdminLimitUpdate *)
SetServiceLimit(a, s, l) ==
  /\ Present(a) /\ Request
  /\ ThenReconcile([Database EXCEPT !.admin[a].allowed[s] = l], a)
  /\ UNCHANGED byHand

(* updateUserMutation with a status, deleteUserMutation, activeNextMutation: *)
(* only the first clears the marks.                                          *)
AskedMarked(r, s) == [r EXCEPT !.status = s, !.serviceMark = FALSE]
Asked(r, s) == [r EXCEPT !.status = s, !.adminMark = FALSE, !.serviceMark = FALSE]
SetUserStatus(u, s) ==
  /\ userRow[u].status # "deleted" /\ Request
  /\ Write([Database EXCEPT !.user[u] = Asked(@, s),
                          !.ops = IF HasAccess(userRow[u]) \/ s = "active" THEN {u} ELSE {}])
  /\ byHand' = IF s = "disabled" THEN byHand \cup {u} ELSE byHand \ {u}
DeleteUserRow(u) ==
  /\ userRow[u].status # "deleted" /\ Request
  /\ Write(With(Database, {u}, Gone))
  /\ UNCHANGED byHand
Renewed(r) == [r EXCEPT !.status = "active"]
ActivateNextPlan(u) ==
  /\ userRow[u].status # "deleted" /\ Request
  /\ Write(With(Database, {u}, Renewed))
  /\ byHand' = byHand \ {u}
-----------------------------------------------------------------------------
(* The commands of the tool write the admin and nothing else. *)
Command(a) == Present(a) /\ Request /\ userRow' = userRow /\ told' = {} /\ byHand' = byHand
CliSetStatus(a, s) ==
  /\ Command(a)
  /\ \E why \in Reasons :
       adminRow' = [adminRow EXCEPT ![a].status = s, ![a].reason = why]
CliDelete(a) == Command(a) /\ adminRow' = [adminRow EXCEPT ![a].status = "deleted"]
CliResetUsage(a) == Command(a) /\ adminRow' = [adminRow EXCEPT ![a] = Unused(@)]

(* Traffic of a user, in a flush (persistUserUsage, enforceUsageLifecycle), *)
(* and the date.                                                           *)
UseTraffic(a, u) ==
  /\ HasAccess(userRow[u]) /\ adminRow[a].used < MaxUsage
  /\ adminRow' = [adminRow EXCEPT ![a].used = @ + 1, ![a].served[InService[u]] = @ + 1]
  /\ userRow' = [userRow EXCEPT ![u].status = "active", ![u].hold = FALSE]
  /\ told' = IF userRow[u].status = "on_hold" THEN {u} ELSE {}
  /\ UNCHANGED <<todo, byHand, requests>>
Expire(a) ==
  /\ ~adminRow[a].late /\ Request
  /\ adminRow' = [adminRow EXCEPT ![a].late = TRUE]
  /\ told' = {} /\ UNCHANGED <<userRow, byHand>>

(* reconcileAdminLifecycle: the names first, then one transaction for each; *)
(* the first that fails ends the pass.                                      *)
ReviewAdmins ==
  /\ todo = {} /\ \E a \in AdminIds : Present(a)
  /\ todo' = {a \in AdminIds : Present(a)}
  /\ told' = {} /\ UNCHANGED <<adminRow, userRow, byHand, requests>>
Next1(S) == CHOOSE a \in S : \A b \in S : a <= b
ReviewOneSkipping ==
  /\ todo # {}
  /\ LET a == Next1(todo) IN
       /\ Write(IF Present(a) /\ ~OutOfLimit(adminRow[a]) THEN Reconciled(Database, a) ELSE Database)
       /\ todo' = todo \ {a}
  /\ UNCHANGED <<byHand, requests>>
ReviewOne ==
  /\ todo # {}
  /\ LET a == Next1(todo) IN
       \/ todo' = todo \ {a} /\ Present(a) /\ ThenReconcile(Database, a)
       \/ todo' = {} /\ (~Present(a) \/ Unrestorable(Database, a)) /\ Write(Database)
  /\ UNCHANGED <<byHand, requests>>

LimitInit ==
  /\ adminRow = InitialAdmin /\ userRow = InitialUser
  /\ told = {} /\ todo = {} /\ byHand = {} /\ requests = 0

LimitNext ==
  \/ \E a \in AdminIds :
       \/ DisableAdmin(a) \/ EnableAdmin(a) \/ DeleteAdmin(a) \/ ResetAdminUsage(a)
       \/ DisableAdminUsers(a) \/ ActivateAdminUsers(a)
       \/ \E e \in AdminEdits : UpdateAdmin(a, e)
       \/ \E s \in Services, l \in {0, 1} : SetServiceLimit(a, s, l)
       \/ \E s \in {"active", "disabled"} : CliSetStatus(a, s)
       \/ CliDelete(a) \/ CliResetUsage(a)
       \/ \E u \in Owned[a] : UseTraffic(a, u)
       \/ Expire(a)
  \/ \E s \in Services : ResetServiceUsage(s)
  \/ \E u \in Owners : DeleteUserRow(u) \/ ActivateNextPlan(u) \/ \E s \in {"active", "disabled"} : SetUserStatus(u, s)
  \/ ReviewAdmins \/ ReviewOne

(* The worker goes on for as long as the server runs. *)
LimitFairness == WF_limitVars(ReviewAdmins) /\ WF_limitVars(ReviewOne)
LimitSpec == LimitInit /\ [][LimitNext]_limitVars /\ LimitFairness
-----------------------------------------------------------------------------
LimitTypeOK ==
  /\ adminRow \in [AdminIds -> AdminRow] /\ userRow \in [Owners -> LimitedUser]
  /\ told \subseteq Owners /\ byHand \subseteq Owners
  /\ todo \subseteq AdminIds /\ requests \in Nat

(* A user an administrator disabled stays so until somebody asks for the   *)
(* opposite: neither enabling the admin, nor a reset, nor the review brings *)
(* him back.  The one exception is a user who has the mark of an exhausted  *)
(* service when DisableAdminUsers, which does not clear it, disables him.   *)
HandStays == \A u \in byHand : ~HasAccess(userRow[u])

(* Whoever gains or loses access with his admin is told to the nodes by    *)
(* the same transaction.                                                   *)
LimitsTold ==
  [][\A u \in Owners : HasAccess(userRow[u]) # HasAccess(userRow'[u]) => u \in told']_limitVars

(* An admin comes back to no more users than his limit, unless users of a  *)
(* service come back with him, whom nobody counts.                         *)
RestoreFits ==
  [][\A a \in AdminIds :
       (/\ adminRow[a].status = "disabled" /\ adminRow'[a].status = "active"
        /\ adminRow'[a].usersLimit > 0 /\ ~adminRow'[a].perService
        /\ userRow' # userRow
        /\ \A u \in Owned[a] : ~userRow[u].serviceMark)
       => Cardinality({u \in Owned[a] : HasAccess(userRow'[u])}) <= adminRow'[a].usersLimit]_limitVars

(* An active admin who is out of traffic or time is stopped, whatever       *)
(* becomes of the admins behind him; only one ahead of him whose users do   *)
(* not fit keeps him out, because every pass of the review ends there.      *)
OverLimit(a) == adminRow[a].status = "active" /\ OutOfLimit(adminRow[a])
Stoppable(a) == OverLimit(a) /\ \A b \in AdminIds : b < a => ~Unrestorable(Database, b)
AdminStopped == \A a \in AdminIds : []<>~Stoppable(a)
=============================================================================
