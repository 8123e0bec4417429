------------------------- MODULE UserLifecycleProofs -------------------------
(***************************************************************************)
(* Proofs about UserLifecycle, for any users, rows, batch size and bounds. *)
(***************************************************************************)
EXTENDS UserLifecycle, TLAPS

(* What any change makes of a row: a row, with all its traffic, deleted if  *)
(* it was, and with a fresh date if it comes to rest as expired or limited. *)
Resting == {"expired", "limited"}
RowStep(r, t) ==
  /\ t \in UserRow
  /\ t.used + t.logged = r.used + r.logged
  /\ r.status = "deleted" => t.status = "deleted"
  /\ t.status \in Resting => t.changed = clock \/ (r.status \in Resting /\ t.changed = r.changed)

LEMMA RowStays ==
  ASSUME NEW r \in UserRow PROVE RowStep(r, r)
BY DEF RowStep, UserRow

LEMMA RowStepsOn ==
  ASSUME NEW r \in UserRow, NEW s \in UserRow, NEW t \in UserRow, RowStep(r, s), RowStep(s, t)
  PROVE  RowStep(r, t)
BY DEF RowStep

LEMMA WithStatusStep ==
  ASSUME clock \in Nat, NEW r \in UserRow, NEW s \in UserStatus, r.status = "deleted" => s = "deleted"
  PROVE  RowStep(r, WithStatus(r, s)) /\ WithStatus(r, s).status = s
BY DEF RowStep, WithStatus, UserRow

LEMMA ToStatusStep ==
  ASSUME clock \in Nat, NEW r \in UserRow, NEW s \in UserStatus, r.status = "deleted" => s = "deleted"
  PROVE  RowStep(r, ToStatus(r, s)) /\ ToStatus(r, s).status = s
BY WithStatusStep, RowStays DEF ToStatus

LEMMA LoggedStep ==
  ASSUME clock \in Nat, NEW r \in UserRow
  PROVE  RowStep(r, Logged(r)) /\ Logged(r).status = r.status /\ Logged(r).plans = r.plans
<1>1. r.used \in Nat /\ r.logged \in Nat /\ r.logged + r.used \in Nat
  BY DEF UserRow
<1>2. Logged(r) \in UserRow
  BY <1>1 DEF Logged, UserRow
<1>3. /\ Logged(r).used = 0 /\ Logged(r).logged = r.logged + r.used /\ Logged(r).status = r.status
      /\ Logged(r).plans = r.plans /\ Logged(r).changed = r.changed
  BY DEF Logged, UserRow
<1> QED
  BY <1>1, <1>2, <1>3 DEF RowStep

LEMMA OffHoldStep ==
  ASSUME clock \in Nat, NEW r \in UserRow, r.status = "on_hold"
  PROVE  RowStep(r, OffHold(r)) /\ OffHold(r).status = "active"
<1> DEFINE w == WithStatus(r, "active")
<1>1. w \in UserRow /\ RowStep(r, w) /\ w.status = "active"
  BY WithStatusStep DEF RowStep, UserStatus
<1> HIDE DEF w
<1>2. (IF r.hold = NoHold THEN w.expire ELSE clock + r.hold) \in Int
  <2>1. w.expire \in Int /\ r.hold \in Int /\ clock \in Int
    BY <1>1 DEF UserRow
  <2>2. clock + r.hold \in Int
    BY <2>1
  <2> QED
    BY <2>1, <2>2, Zenon
<1>3. OffHold(r) = [w EXCEPT !.expire = IF r.hold = NoHold THEN w.expire ELSE clock + r.hold,
                             !.hold = NoHold, !.timeout = 0]
  BY <1>1 DEF OffHold, w
<1>4. NoHold \in Int /\ 0 \in Nat
  BY DEF NoHold
<1>5. OffHold(r) \in UserRow
  BY <1>1, <1>2, <1>3, <1>4 DEF UserRow
<1>6. /\ OffHold(r).status = "active" /\ OffHold(r).used = w.used /\ OffHold(r).logged = w.logged
  BY <1>1, <1>3 DEF UserRow
<1> QED
  BY <1>1, <1>5, <1>6 DEF RowStep, Resting

(* The fields ApplyPlan writes after the counter and the status. *)
LEMMA PlanFields ==
  ASSUME clock \in Nat, NEW r \in UserRow, r.plans # <<>>, r.status # "deleted", NEW limit \in Nat
  PROVE  LET t == [WithStatus(Logged(r), "active") EXCEPT
                     !.limit = limit,
                     !.expire = IF Head(r.plans).expire > 0 THEN Head(r.plans).expire ELSE @,
                     !.plans = Tail(@)]
         IN  RowStep(r, t) /\ t.status = "active"
<1>1. Head(r.plans) \in Plan /\ Tail(r.plans) \in Seq(Plan)
  BY DEF UserRow
<1>2. Head(r.plans).expire \in Nat
  BY <1>1 DEF Plan
<1> DEFINE w == WithStatus(Logged(r), "active")
           expire == IF Head(r.plans).expire > 0 THEN Head(r.plans).expire ELSE w.expire
           t == [w EXCEPT !.limit = limit, !.expire = expire, !.plans = Tail(@)]
<1>3. Logged(r) \in UserRow /\ Logged(r).status = r.status /\ RowStep(r, Logged(r)) /\ Logged(r).plans = r.plans
  BY LoggedStep DEF RowStep
<1>4. w \in UserRow /\ w.status = "active" /\ RowStep(r, w)
  BY <1>3, WithStatusStep, RowStepsOn DEF RowStep, UserStatus
<1>5. w.plans = r.plans
  BY <1>3 DEF WithStatus, UserRow
<1> HIDE DEF w
<1>6. expire \in Int
  <2>1. w.expire \in Int
    BY <1>4 DEF UserRow
  <2> QED
    BY <1>2, <2>1
<1> HIDE DEF expire
<1>7. t \in UserRow
  BY <1>1, <1>4, <1>5, <1>6 DEF UserRow
<1>8. t.status = w.status /\ t.used = w.used /\ t.logged = w.logged
  BY <1>4 DEF UserRow
<1>9. RowStep(r, t) /\ t.status = "active"
  BY <1>4, <1>7, <1>8 DEF RowStep, Resting
<1> QED
  BY <1>9 DEF w, expire

LEMMA ApplyPlanStep ==
  ASSUME clock \in Nat, NEW r \in UserRow, r.plans # <<>>, r.status # "deleted", NEW carried
  PROVE  RowStep(r, ApplyPlan(r, carried)) /\ ApplyPlan(r, carried).status = "active"
<1>1. Head(r.plans) \in Plan
  BY DEF UserRow
<1>2. Head(r.plans).limit \in Nat /\ r.limit \in Nat /\ Remaining(r) \in Nat
  BY <1>1 DEF Plan, UserRow, Remaining
<1>3. NewLimit(Head(r.plans), r, carried) \in Nat
  <2>1. r.limit + Head(r.plans).limit \in Nat /\ Head(r.plans).limit + Remaining(r) \in Nat
    BY <1>2
  <2> QED
    BY <1>2, <2>1, Zenon DEF NewLimit
<1> QED
  BY <1>3, PlanFields DEF ApplyPlan

LEMMA EnforcedStep ==
  ASSUME clock \in Nat, NEW r \in UserRow, r.status # "deleted", NEW carried
  PROVE  RowStep(r, Enforced(r, carried))
<1>1. CASE ~Limited(r) /\ ~Expired(r)
  BY <1>1, RowStays DEF Enforced
<1>2. CASE (Limited(r) \/ Expired(r)) /\ NextPlanMatches(r)
  BY <1>2, ApplyPlanStep DEF Enforced, NextPlanMatches
<1>3. CASE (Limited(r) \/ Expired(r)) /\ ~NextPlanMatches(r)
  BY <1>3, WithStatusStep DEF Enforced, UserStatus
<1> QED
  BY <1>1, <1>2, <1>3

LEMMA CorrectedStep ==
  ASSUME clock \in Nat, NEW r \in UserRow, r.status # "deleted"
  PROVE  /\ RowStep(r, Corrected(r))
         /\ Corrected(r).status = IF Limited(r) THEN "limited" ELSE IF Expired(r) THEN "expired" ELSE "active"
BY WithStatusStep DEF Corrected, UserStatus

LEMMA DeletedStep ==
  ASSUME NEW r \in UserRow
  PROVE  RowStep(r, Deleted(r))
<1>1. Deleted(r) \in UserRow
  BY DEF Deleted, UserRow, UserStatus
<1>2. Deleted(r).status = "deleted" /\ Deleted(r).used = r.used /\ Deleted(r).logged = r.logged
  BY DEF Deleted, UserRow
<1> QED
  BY <1>1, <1>2 DEF RowStep, Resting

LEMMA RestartedStep ==
  ASSUME clock \in Nat, NEW r \in UserRow, r.status # "deleted"
  PROVE  RowStep(r, Restarted(r))
<1> DEFINE t == ToStatus(Logged(r), "active")
<1>1. Logged(r) \in UserRow /\ Logged(r).status = r.status /\ RowStep(r, Logged(r))
  BY LoggedStep DEF RowStep
<1>2. t \in UserRow /\ RowStep(r, t) /\ t.status = "active"
  BY <1>1, ToStatusStep, RowStepsOn DEF RowStep, UserStatus
<1>3. Restarted(r) = [t EXCEPT !.plans = <<>>]
  BY DEF Restarted
<1> HIDE DEF t
<1>4. Restarted(r) \in UserRow
  <2>1. <<>> \in Seq(Plan)
    OBVIOUS
  <2> DEFINE none == <<>>
  <2>2. none \in Seq(Plan) /\ Restarted(r) = [t EXCEPT !.plans = none]
    BY <1>3, <2>1
  <2> HIDE DEF none
  <2> QED
    BY <1>2, <2>2 DEF UserRow
<1>5. Restarted(r).status = "active" /\ Restarted(r).used = t.used /\ Restarted(r).logged = t.logged
  BY <1>2, <1>3 DEF UserRow
<1> QED
  BY <1>2, <1>4, <1>5 DEF RowStep, Resting

LEMMA UsedStep ==
  ASSUME clock \in Nat, NEW r \in UserRow, r.status # "deleted"
  PROVE  /\ Used(r) \in UserRow /\ Used(r).status = r.status /\ Used(r).changed = r.changed
         /\ Used(r).used + Used(r).logged = r.used + r.logged + 1
         /\ RowStep(Used(r), EnforcedByFlush(Used(r)))
<1>1. r.used \in Nat /\ r.logged \in Nat /\ r.used + 1 \in Nat
  BY DEF UserRow
<1>2. Used(r) \in UserRow
  BY <1>1 DEF Used, UserRow
<1>3. /\ Used(r).status = r.status /\ Used(r).changed = r.changed
      /\ Used(r).used = r.used + 1 /\ Used(r).logged = r.logged
  BY DEF Used, UserRow
<1> DEFINE h == IF Used(r).status = "on_hold" /\ HoldDue(Used(r)) THEN OffHold(Used(r)) ELSE Used(r)
<1>4. h \in UserRow /\ RowStep(Used(r), h) /\ h.status # "deleted"
  <2>1. CASE Used(r).status = "on_hold" /\ HoldDue(Used(r))
    BY <1>2, <2>1, OffHoldStep DEF RowStep
  <2>2. CASE ~(Used(r).status = "on_hold" /\ HoldDue(Used(r)))
    BY <1>2, <1>3, <2>2, RowStays
  <2> QED
    BY <2>1, <2>2
<1>5. EnforcedByFlush(Used(r)) = Enforced(h, UsageCarries(Used(r)))
  BY DEF EnforcedByFlush
<1> HIDE DEF h
<1>6. RowStep(h, Enforced(h, UsageCarries(Used(r))))
  BY <1>4, EnforcedStep
<1>7. RowStep(Used(r), EnforcedByFlush(Used(r)))
  BY <1>2, <1>4, <1>5, <1>6, RowStepsOn DEF RowStep
<1> QED
  BY <1>1, <1>2, <1>3, <1>7

LEMMA ModifiedStep ==
  ASSUME clock \in Nat, NEW r \in UserRow, r.status # "deleted", NEW e \in Edits
  PROVE  RowStep(r, Modified(r, e))
<1>1. /\ e.status \in UserStatus \cup {"keep"} /\ e.limit \in Int /\ e.expire \in Int /\ e.hold \in Int
      /\ e.limit >= Keep
  BY LifecycleAssumption DEF Edit
<1>2. StatusAfter(r, e) \in UserStatus
  BY <1>1 DEF StatusAfter, UserStatus, UserRow
<1> DEFINE t == ToStatus(r, StatusAfter(r, e))
<1>3. t \in UserRow /\ RowStep(r, t)
  BY <1>2, ToStatusStep DEF RowStep
<1>4. Modified(r, e) = [t EXCEPT !.limit = IF e.limit = Keep THEN @ ELSE e.limit,
                                 !.expire = IF e.expire = Keep THEN @ ELSE e.expire,
                                 !.hold = IF e.hold = Keep THEN @ ELSE e.hold,
                                 !.online = IF @ = "since" THEN "before" ELSE @]
  BY DEF Modified
<1> HIDE DEF t
<1>5. e.limit # Keep => e.limit \in Nat
  BY <1>1 DEF Keep
<1>6. Modified(r, e) \in UserRow
  BY <1>1, <1>3, <1>4, <1>5 DEF UserRow
<1>7. /\ Modified(r, e).status = t.status /\ Modified(r, e).used = t.used /\ Modified(r, e).logged = t.logged
      /\ Modified(r, e).changed = t.changed
  BY <1>3, <1>4 DEF UserRow
<1> QED
  BY <1>3, <1>6, <1>7 DEF RowStep

LEMMA ResetStep ==
  ASSUME clock \in Nat, NEW r \in UserRow, r.status # "deleted"
  PROVE  RowStep(r, WithStatus(Logged(r), IF r.status = "limited" THEN "active" ELSE r.status))
<1>1. Logged(r) \in UserRow /\ Logged(r).status = r.status /\ RowStep(r, Logged(r))
  BY LoggedStep DEF RowStep
<1>2. (IF r.status = "limited" THEN "active" ELSE r.status) \in UserStatus
  BY DEF UserRow, UserStatus
<1> QED
  BY <1>1, <1>2, WithStatusStep, RowStepsOn DEF RowStep

LEMMA ShiftedSteps ==
  ASSUME clock \in Nat, NEW r \in UserRow, r.status # "deleted", NEW d \in Int
  PROVE  RowStep(r, ShiftedExpire(r, d)) /\ RowStep(r, ShiftedLimit(r, d)) /\ RowStep(r, ShiftedHold(r, d))
<1>1. /\ r.expire \in Int /\ r.expire + d \in Int /\ r.limit \in Nat /\ r.limit + d \in Int
      /\ r.hold \in Int /\ r.hold + d \in Int /\ r.status \in UserStatus
  BY DEF UserRow
<1>2. RowStep(r, ShiftedExpire(r, d))
  <2> DEFINE s == IF r.status \in {"disabled", "limited"} THEN r.status
                  ELSE IF r.expire + d <= clock THEN "expired" ELSE "active"
             t == ToStatus(r, s)
  <2>1. s \in UserStatus
    BY <1>1 DEF UserStatus
  <2>2. t \in UserRow /\ RowStep(r, t)
    BY <2>1, ToStatusStep DEF RowStep
  <2>3. ShiftedExpire(r, d) = [t EXCEPT !.expire = r.expire + d]
    BY DEF ShiftedExpire
  <2> HIDE DEF t
  <2>4. ShiftedExpire(r, d) \in UserRow
    BY <1>1, <2>2, <2>3 DEF UserRow
  <2>5. /\ ShiftedExpire(r, d).status = t.status /\ ShiftedExpire(r, d).used = t.used
        /\ ShiftedExpire(r, d).logged = t.logged /\ ShiftedExpire(r, d).changed = t.changed
    BY <2>2, <2>3 DEF UserRow
  <2> QED
    BY <2>2, <2>4, <2>5 DEF RowStep
<1>3. RowStep(r, ShiftedLimit(r, d))
  <2> DEFINE l == IF r.limit + d < 0 THEN 0 ELSE r.limit + d
             s == IF r.status \in {"disabled", "on_hold", "expired"} THEN r.status
                  ELSE IF l > 0 /\ r.used >= l THEN "limited" ELSE "active"
             t == ToStatus(r, s)
  <2>1. s \in UserStatus
    BY <1>1 DEF UserStatus
  <2>2. t \in UserRow /\ RowStep(r, t)
    BY <2>1, ToStatusStep DEF RowStep
  <2>3. ShiftedLimit(r, d) = [t EXCEPT !.limit = l]
    BY DEF ShiftedLimit
  <2>4. l \in Nat
    BY <1>1
  <2> HIDE DEF t, l
  <2>5. ShiftedLimit(r, d) \in UserRow
    BY <2>2, <2>3, <2>4 DEF UserRow
  <2>6. /\ ShiftedLimit(r, d).status = t.status /\ ShiftedLimit(r, d).used = t.used
        /\ ShiftedLimit(r, d).logged = t.logged /\ ShiftedLimit(r, d).changed = t.changed
    BY <2>2, <2>3 DEF UserRow
  <2> QED
    BY <2>2, <2>5, <2>6 DEF RowStep
<1>4. RowStep(r, ShiftedHold(r, d))
  <2> DEFINE hold == IF r.hold + d < 0 THEN 0 ELSE r.hold + d
  <2>0. hold \in Int /\ ShiftedHold(r, d) = [r EXCEPT !.hold = hold]
    BY <1>1 DEF ShiftedHold
  <2> HIDE DEF hold
  <2>1. ShiftedHold(r, d) \in UserRow
    BY <2>0 DEF UserRow
  <2>2. /\ ShiftedHold(r, d).status = r.status /\ ShiftedHold(r, d).used = r.used
        /\ ShiftedHold(r, d).logged = r.logged /\ ShiftedHold(r, d).changed = r.changed
    BY DEF ShiftedHold, UserRow
  <2> QED
    BY <2>1, <2>2 DEF RowStep
<1> QED
  BY <1>2, <1>3, <1>4

-----------------------------------------------------------------------------
(* The inductive invariant: TLC checks the conjuncts, and no user was       *)
(* active later than today.                                                 *)
LifecycleInv ==
  /\ LifecycleTypeOK /\ TrafficConserved /\ GraceKept
  /\ \A u \in UserIds : usable[u] <= clock

(* What every step does: it keeps the invariant, brings no deleted user     *)
(* back, and queues an operation for whoever gains or loses access.         *)
StepKept ==
  /\ LifecycleInv'
  /\ \A u \in UserIds : users[u].status = "deleted" => users'[u].status = "deleted"
  /\ \A u \in UserIds : (users[u].status \in Runtime) # (users'[u].status \in Runtime) => u \in queued'

(* A commit of good rows; traffic grows by what the rows count more.        *)
LEMMA CommitStep ==
  ASSUME LifecycleInv, NEW j, NEW rows, NEW ops \in SUBSET UserIds,
         rows \in [UserIds -> UserRow],
         traffic' \in [UserIds -> Nat],
         \A u \in UserIds : rows[u].used + rows[u].logged = traffic'[u],
         \A u \in UserIds : users[u].status = "deleted" => rows[u].status = "deleted",
         \A u \in UserIds : rows[u].status \in Resting =>
            rows[u].changed = clock \/ (users[u].status \in Resting /\ rows[u].changed = users[u].changed),
         \A u \in UserIds : (users[u].status \in Runtime) # (rows[u].status \in Runtime) => u \in ops,
         Commit(j, rows, ops)
  PROVE  StepKept
<1>1. /\ users' = rows /\ queued' = ops /\ clock' = clock /\ clock \in Nat
      /\ usable \in [UserIds -> Nat]
      /\ usable' = [u \in UserIds |-> IF "active" \in {users[u].status, rows[u].status} THEN clock ELSE usable[u]]
  BY DEF Commit, LifecycleInv, LifecycleTypeOK
<1>2. snapshot' \in [Jobs -> {NoTx, users'}]
  <2>1. snapshot \in [Jobs -> {NoTx, users}]
    BY DEF LifecycleInv, LifecycleTypeOK
  <2>2. snapshot' = [k \in Jobs |-> IF k = j \/ rows # users \/ ops # {} THEN NoTx ELSE snapshot[k]]
    BY DEF Commit, Passed
  <2> QED
    BY <1>1, <2>1, <2>2
<1>3. usable' \in [UserIds -> Nat] /\ \A u \in UserIds : usable'[u] <= clock
  BY <1>1 DEF LifecycleInv
<1>4. LifecycleTypeOK'
  BY <1>1, <1>2, <1>3 DEF LifecycleTypeOK
<1>5. TrafficConserved'
  BY <1>1 DEF TrafficConserved
<1>6. GraceKept'
  <2> SUFFICES ASSUME NEW u \in UserIds, rows[u].status \in Resting
               PROVE  usable'[u] <= rows[u].changed
    BY <1>1 DEF GraceKept, Resting
  <2>1. CASE rows[u].changed = clock
    BY <1>3, <2>1
  <2>2. CASE users[u].status \in Resting /\ rows[u].changed = users[u].changed
    <3>1. users[u].status # "active" /\ rows[u].status # "active"
      BY <2>2 DEF Resting
    <3>2. usable'[u] = usable[u]
      BY <1>1, <3>1
    <3>3. usable[u] <= users[u].changed
      BY <2>2 DEF LifecycleInv, GraceKept, Resting
    <3> QED
      BY <2>2, <3>2, <3>3
  <2> QED
    BY <2>1, <2>2
<1>7. LifecycleInv'
  BY <1>1, <1>3, <1>4, <1>5, <1>6 DEF LifecycleInv
<1> QED
  BY <1>1, <1>7 DEF StepKept

(* A commit whose rows are steps of the old ones and that counts nothing.   *)
LEMMA RowsCommit ==
  ASSUME LifecycleInv, NEW j, NEW rows, NEW ops \in SUBSET UserIds,
         rows = [u \in UserIds |-> rows[u]],
         \A u \in UserIds : RowStep(users[u], rows[u]),
         \A u \in UserIds : (users[u].status \in Runtime) # (rows[u].status \in Runtime) => u \in ops,
         Commit(j, rows, ops), traffic' = traffic
  PROVE  StepKept
<1>1. rows \in [UserIds -> UserRow]
  BY DEF RowStep
<1>2. traffic' \in [UserIds -> Nat]
  BY DEF LifecycleInv, LifecycleTypeOK
<1>3. \A u \in UserIds : rows[u].used + rows[u].logged = traffic'[u]
  BY DEF RowStep, LifecycleInv, TrafficConserved
<1>4. \A u \in UserIds : users[u].status = "deleted" => rows[u].status = "deleted"
  BY DEF RowStep
<1>5. \A u \in UserIds : rows[u].status \in Resting =>
        rows[u].changed = clock \/ (users[u].status \in Resting /\ rows[u].changed = users[u].changed)
  BY DEF RowStep
<1> HIDE DEF LifecycleInv
<1> QED
  BY <1>1, <1>2, <1>3, <1>4, <1>5, CommitStep

(* The same for one user's row. *)
LEMMA OneRowCommit ==
  ASSUME LifecycleInv, NEW j, NEW u \in UserIds, NEW t, RowStep(users[u], t), NEW ops \in SUBSET UserIds,
         (users[u].status \in Runtime) # (t.status \in Runtime) => u \in ops,
         Commit(j, [users EXCEPT ![u] = t], ops), traffic' = traffic
  PROVE  StepKept
<1> DEFINE rows == [users EXCEPT ![u] = t]
<1>1. users \in [UserIds -> UserRow]
  BY DEF LifecycleInv, LifecycleTypeOK
<1>2. rows = [v \in UserIds |-> rows[v]] /\ rows[u] = t /\ \A v \in UserIds \ {u} : rows[v] = users[v]
  BY <1>1
<1>3. \A v \in UserIds : RowStep(users[v], rows[v])
  BY <1>1, <1>2, RowStays
<1>4. \A v \in UserIds : (users[v].status \in Runtime) # (rows[v].status \in Runtime) => v \in ops
  BY <1>2
<1>5. Commit(j, rows, ops)
  OBVIOUS
<1> HIDE DEF rows
<1> QED
  BY <1>2, <1>3, <1>4, <1>5, RowsCommit

LEMMA Facts ==
  ASSUME LifecycleInv
  PROVE  /\ users \in [UserIds -> UserRow] /\ clock \in Nat
         /\ \A j \in Jobs : snapshot[j] # NoTx => snapshot[j] = users
BY DEF LifecycleInv, LifecycleTypeOK

LEMMA ReviewStep ==
  ASSUME LifecycleInv, ReviewLifecycle PROVE StepKept
<1> DEFINE first == ActiveRows(users)
           seen == Changed(users, first, EnforcedByReview)
           second == InactiveRows(seen)
           fixed == Changed(seen, second, Corrected)
           third == OnHoldRows(fixed)
           rows == Changed(fixed, third, OffHold)
           ops == first \cup {u \in second : fixed[u].status = "active"} \cup third
<1>1. users \in [UserIds -> UserRow] /\ clock \in Nat /\ snapshot["review"] = users /\ traffic' = traffic
  BY Facts DEF ReviewLifecycle, Jobs
<1>2. Commit("review", rows, ops)
  BY <1>1 DEF ReviewLifecycle
<1>3. /\ first \subseteq UserIds /\ second \subseteq UserIds /\ third \subseteq UserIds
      /\ \A u \in first : users[u].status = "active"
      /\ \A u \in second : seen[u].status \in {"limited", "expired"}
      /\ \A u \in third : fixed[u].status = "on_hold"
  BY DEF ActiveRows, InactiveRows, OnHoldRows, FirstOf
<1> HIDE DEF first
<1>4. \A u \in UserIds : /\ seen[u] = IF u \in first THEN EnforcedByReview(users[u]) ELSE users[u]
                         /\ seen[u] \in UserRow /\ RowStep(users[u], seen[u])
  <2> SUFFICES ASSUME NEW u \in UserIds
               PROVE  /\ seen[u] = IF u \in first THEN EnforcedByReview(users[u]) ELSE users[u]
                      /\ seen[u] \in UserRow /\ RowStep(users[u], seen[u])
    OBVIOUS
  <2>1. seen[u] = IF u \in first THEN EnforcedByReview(users[u]) ELSE users[u]
    BY DEF Changed
  <2>2. RowStep(users[u], seen[u])
    BY <1>1, <1>3, <2>1, EnforcedStep, RowStays DEF EnforcedByReview
  <2> QED
    BY <2>1, <2>2 DEF RowStep
<1> HIDE DEF seen, second
<1>5. \A u \in UserIds : /\ fixed[u] = IF u \in second THEN Corrected(seen[u]) ELSE seen[u]
                         /\ fixed[u] \in UserRow /\ RowStep(users[u], fixed[u])
  <2> SUFFICES ASSUME NEW u \in UserIds
               PROVE  /\ fixed[u] = IF u \in second THEN Corrected(seen[u]) ELSE seen[u]
                      /\ fixed[u] \in UserRow /\ RowStep(users[u], fixed[u])
    OBVIOUS
  <2>1. fixed[u] = IF u \in second THEN Corrected(seen[u]) ELSE seen[u]
    BY DEF Changed
  <2>2. RowStep(seen[u], fixed[u])
    BY <1>1, <1>3, <1>4, <2>1, CorrectedStep, RowStays
  <2>3. users[u] \in UserRow /\ seen[u] \in UserRow /\ fixed[u] \in UserRow
    BY <1>1, <1>4, <2>2 DEF RowStep
  <2> QED
    BY <1>4, <2>1, <2>2, <2>3, RowStepsOn
<1> HIDE DEF fixed, third
<1>6. \A u \in UserIds : /\ rows[u] = IF u \in third THEN OffHold(fixed[u]) ELSE fixed[u]
                         /\ RowStep(users[u], rows[u])
  <2> SUFFICES ASSUME NEW u \in UserIds
               PROVE  /\ rows[u] = IF u \in third THEN OffHold(fixed[u]) ELSE fixed[u]
                      /\ RowStep(users[u], rows[u])
    OBVIOUS
  <2>1. rows[u] = IF u \in third THEN OffHold(fixed[u]) ELSE fixed[u]
    BY DEF Changed
  <2>2. RowStep(fixed[u], rows[u])
    BY <1>1, <1>3, <1>5, <2>1, OffHoldStep, RowStays
  <2>3. users[u] \in UserRow /\ fixed[u] \in UserRow /\ rows[u] \in UserRow
    BY <1>1, <1>5, <2>2 DEF RowStep
  <2> QED
    BY <1>5, <2>1, <2>2, <2>3, RowStepsOn
<1>7. \A u \in UserIds : (users[u].status \in Runtime) # (rows[u].status \in Runtime) => u \in ops
  <2> SUFFICES ASSUME NEW u \in UserIds, u \notin first, u \notin third,
                      ~(u \in second /\ fixed[u].status = "active")
               PROVE  (users[u].status \in Runtime) = (rows[u].status \in Runtime)
    OBVIOUS
  <2>1. rows[u] = fixed[u] /\ seen[u] = users[u]
    BY <1>4, <1>6
  <2>2. CASE u \notin second
    BY <1>5, <2>1, <2>2
  <2>3. CASE u \in second
    <3>1. seen[u].status \in {"limited", "expired"} /\ fixed[u] = Corrected(seen[u])
      BY <1>3, <1>5, <2>3
    <3>2. seen[u] \in UserRow
      BY <1>4
    <3>3. fixed[u].status \in {"limited", "expired"}
      BY <1>1, <2>3, <3>1, <3>2, CorrectedStep
    <3> QED
      BY <2>1, <3>1, <3>3 DEF Runtime
  <2> QED
    BY <2>2, <2>3
<1>8. rows = [u \in UserIds |-> rows[u]] /\ ops \in SUBSET UserIds
  BY <1>3 DEF Changed
<1> HIDE DEF rows, ops
<1> QED
  BY <1>1, <1>2, <1>6, <1>7, <1>8, RowsCommit

LEMMA ResetPeriodicStep ==
  ASSUME LifecycleInv, ResetPeriodicUsage PROVE StepKept
<1> DEFINE ops == PeriodicRows(users)
           rows == Changed(users, ops, Restarted)
<1>1. users \in [UserIds -> UserRow] /\ clock \in Nat /\ snapshot["reset"] = users /\ traffic' = traffic
  BY Facts DEF ResetPeriodicUsage, Jobs
<1>2. Commit("reset", rows, ops)
  BY <1>1 DEF ResetPeriodicUsage
<1>3. ops \in SUBSET UserIds /\ \A u \in ops : users[u].status # "deleted"
  BY LifecycleAssumption DEF PeriodicRows, FirstOf
<1> HIDE DEF ops
<1>4. rows = [u \in UserIds |-> rows[u]] /\ \A u \in UserIds : rows[u] = IF u \in ops THEN Restarted(users[u]) ELSE users[u]
  BY DEF Changed
<1> HIDE DEF rows
<1>5. \A u \in UserIds : RowStep(users[u], rows[u])
  BY <1>1, <1>3, <1>4, RestartedStep, RowStays
<1>6. \A u \in UserIds : (users[u].status \in Runtime) # (rows[u].status \in Runtime) => u \in ops
  BY <1>4
<1> QED
  BY <1>1, <1>2, <1>3, <1>4, <1>5, <1>6, RowsCommit

LEMMA AutodeleteStep ==
  ASSUME LifecycleInv, AutodeleteExpiredUsers PROVE StepKept
<1> DEFINE ops == AgedRows(users)
           rows == Changed(users, ops, Deleted)
<1>1. users \in [UserIds -> UserRow] /\ clock \in Nat /\ snapshot["autodelete"] = users /\ traffic' = traffic
  BY Facts DEF AutodeleteExpiredUsers, Jobs
<1>2. Commit("autodelete", rows, ops)
  BY <1>1 DEF AutodeleteExpiredUsers
<1>3. ops \in SUBSET UserIds
  BY DEF AgedRows, FirstOf
<1> HIDE DEF ops
<1>4. rows = [u \in UserIds |-> rows[u]] /\ \A u \in UserIds : rows[u] = IF u \in ops THEN Deleted(users[u]) ELSE users[u]
  BY DEF Changed
<1> HIDE DEF rows
<1>5. \A u \in UserIds : RowStep(users[u], rows[u])
  BY <1>1, <1>4, DeletedStep, RowStays
<1>6. \A u \in UserIds : (users[u].status \in Runtime) # (rows[u].status \in Runtime) => u \in ops
  BY <1>4
<1> QED
  BY <1>1, <1>2, <1>3, <1>4, <1>5, <1>6, RowsCommit

LEMMA TouchStep ==
  ASSUME LifecycleInv, NEW u \in UserIds, TouchOnline(u) PROVE StepKept
<1> DEFINE t == [users[u] EXCEPT !.online = "since"]
<1>1. users[u] \in UserRow
  BY Facts
<1>2. t \in UserRow /\ t.status = users[u].status /\ t.changed = users[u].changed
      /\ t.used = users[u].used /\ t.logged = users[u].logged
  BY <1>1 DEF UserRow
<1>3. RowStep(users[u], t)
  BY <1>2 DEF RowStep
<1>4. Commit("touch", [users EXCEPT ![u] = t], {}) /\ traffic' = traffic
  BY DEF TouchOnline
<1> HIDE DEF t
<1> QED
  BY <1>2, <1>3, <1>4, OneRowCommit

LEMMA FlushStep ==
  ASSUME LifecycleInv, NEW u \in UserIds, FlushUsage(u) PROVE StepKept
<1> DEFINE s == Used(users[u])
           t == EnforcedByFlush(s)
           rows == [users EXCEPT ![u] = t]
           ops == IF t = s THEN {} ELSE {u}
<1>1. users \in [UserIds -> UserRow] /\ clock \in Nat /\ traffic \in [UserIds -> Nat] /\ TrafficConserved
  BY Facts DEF LifecycleInv, LifecycleTypeOK
<1>2. /\ users[u].status \in Runtime /\ Commit("flush", rows, ops)
      /\ traffic' = [traffic EXCEPT ![u] = @ + 1]
  BY DEF FlushUsage
<1>3. users[u].status # "deleted" /\ users[u].status \notin Resting
  BY <1>2 DEF Runtime, Resting
<1>4. /\ s \in UserRow /\ s.status = users[u].status
      /\ s.used + s.logged = users[u].used + users[u].logged + 1 /\ RowStep(s, t)
  BY <1>1, <1>3, UsedStep
<1>5. ops \in SUBSET UserIds /\ (t # s => u \in ops)
  OBVIOUS
<1> HIDE DEF s, t, ops
<1>6. rows[u] = t /\ \A v \in UserIds \ {u} : rows[v] = users[v]
  BY <1>1
<1>7. rows \in [UserIds -> UserRow]
  BY <1>1, <1>4 DEF RowStep
<1> HIDE DEF rows
<1>8. traffic' \in [UserIds -> Nat] /\ \A v \in UserIds : traffic'[v] = IF v = u THEN traffic[v] + 1 ELSE traffic[v]
  BY <1>1, <1>2
<1>9. \A v \in UserIds : rows[v].used + rows[v].logged = traffic'[v]
  BY <1>1, <1>4, <1>6, <1>8 DEF RowStep, TrafficConserved
<1>10. \A v \in UserIds : users[v].status = "deleted" => rows[v].status = "deleted"
  BY <1>3, <1>6
<1>11. \A v \in UserIds : rows[v].status \in Resting =>
         rows[v].changed = clock \/ (users[v].status \in Resting /\ rows[v].changed = users[v].changed)
  BY <1>3, <1>4, <1>6 DEF RowStep
<1>12. \A v \in UserIds : (users[v].status \in Runtime) # (rows[v].status \in Runtime) => v \in ops
  BY <1>4, <1>5, <1>6
<1> QED
  BY <1>2, <1>5, <1>7, <1>8, <1>9, <1>10, <1>11, <1>12, CommitStep

(* The mutations of one user. *)
LEMMA OneUserStep ==
  ASSUME LifecycleInv, NEW u \in UserIds,
         \/ DeleteUser(u) \/ ResetUser(u) \/ ActiveNext(u)
         \/ \E e \in Edits : UpdateUser(u, e)
  PROVE  StepKept
<1>1. users \in [UserIds -> UserRow] /\ users[u] \in UserRow /\ clock \in Nat
  BY Facts
<1>2. CASE DeleteUser(u)
  <2> DEFINE t == WithStatus(users[u], "deleted")
  <2>1. Commit("api", [users EXCEPT ![u] = t], {u}) /\ traffic' = traffic
    BY <1>2 DEF DeleteUser, Mutation
  <2>2. RowStep(users[u], t)
    BY <1>1, WithStatusStep DEF UserStatus
  <2> HIDE DEF t
  <2> QED
    BY <2>1, <2>2, OneRowCommit
<1>3. CASE ResetUser(u)
  <2> DEFINE t == WithStatus(Logged(users[u]), IF users[u].status = "limited" THEN "active" ELSE users[u].status)
  <2>1. Commit("api", [users EXCEPT ![u] = t], OpFor(u, t)) /\ traffic' = traffic
    BY <1>3 DEF ResetUser, Mutation
  <2>2. RowStep(users[u], t)
    BY <1>1, <1>3, ResetStep DEF ResetUser, Exists
  <2> HIDE DEF t
  <2> QED
    BY <2>1, <2>2, OneRowCommit DEF OpFor
<1>4. CASE ActiveNext(u)
  <2> DEFINE t == ApplyPlan(users[u], Carries(users[u]))
  <2>1. Commit("api", [users EXCEPT ![u] = t], OpFor(u, t)) /\ traffic' = traffic
    BY <1>4 DEF ActiveNext, Mutation
  <2>2. RowStep(users[u], t)
    BY <1>1, <1>4, ApplyPlanStep DEF ActiveNext, Exists
  <2> HIDE DEF t
  <2> QED
    BY <2>1, <2>2, OneRowCommit DEF OpFor
<1>5. CASE \E e \in Edits : UpdateUser(u, e)
  <2> PICK e \in Edits : UpdateUser(u, e)
    BY <1>5
  <2> DEFINE t == Modified(users[u], e)
  <2>1. Commit("api", [users EXCEPT ![u] = t], OpFor(u, t)) /\ traffic' = traffic
    BY DEF UpdateUser, Mutation
  <2>2. RowStep(users[u], t)
    BY <1>1, ModifiedStep DEF UpdateUser, Exists
  <2> HIDE DEF t
  <2> QED
    BY <2>1, <2>2, OneRowCommit DEF OpFor
<1> QED
  BY <1>2, <1>3, <1>4, <1>5

LEMMA AdjustExpireStep ==
  ASSUME LifecycleInv, NEW S \in SUBSET UserIds, NEW scope, NEW d \in Int, AdjustExpire(S, scope, d)
  PROVE  StepKept
<1> DEFINE dated == {u \in InScope(S, scope \ {"on_hold"}) : users[u].expire # 0}
           held == {u \in InScope(S, scope \cap {"on_hold"}) : users[u].hold # NoHold}
           ops == InScope(S, scope)
           rows == [u \in UserIds |->
                      IF u \in dated THEN ShiftedExpire(users[u], d)
                      ELSE IF u \in held THEN ShiftedHold(users[u], d) ELSE users[u]]
<1>1. Commit("api", rows, ops) /\ traffic' = traffic
  BY DEF AdjustExpire, Mutation
<1>2. users \in [UserIds -> UserRow] /\ clock \in Nat
  BY Facts
<1>3. /\ ops \in SUBSET UserIds /\ dated \subseteq ops /\ held \subseteq ops
      /\ \A u \in ops : users[u].status # "deleted"
  BY DEF InScope, Exists
<1> HIDE DEF dated, held, ops
<1>4. \A u \in UserIds : rows[u] = IF u \in dated THEN ShiftedExpire(users[u], d)
                                   ELSE IF u \in held THEN ShiftedHold(users[u], d) ELSE users[u]
  OBVIOUS
<1>5. rows = [u \in UserIds |-> rows[u]]
  OBVIOUS
<1> HIDE DEF rows
<1>6. \A u \in UserIds : RowStep(users[u], rows[u])
  BY <1>2, <1>3, <1>4, ShiftedSteps, RowStays
<1>7. \A u \in UserIds : (users[u].status \in Runtime) # (rows[u].status \in Runtime) => u \in ops
  BY <1>3, <1>4
<1> QED
  BY <1>1, <1>3, <1>5, <1>6, <1>7, RowsCommit

(* A commit that changes the users it queues, each by a step of his row.    *)
LEMMA HitCommit ==
  ASSUME LifecycleInv, NEW rows, NEW hit \in SUBSET UserIds, rows = [u \in UserIds |-> rows[u]],
         \A u \in hit : RowStep(users[u], rows[u]),
         \A u \in UserIds \ hit : rows[u] = users[u],
         Mutation(rows, hit)
  PROVE  StepKept
<1>1. \A u \in UserIds : RowStep(users[u], rows[u])
  BY Facts, RowStays
<1>2. Commit("api", rows, hit) /\ traffic' = traffic
  BY DEF Mutation
<1> QED
  BY <1>1, <1>2, RowsCommit

LEMMA BulkStep ==
  ASSUME LifecycleInv, BulkUsersAction PROVE StepKept
<1>1. users \in [UserIds -> UserRow] /\ clock \in Nat
  BY Facts
<1>2. PICK S \in SUBSET UserIds :
        \/ \E scope \in Scopes, d \in {-1, 1} : AdjustExpire(S, scope, d) \/ AdjustLimit(S, scope, d)
        \/ \E s \in {"active", "disabled"} : SetStatus(S, s)
        \/ Cleanup(S, 1)
        \/ \E scope \in Scopes : DeleteUsers(S, scope)
  BY DEF BulkUsersAction
<1>3. ASSUME NEW scope, NEW d \in {-1, 1}, AdjustExpire(S, scope, d) PROVE StepKept
  BY <1>3, AdjustExpireStep
<1>4. ASSUME NEW scope, NEW d \in {-1, 1}, AdjustLimit(S, scope, d) PROVE StepKept
  <2> DEFINE hit == {u \in InScope(S, scope) : users[u].limit > 0}
             rows == [u \in UserIds |-> IF u \in hit THEN ShiftedLimit(users[u], d) ELSE users[u]]
  <2>1. Mutation(rows, hit)
    BY <1>4 DEF AdjustLimit, Changed
  <2>2. hit \in SUBSET UserIds /\ \A u \in hit : users[u].status # "deleted" /\ users[u] \in UserRow
    BY <1>1 DEF InScope, Exists
  <2> HIDE DEF hit
  <2>3. rows = [u \in UserIds |-> rows[u]] /\ \A u \in UserIds \ hit : rows[u] = users[u]
    OBVIOUS
  <2>4. \A u \in hit : RowStep(users[u], rows[u])
    BY <1>1, <2>2, ShiftedSteps
  <2> HIDE DEF rows
  <2> QED
    BY <2>1, <2>2, <2>3, <2>4, HitCommit
<1>5. ASSUME NEW s \in {"active", "disabled"}, SetStatus(S, s) PROVE StepKept
  <2> DEFINE hit == {u \in S : Exists(u) /\ users[u].status # s}
             rows == [u \in UserIds |-> IF u \in hit THEN WithStatus(users[u], s) ELSE users[u]]
  <2>1. Mutation(rows, hit)
    BY <1>5 DEF SetStatus, Changed
  <2>2. hit \in SUBSET UserIds /\ \A u \in hit : users[u].status # "deleted" /\ users[u] \in UserRow
    BY <1>1 DEF Exists
  <2> HIDE DEF hit
  <2>3. rows = [u \in UserIds |-> rows[u]] /\ \A u \in UserIds \ hit : rows[u] = users[u]
    OBVIOUS
  <2>4. \A u \in hit : RowStep(users[u], rows[u])
    BY <1>1, <2>2, WithStatusStep DEF UserStatus
  <2> HIDE DEF rows
  <2> QED
    BY <2>1, <2>2, <2>3, <2>4, HitCommit
<1>6. ASSUME Cleanup(S, 1) PROVE StepKept
  <2> DEFINE hit == {u \in InScope(S, {"expired", "limited"}) : AgedSince(users[u], 1)}
             rows == [u \in UserIds |-> IF u \in hit THEN Deleted(users[u]) ELSE users[u]]
  <2>1. Mutation(rows, hit)
    BY <1>6 DEF Cleanup, Changed
  <2>2. hit \in SUBSET UserIds /\ \A u \in hit : users[u] \in UserRow
    BY <1>1 DEF InScope
  <2> HIDE DEF hit
  <2>3. rows = [u \in UserIds |-> rows[u]] /\ \A u \in UserIds \ hit : rows[u] = users[u]
    OBVIOUS
  <2>4. \A u \in hit : RowStep(users[u], rows[u])
    BY <2>2, DeletedStep
  <2> HIDE DEF rows
  <2> QED
    BY <2>1, <2>2, <2>3, <2>4, HitCommit
<1>7. ASSUME NEW scope, DeleteUsers(S, scope) PROVE StepKept
  <2> DEFINE hit == InScope(S, scope)
             rows == [u \in UserIds |-> IF u \in hit THEN WithStatus(users[u], "deleted") ELSE users[u]]
  <2>1. Mutation(rows, hit)
    BY <1>7 DEF DeleteUsers, Changed
  <2>2. hit \in SUBSET UserIds /\ \A u \in hit : users[u] \in UserRow
    BY <1>1 DEF InScope
  <2> HIDE DEF hit
  <2>3. rows = [u \in UserIds |-> rows[u]] /\ \A u \in UserIds \ hit : rows[u] = users[u]
    OBVIOUS
  <2>4. \A u \in hit : RowStep(users[u], rows[u])
    BY <1>1, <2>2, WithStatusStep DEF UserStatus
  <2> HIDE DEF rows
  <2> QED
    BY <2>1, <2>2, <2>3, <2>4, HitCommit
<1> QED
  BY <1>2, <1>3, <1>4, <1>5, <1>6, <1>7

LEMMA TickStep ==
  ASSUME LifecycleInv, Tick PROVE StepKept
<1>1. /\ users' = users /\ clock' = clock + 1 /\ snapshot' = snapshot /\ queued' = {} /\ traffic' = traffic
      /\ usable' = [u \in UserIds |-> IF users[u].status = "active" THEN clock + 1 ELSE usable[u]]
  BY DEF Tick
<1>2. clock \in Nat /\ usable \in [UserIds -> Nat] /\ \A u \in UserIds : usable[u] <= clock
  BY DEF LifecycleInv, LifecycleTypeOK
<1>3. LifecycleTypeOK'
  BY <1>1, <1>2 DEF LifecycleInv, LifecycleTypeOK
<1>4. TrafficConserved' /\ GraceKept'
  BY <1>1 DEF LifecycleInv, TrafficConserved, GraceKept
<1>5. \A u \in UserIds : usable'[u] <= clock'
  BY <1>1, <1>2
<1> QED
  BY <1>1, <1>3, <1>4, <1>5 DEF StepKept, LifecycleInv

LEMMA BeginStep ==
  ASSUME LifecycleInv, NEW j \in Jobs, Begin(j) PROVE StepKept
<1>1. snapshot' \in [Jobs -> {NoTx, users}]
  BY DEF Begin, LifecycleInv, LifecycleTypeOK
<1> QED
  BY <1>1 DEF Begin, StepKept, LifecycleInv, LifecycleTypeOK, TrafficConserved, GraceKept

LEMMA StutterStep ==
  ASSUME LifecycleInv, UNCHANGED lifecycleVars PROVE StepKept
BY DEF lifecycleVars, StepKept, LifecycleInv, LifecycleTypeOK, TrafficConserved, GraceKept, Expired

LEMMA NextStep ==
  ASSUME LifecycleInv, [LifecycleNext]_lifecycleVars PROVE StepKept
<1>1. CASE Tick
  BY <1>1, TickStep
<1>2. ASSUME NEW j \in Jobs, Begin(j) PROVE StepKept
  BY <1>2, BeginStep
<1>3. ASSUME NEW j \in Jobs, JobCommit(j) PROVE StepKept
  BY <1>3, ReviewStep, ResetPeriodicStep, AutodeleteStep DEF JobCommit
<1>4. ASSUME NEW u \in UserIds, TouchOnline(u) \/ FlushUsage(u) PROVE StepKept
  BY <1>4, TouchStep, FlushStep
<1>5. ASSUME NEW u \in UserIds,
             \/ DeleteUser(u) \/ ResetUser(u) \/ ActiveNext(u)
             \/ \E e \in Edits : UpdateUser(u, e)
      PROVE  StepKept
  BY <1>5, OneUserStep
<1>6. CASE BulkUsersAction
  BY <1>6, BulkStep
<1>7. CASE UNCHANGED lifecycleVars
  BY <1>7, StutterStep
<1> QED
  BY <1>1, <1>2, <1>3, <1>4, <1>5, <1>6, <1>7 DEF LifecycleNext

LEMMA InitKept == LifecycleInit => LifecycleInv
<1> SUFFICES ASSUME LifecycleInit PROVE LifecycleInv
  OBVIOUS
<1>1. /\ users \in [UserIds -> UserRow] /\ clock = 3 /\ snapshot = [j \in Jobs |-> NoTx] /\ queued = {}
      /\ traffic = [u \in UserIds |-> users[u].used + users[u].logged] /\ usable = [u \in UserIds |-> 0]
  BY LifecycleAssumption DEF LifecycleInit, FirstDay
<1>2. \A u \in UserIds : users[u].used \in Nat /\ users[u].logged \in Nat /\ users[u].changed \in Nat
  BY <1>1 DEF UserRow
<1>3. \A u \in UserIds : users[u].used + users[u].logged \in Nat
  BY <1>2
<1> QED
  BY <1>1, <1>2, <1>3 DEF LifecycleInv, LifecycleTypeOK, TrafficConserved, GraceKept

LEMMA LifecycleInvariant == LifecycleSpec => []LifecycleInv
<1>1. LifecycleInv /\ [LifecycleNext]_lifecycleVars => LifecycleInv'
  BY NextStep DEF StepKept
<1> QED
  BY InitKept, <1>1, PTL DEF LifecycleSpec

(* The rows keep their types, and an open transaction of a job sees them.   *)
THEOREM LifecycleTyped == LifecycleSpec => []LifecycleTypeOK
BY LifecycleInvariant, PTL DEF LifecycleInv

(* No traffic is lost, however the jobs, the flushes, the plans, the resets *)
(* and the bulk actions interleave, for any users, rows and batch size.     *)
THEOREM LifecycleTrafficConserved == LifecycleSpec => []TrafficConserved
BY LifecycleInvariant, PTL DEF LifecycleInv

(* A user's grace period starts after the last day he was active.           *)
THEOREM LifecycleGraceKept == LifecycleSpec => []GraceKept
BY LifecycleInvariant, PTL DEF LifecycleInv

(* No path brings a deleted user back. *)
THEOREM LifecycleDeletedStays == LifecycleSpec => DeletedStays
<1>1. LifecycleInv /\ [LifecycleNext]_lifecycleVars =>
        [\A u \in UserIds : users[u].status = "deleted" => users'[u].status = "deleted"]_lifecycleVars
  BY NextStep DEF StepKept
<1> QED
  BY <1>1, LifecycleInvariant, PTL DEF LifecycleSpec, DeletedStays

(* Whoever gains or loses access has an operation queued by the same        *)
(* transaction.                                                             *)
THEOREM LifecycleAccessQueued == LifecycleSpec => AccessQueued
<1>1. LifecycleInv /\ [LifecycleNext]_lifecycleVars =>
        [\A u \in UserIds : (users[u].status \in Runtime) # (users'[u].status \in Runtime) => u \in queued']_lifecycleVars
  BY NextStep DEF StepKept
<1> QED
  BY <1>1, LifecycleInvariant, PTL DEF LifecycleSpec, AccessQueued
=============================================================================
