---------------------------- MODULE LimitsProofs -----------------------------
(***************************************************************************)
(* Proofs about the two limits: DeviceLimits, for any sessions, clients    *)
(* and limit of devices, and AdminLimits, for any admins, users, services  *)
(* and limits of traffic.                                                  *)
(***************************************************************************)
EXTENDS DeviceLimits, AdminLimits, FiniteSetTheorems, NaturalsInduction, TLAPS

-----------------------------------------------------------------------------
(* The devices of a user                                                   *)

SessionRow == [open : BOOLEAN, client : Clients \cup {Unknown}, silent : Nat]
Report == [ends : SUBSET Sessions, opens : SUBSET Sessions, client : Clients \cup {Unknown}]

(* The sessions once r is committed. *)
After(r) ==
  [s \in Sessions |->
     IF s \in r.opens THEN [open |-> TRUE, client |-> r.client, silent |-> 0]
     ELSE IF s \in r.ends THEN NoSession ELSE vpn[s]]
(* The devices of the sessions v. *)
DevicesOf(v) == {DeviceKey(s, v[s].client) : s \in {t \in Sessions : v[t].open}}

(* One callback at a time is in its transaction, and what it will write     *)
(* keeps the limit: nobody changes the sessions meanwhile but for their age. *)
DeviceInv ==
  /\ vpn \in [Sessions -> SessionRow] /\ reports \subseteq Report
  /\ \A r1, r2 \in reports : r1 = r2
  /\ Cardinality(DevicesOf(vpn)) <= Limit
  /\ \A r \in reports : Cardinality(DevicesOf(After(r))) <= Limit

LEMMA FiniteDevices ==
  ASSUME NEW v PROVE IsFiniteSet(DevicesOf(v)) /\ Cardinality(DevicesOf(v)) \in Nat
<1> DEFINE S == {t \in Sessions : v[t].open}
           f == [s \in S |-> DeviceKey(s, v[s].client)]
<1>1. IsFiniteSet(S)
  BY DeviceLimitsAssumption, FS_Subset
<1>2. DevicesOf(v) = {DeviceKey(s, v[s].client) : s \in S}
  BY DEF DevicesOf
<1>3. f \in Surjection(S, DevicesOf(v))
  BY <1>2, Zenon DEF Surjection
<1> HIDE DEF S, f
<1> QED
  BY <1>1, <1>3, FS_Surjection, FS_CardinalityType

(* Fewer devices keep the limit. *)
LEMMA FewerDevices ==
  ASSUME NEW v, NEW w, DevicesOf(w) \subseteq DevicesOf(v), Cardinality(DevicesOf(v)) <= Limit
  PROVE  Cardinality(DevicesOf(w)) <= Limit
<1>1. Cardinality(DevicesOf(w)) <= Cardinality(DevicesOf(v))
  BY FiniteDevices, FS_Subset
<1> QED
  BY <1>1, FiniteDevices, DeviceLimitsAssumption

LEMMA NoDevices == DeviceInit => DeviceInv
<1> SUFFICES ASSUME DeviceInit PROVE DeviceInv
  OBVIOUS
<1>1. vpn = [s \in Sessions |-> NoSession] /\ reports = {}
  BY DEF DeviceInit
<1>2. vpn \in [Sessions -> SessionRow]
  BY <1>1 DEF SessionRow, NoSession
<1>3. DevicesOf(vpn) = {}
  BY <1>1 DEF DevicesOf, NoSession
<1>4. Cardinality(DevicesOf(vpn)) <= Limit
  BY <1>3, FS_EmptySet, DeviceLimitsAssumption
<1> QED
  BY <1>1, <1>2, <1>4 DEF DeviceInv

(* A session is admitted against the sessions that will stay. *)
LEMMA StartAdmitted ==
  ASSUME DeviceInv, NEW s \in Sessions, NEW client \in Clients \cup {Unknown}, BeginStart(s, client)
  PROVE  DeviceInv'
<1>1. PICK ended \in {Silent \cup Replaced(s)} :
        /\ SessionAdmissionAllowed(s, client, ended)
        /\ reports' = reports \cup {[ends |-> ended \ {s}, opens |-> {s}, client |-> client]}
  BY DEF BeginStart
<1> DEFINE r == [ends |-> ended \ {s}, opens |-> {s}, client |-> client]
           stay == {Device(t) : t \in OpenSessions \ (ended \cup {s})}
           key == DeviceKey(s, client)
<1>2. reports' = {r} /\ vpn' = vpn /\ r \in Report
  BY <1>1 DEF BeginStart, AdmissionMutex, Report, Silent, Replaced, OpenSessions
<1>3. key \in stay \/ Cardinality(stay) < Limit
  BY <1>1 DEF SessionAdmissionAllowed
<1>4. stay \subseteq DevicesOf(vpn)
  BY DEF DevicesOf, Device, OpenSessions
<1>5. DevicesOf(After(r)) \subseteq stay \cup {key}
  <2> SUFFICES ASSUME NEW t \in Sessions, After(r)[t].open
               PROVE  DeviceKey(t, After(r)[t].client) \in stay \cup {key}
    BY DEF DevicesOf
  <2>1. CASE t = s
    <3>1. After(r)[t].client = client
      BY <2>1 DEF After
    <3> QED
      BY <2>1, <3>1
  <2>2. CASE t # s
    <3>1. After(r)[t] = IF t \in ended THEN NoSession ELSE vpn[t]
      BY <2>2 DEF After
    <3>2. t \notin ended /\ After(r)[t] = vpn[t]
      BY <3>1 DEF NoSession
    <3>3. t \in OpenSessions \ (ended \cup {s}) /\ DeviceKey(t, After(r)[t].client) = Device(t)
      BY <2>2, <3>2 DEF OpenSessions, Device
    <3> QED
      BY <3>3
  <2> QED
    BY <2>1, <2>2
<1> HIDE DEF r, stay, key
<1>6. IsFiniteSet(stay) /\ Cardinality(stay) <= Limit /\ Cardinality(stay) \in Nat
  <2>1. IsFiniteSet(stay) /\ Cardinality(stay) <= Cardinality(DevicesOf(vpn))
    BY <1>4, FiniteDevices, FS_Subset
  <2> QED
    BY <2>1, FiniteDevices, FS_CardinalityType, DeviceLimitsAssumption DEF DeviceInv
<1>7. IsFiniteSet(stay \cup {key}) /\ Cardinality(stay \cup {key}) <= Limit
  <2>1. /\ IsFiniteSet(stay \cup {key})
        /\ Cardinality(stay \cup {key}) = IF key \in stay THEN Cardinality(stay) ELSE Cardinality(stay) + 1
    BY <1>6, FS_AddElement
  <2>2. Limit \in Nat
    BY DeviceLimitsAssumption
  <2> QED
    BY <1>3, <1>6, <2>1, <2>2
<1>8. Cardinality(DevicesOf(After(r))) <= Cardinality(stay \cup {key})
  BY <1>5, <1>7, FS_Subset
<1>9. Cardinality(DevicesOf(After(r))) <= Limit
  BY <1>7, <1>8, FiniteDevices, FS_CardinalityType, DeviceLimitsAssumption
<1>10. After(r)' = After(r)
  BY <1>2 DEF After
<1> QED
  BY <1>2, <1>9, <1>10 DEF DeviceInv, DevicesOf

(* A stop leaves fewer sessions. *)
LEMMA StopLeavesFewer ==
  ASSUME DeviceInv, NEW s \in Sessions, BeginStop(s) PROVE DeviceInv'
<1>1. PICK r \in Report : reports' = {r} /\ vpn' = vpn /\ r.opens = {}
  <2> DEFINE q == [ends |-> Silent \cup {s}, opens |-> {}, client |-> Unknown]
  <2>1. reports' = {q} /\ vpn' = vpn
    BY DEF BeginStop, AdmissionMutex
  <2>2. q \in Report /\ q.opens = {}
    BY DEF Report, Silent, OpenSessions
  <2> QED
    BY <2>1, <2>2
<1>2. DevicesOf(After(r)) \subseteq DevicesOf(vpn)
  <2> SUFFICES ASSUME NEW t \in Sessions, After(r)[t].open
               PROVE  DeviceKey(t, After(r)[t].client) \in DevicesOf(vpn)
    BY DEF DevicesOf
  <2>1. After(r)[t] = vpn[t]
    BY <1>1 DEF After, NoSession
  <2> QED
    BY <2>1 DEF DevicesOf
<1>3. Cardinality(DevicesOf(After(r))) <= Limit
  BY <1>2, FewerDevices DEF DeviceInv
<1>4. After(r)' = After(r)
  BY <1>1 DEF After
<1> QED
  BY <1>1, <1>3, <1>4 DEF DeviceInv, DevicesOf

LEMMA CommitKeepsLimit ==
  ASSUME DeviceInv, NEW r \in reports, CommitReport(r) PROVE DeviceInv'
<1>1. vpn' = After(r)
  BY DEF CommitReport, After
<1>2. reports' = {}
  BY DEF CommitReport, DeviceInv
<1>3. r \in Report /\ vpn \in [Sessions -> SessionRow] /\ Cardinality(DevicesOf(After(r))) <= Limit
  BY DEF DeviceInv
<1>4. After(r) \in [Sessions -> SessionRow]
  BY <1>3 DEF After, Report, SessionRow, NoSession
<1>5. Cardinality(DevicesOf(vpn))' <= Limit
  BY <1>1, <1>3 DEF DevicesOf
<1> QED
  BY <1>1, <1>2, <1>4, <1>5 DEF DeviceInv

(* The age of a session is not part of its device. *)
LEMMA AgeKeepsLimit ==
  ASSUME DeviceInv, TimePasses PROVE DeviceInv'
<1>1. /\ vpn \in [Sessions -> SessionRow] /\ reports' = reports
      /\ vpn' = [s \in Sessions |-> IF s \in WireGuard /\ vpn[s].open
                                    THEN [vpn[s] EXCEPT !.silent = Older(@, SilentAfter + 1)] ELSE vpn[s]]
  BY DEF TimePasses, DeviceInv
<1>2. \A s \in Sessions : /\ vpn'[s] \in SessionRow
                          /\ vpn'[s].open = vpn[s].open /\ vpn'[s].client = vpn[s].client
  BY <1>1, DeviceLimitsAssumption DEF SessionRow, Older
<1>3. vpn' \in [Sessions -> SessionRow]
  BY <1>1, <1>2
<1>4. DevicesOf(vpn') = DevicesOf(vpn)
  <2>1. {t \in Sessions : vpn'[t].open} = {t \in Sessions : vpn[t].open}
    BY <1>2
  <2> QED
    BY <1>2, <2>1 DEF DevicesOf
<1>5. ASSUME NEW r \in reports PROVE Cardinality(DevicesOf(After(r)'))<= Limit
  <2> DEFINE a == After(r)
             b == After(r)'
  <2>1. \A t \in Sessions : b[t].open = a[t].open /\ b[t].client = a[t].client
    BY <1>2 DEF After
  <2>2. Cardinality(DevicesOf(a)) <= Limit
    BY <1>5 DEF DeviceInv
  <2> HIDE DEF a, b
  <2>3. DevicesOf(b) \subseteq DevicesOf(a)
    BY <2>1 DEF DevicesOf
  <2>4. Cardinality(DevicesOf(b)) <= Limit
    BY <2>2, <2>3, FewerDevices
  <2> QED
    BY <2>4 DEF b
<1> QED
  BY <1>1, <1>3, <1>4, <1>5 DEF DeviceInv, DevicesOf

LEMMA SameSessions ==
  ASSUME DeviceInv, vpn' = vpn, reports' \subseteq reports PROVE DeviceInv'
<1>1. \A r : After(r)' = After(r)
  BY DEF After
<1> QED
  BY <1>1 DEF DeviceInv, DevicesOf

LEMMA DeviceInvariant == DeviceSpec => []DeviceInv
<1>1. DeviceInv /\ [DeviceNext]_deviceVars => DeviceInv'
  <2> SUFFICES ASSUME DeviceInv, [DeviceNext]_deviceVars PROVE DeviceInv'
    OBVIOUS
  <2>1. ASSUME NEW r \in reports, CommitReport(r) PROVE DeviceInv'
    BY <2>1, CommitKeepsLimit
  <2>2. ASSUME NEW r \in reports, AbortReport(r) PROVE DeviceInv'
    BY <2>2, SameSessions DEF AbortReport
  <2>3. ASSUME NEW s \in Sessions, BeginStop(s) PROVE DeviceInv'
    BY <2>3, StopLeavesFewer
  <2>4. ASSUME NEW s \in Sessions, NEW client \in Clients \cup {Unknown}, BeginStart(s, client) PROVE DeviceInv'
    BY <2>4, StartAdmitted
  <2>5. ASSUME NEW addresses, NEW age, StoreNodeOnlineIPs(addresses, age) PROVE DeviceInv'
    BY <2>5, SameSessions DEF StoreNodeOnlineIPs
  <2>6. CASE ApplyIPBlocks
    BY <2>6, SameSessions DEF ApplyIPBlocks
  <2>7. CASE TimePasses
    BY <2>7, AgeKeepsLimit
  <2>8. CASE UNCHANGED deviceVars
    BY <2>8, SameSessions DEF deviceVars
  <2> QED
    BY <2>1, <2>2, <2>3, <2>4, <2>5, <2>6, <2>7, <2>8 DEF DeviceNext
<1> QED
  BY NoDevices, <1>1, PTL DEF DeviceSpec

(* However session events are ordered, repeated, lost or aborted, no more   *)
(* than the user's limit of devices hold a session.                         *)
THEOREM DeviceLimitKept == DeviceSpec => []DevicesWithinLimit
<1>1. DeviceInv => DevicesWithinLimit
  BY DEF DeviceInv, DevicesWithinLimit, DevicesOf, Device, OpenSessions
<1> QED
  BY DeviceInvariant, <1>1, PTL

-----------------------------------------------------------------------------
(* The blocks *)

(* Every address of a client or of a tunnel has an age. *)
Sighting == DOMAIN sighted = Clients \cup Tunnels
Holders == {Device(s) : s \in OpenSessions}

LEMMA FewHolders ==
  ASSUME DeviceInv
  PROVE  IsFiniteSet(Holders) /\ Cardinality(Holders) \in Nat /\ Cardinality(Holders) <= Limit
<1>1. Holders = DevicesOf(vpn)
  BY DEF Holders, DevicesOf, Device, OpenSessions
<1> QED
  BY <1>1, FiniteDevices DEF DeviceInv

LEMMA FiniteAddresses ==
  ASSUME Sighting
  PROVE  IsFiniteSet(XrayDevices) /\ Cardinality(XrayDevices) \in Nat
<1> DEFINE f == [s \in Sessions |-> Assigned[s]]
<1>1. f \in Surjection(Sessions, Tunnels)
  BY Zenon DEF Surjection, Tunnels
<1>2. IsFiniteSet(Clients \cup Tunnels)
  BY <1>1, FS_Surjection, FS_Union, DeviceLimitsAssumption
<1>3. XrayDevices \subseteq Clients \cup Tunnels
  BY DEF XrayDevices, Fresh, Sighting
<1> QED
  BY <1>2, <1>3, FS_Subset, FS_CardinalityType

(* The addresses from position m + 1 on are all but m of them. *)
LEMMA AllButFirst ==
  ASSUME NEW X, IsFiniteSet(X), NEW order \in SetToSeqs(X), NEW m \in Nat, m <= Cardinality(X)
  PROVE  LET tail == {order[i] : i \in (m + 1)..Cardinality(X)} IN
         /\ tail \subseteq X /\ IsFiniteSet(X \ tail) /\ Cardinality(X \ tail) = m
<1> DEFINE n == Cardinality(X)
           I == (m + 1)..n
           g == [i \in I |-> order[i]]
           tail == {order[i] : i \in I}
<1>1. n \in Nat
  BY FS_CardinalityType
<1>2. order \in [1..n -> X] /\ \A i, j \in 1..n : i # j => order[i] # order[j]
  BY DEF SetToSeqs
<1>3. I \subseteq 1..n
  BY <1>1
<1>4. tail \subseteq X
  BY <1>2, <1>3
<1>5. IsFiniteSet(I) /\ Cardinality(I) = n - m
  BY <1>1, FS_Interval
<1> HIDE DEF n, I
<1>6. g \in Bijection(I, tail)
  <2>1. g \in [I -> tail] /\ \A i \in I : g[i] = order[i]
    OBVIOUS
  <2>2. g \in Injection(I, tail)
    BY <1>2, <1>3, <2>1 DEF Injection, IsInjective
  <2>3. \A t \in tail : \E i \in I : g[i] = t
    BY <2>1
  <2> QED
    BY <2>1, <2>2, <2>3 DEF Bijection, Surjection
<1>7. IsFiniteSet(tail) /\ Cardinality(tail) = n - m
  BY <1>5, <1>6, FS_Bijection DEF ExistsBijection
<1> HIDE DEF tail
<1>8. X \cap tail = tail
  BY <1>4
<1>9. IsFiniteSet(X \ tail) /\ Cardinality(X \ tail) = n - (n - m)
  BY <1>7, <1>8, FS_Difference DEF n
<1>10. n - (n - m) = m
  BY <1>1
<1> QED
  BY <1>4, <1>9, <1>10 DEF tail, n, I

(* What is left when the user has been seen with Xray: his devices with a   *)
(* session and the Xray ones that are not blocked.                          *)
LEMMA LeftDevices ==
  ASSUME Sighting, Fresh # {}, NEW blocks, blocks \subseteq XrayDevices
  PROVE  /\ Left(blocks) = Holders \cup (XrayDevices \ blocks)
         /\ Holders \cap (XrayDevices \ blocks) = {}
         /\ \A s \in OpenSessions : {vpn[s].client, Assigned[s]} \cap blocks = {}
<1>1. Counted = OpenSessions
  BY DEF Counted
<1>2. \A s \in OpenSessions : Device(s) \in {vpn[s].client, Assigned[s]}
  BY DEF Device, DeviceKey
<1>3. ASSUME NEW s \in OpenSessions, vpn[s].client \in Fresh
      PROVE  Device(s) = vpn[s].client
  BY <1>3, DeviceLimitsAssumption DEF Fresh, Device, DeviceKey, Sighting
<1> QED
  BY <1>1, <1>2, <1>3 DEF Left, Holders, XrayDevices, Sighting

Allowance(blocks) ==
  /\ \A s \in OpenSessions : {vpn[s].client, Assigned[s]} \cap blocks = {}
  /\ Cardinality(Left(blocks)) <= Limit \/ Left(blocks) = Holders
  /\ blocks # {} => Cardinality(Left(blocks)) >= Limit

LEMMA BlocksKeepAllowance ==
  ASSUME DeviceInv, Sighting, NEW order \in Orders(XrayDevices)
  PROVE  Allowance(IPBlocks(order))
<1> DEFINE X == XrayDevices
           n == Cardinality(X)
           k == Cardinality(Holders)
           blocks == IPBlocks(order)
<1>1. /\ order \in SetToSeqs(X) /\ order \in [1..n -> X]
      /\ IsFiniteSet(X) /\ n \in Nat /\ IsFiniteSet(Holders) /\ k \in Nat /\ k <= Limit /\ Limit \in Nat
  BY FewHolders, FiniteAddresses, DeviceLimitsAssumption DEF Orders, SetToSeqs
<1>2. CASE Fresh = {}
  <2>1. X = {}
    BY <1>2 DEF XrayDevices
  <2>2. order \in [1..0 -> {}]
    BY <1>1, <2>1, FS_EmptySet
  <2>3. blocks = {}
    BY <2>2 DEF IPBlocks
  <2>4. Left({}) = Holders
    BY <1>2 DEF Left, Holders
  <2> QED
    BY <2>3, <2>4 DEF Allowance
<1>3. CASE Fresh # {}
  <2>1. blocks = {order[i] : i \in {j \in 1..n : k + j > Limit}}
    BY <1>1, <1>3 DEF IPBlocks, Counted, Holders
  <2>2. blocks \subseteq X
    BY <1>1, <2>1
  <2>3. /\ Left(blocks) = Holders \cup (X \ blocks) /\ Holders \cap (X \ blocks) = {}
        /\ \A s \in OpenSessions : {vpn[s].client, Assigned[s]} \cap blocks = {}
    BY <1>3, <2>2, LeftDevices
  <2> HIDE DEF X, blocks
  <2>4. IsFiniteSet(X \ blocks) => Cardinality(Left(blocks)) = k + Cardinality(X \ blocks)
    <3> SUFFICES ASSUME IsFiniteSet(X \ blocks) PROVE Cardinality(Left(blocks)) = k + Cardinality(X \ blocks)
      OBVIOUS
    <3>1. Cardinality(Left(blocks)) = k + Cardinality(X \ blocks) - Cardinality(Holders \cap (X \ blocks))
      BY <1>1, <2>3, FS_Union
    <3>2. Cardinality(Holders \cap (X \ blocks)) = 0
      BY <2>3, FS_EmptySet
    <3>3. Cardinality(X \ blocks) \in Nat
      BY FS_CardinalityType
    <3> HIDE DEF k
    <3> QED
      BY <1>1, <3>1, <3>2, <3>3
  <2> HIDE DEF n, k
  <2>5. CASE k + n <= Limit
    <3>1. {j \in 1..n : k + j > Limit} = {}
      BY <1>1, <2>5
    <3>2. blocks = {} /\ X \ blocks = X
      BY <2>1, <3>1
    <3>3. Cardinality(Left(blocks)) <= Limit
      BY <1>1, <2>4, <2>5, <3>2 DEF n
    <3> QED
      BY <2>3, <3>2, <3>3 DEF Allowance, blocks
  <2>6. CASE k + n > Limit
    <3> DEFINE m == Limit - k
    <3>1. m \in Nat /\ m <= n /\ {j \in 1..n : k + j > Limit} = (m + 1)..n /\ k + m = Limit
      BY <1>1, <2>6
    <3> HIDE DEF m
    <3>2. blocks = {order[i] : i \in (m + 1)..n}
      BY <2>1, <3>1
    <3>3. IsFiniteSet(X \ blocks) /\ Cardinality(X \ blocks) = m
      BY <1>1, <3>1, <3>2, AllButFirst DEF n
    <3>4. Cardinality(Left(blocks)) = Limit
      BY <2>4, <3>1, <3>3
    <3> QED
      BY <1>1, <2>3, <3>4 DEF Allowance, blocks
  <2> QED
    BY <1>1, <2>5, <2>6
<1> QED
  BY <1>2, <1>3

LEMMA SightingStep == Sighting /\ [DeviceNext]_deviceVars => Sighting'
BY DEF Sighting, DeviceNext, CommitReport, AbortReport, BeginStop, BeginStart, StoreNodeOnlineIPs, ApplyIPBlocks,
       TimePasses, deviceVars

(* The blocks sent to a node cut the user to his limit and no further,      *)
(* whatever sessions he holds, whatever addresses were seen and in whatever *)
(* order those of the same time are taken.                                  *)
THEOREM DeviceAllowanceKept == DeviceSpec => AllowanceKept
<1>1. DeviceInit => Sighting
  BY DEF DeviceInit, Sighting
<1>2. ASSUME DeviceInv, Sighting, [DeviceNext]_deviceVars
      PROVE  [blocked' # blocked => Allowance(blocked')]_deviceVars
  <2>1. CASE ApplyIPBlocks
    <3>1. PICK order \in Orders(XrayDevices) : blocked' = IPBlocks(order)
      BY <2>1 DEF ApplyIPBlocks
    <3> QED
      BY <1>2, <3>1, BlocksKeepAllowance
  <2>2. CASE ~ApplyIPBlocks
    <3>1. blocked' = blocked
      BY <1>2, <2>2 DEF DeviceNext, CommitReport, AbortReport, BeginStop, BeginStart, StoreNodeOnlineIPs, TimePasses, deviceVars
    <3> QED
      BY <3>1
  <2> QED
    BY <2>1, <2>2
<1> QED
  BY <1>1, <1>2, DeviceInvariant, SightingStep, PTL DEF DeviceSpec, AllowanceKept, Allowance, Holders

-----------------------------------------------------------------------------
(* The traffic of admins                                                   *)

(* What the transactions work on. *)
Tables == [admin : [AdminIds -> AdminRow], user : [Owners -> LimitedUser], ops : SUBSET Owners]

(* A user nobody may bring back without being asked to. *)
Resting(r) == r.status = "deleted" \/ (r.status = "disabled" /\ ~r.adminMark /\ ~r.serviceMark)

(* Every change of the tables tells of whoever gains or loses access and    *)
(* leaves the resting users alone.                                          *)
UserStep(d, e) ==
  /\ d.ops \subseteq e.ops
  /\ \A u \in Owners : HasAccess(d.user[u]) # HasAccess(e.user[u]) => u \in e.ops
  /\ \A u \in Owners : Resting(d.user[u]) => Resting(e.user[u])

LEMMA UserSteps ==
  ASSUME NEW d, NEW e, NEW f, UserStep(d, e), UserStep(e, f) PROVE UserStep(d, f)
<1> SUFFICES ASSUME NEW u \in Owners, HasAccess(d.user[u]) # HasAccess(f.user[u]) PROVE u \in f.ops
  BY DEF UserStep
<1>1. CASE HasAccess(d.user[u]) # HasAccess(e.user[u])
  BY <1>1 DEF UserStep
<1>2. CASE HasAccess(e.user[u]) # HasAccess(f.user[u])
  BY <1>2 DEF UserStep
<1> QED
  BY <1>1, <1>2

LEMMA NoStep == ASSUME NEW d PROVE UserStep(d, d)
BY DEF UserStep

(* The four changes of a user that come with those of an admin. *)
LEMMA RowChanges ==
  ASSUME NEW r \in LimitedUser
  PROVE  /\ BackFromAdmin(r) \in LimitedUser /\ HasAccess(BackFromAdmin(r))
         /\ BackFromService(r) \in LimitedUser /\ HasAccess(BackFromService(r))
         /\ BackFromService(r).adminMark = r.adminMark /\ BackFromAdmin(r).serviceMark = r.serviceMark
         /\ StoppedByAdmin(r) \in LimitedUser /\ ~HasAccess(StoppedByAdmin(r))
         /\ StoppedByAdmin(r).serviceMark = r.serviceMark
         /\ StoppedByService(r) \in LimitedUser /\ ~HasAccess(StoppedByService(r))
BY DEF LimitedUser, BackFromAdmin, BackFromService, Back, StoppedByAdmin, StoppedByService, HasAccess

AdminWith(t, status, reason) == [t EXCEPT !.status = status, !.reason = reason]

LEMMA AdminWithFields ==
  ASSUME NEW t \in AdminRow, NEW status \in {"active", "disabled", "deleted"}, NEW reason \in {"none", "manual", "limit"}
  PROVE  LET s == AdminWith(t, status, reason) IN
         /\ s \in AdminRow /\ s.status = status /\ s.reason = reason
         /\ s.usersLimit = t.usersLimit /\ s.perService = t.perService
BY DEF AdminRow, Reasons, AdminWith

LEMMA SetAdminStep ==
  ASSUME NEW d \in Tables, NEW a \in AdminIds,
         NEW status \in {"active", "disabled", "deleted"}, NEW reason \in {"none", "manual", "limit"}
  PROVE  LET e == SetAdmin(d, a, status, reason) IN
         /\ e \in Tables /\ e.user = d.user /\ e.ops = d.ops
         /\ \A b \in AdminIds \ {a} : e.admin[b] = d.admin[b]
         /\ e.admin[a] = AdminWith(d.admin[a], status, reason)
<1> DEFINE row == AdminWith(d.admin[a], status, reason)
           e == [d EXCEPT !.admin = [d.admin EXCEPT ![a] = row]]
<1>1. d.admin[a] \in AdminRow
  BY DEF Tables
<1>2. row \in AdminRow
  BY <1>1, AdminWithFields
<1>3. SetAdmin(d, a, status, reason) = e
  BY <1>1 DEF SetAdmin, Tables, AdminWith
<1> HIDE DEF row
<1>4. e \in Tables /\ e.user = d.user /\ e.ops = d.ops /\ e.admin = [d.admin EXCEPT ![a] = row]
  BY <1>2 DEF Tables
<1> QED
  BY <1>3, <1>4 DEF Tables, row

(* A change of the users S: the new rows and the operations. *)
WithRows(d, rows, S) == [d EXCEPT !.user = rows, !.ops = @ \cup S]

LEMMA WithStep ==
  ASSUME NEW d \in Tables, NEW S \in SUBSET Owners, NEW rows \in [Owners -> LimitedUser],
         \A u \in Owners \ S : rows[u] = d.user[u],
         \A u \in S : Resting(d.user[u]) => Resting(rows[u])
  PROVE  LET e == WithRows(d, rows, S) IN
         e \in Tables /\ e.admin = d.admin /\ e.user = rows /\ e.ops = d.ops \cup S /\ UserStep(d, e)
<1> DEFINE e == WithRows(d, rows, S)
<1>1. e.admin = d.admin /\ e.user = rows /\ e.ops = d.ops \cup S
  BY DEF Tables, WithRows
<1>2. e \in Tables
  BY DEF Tables, WithRows
<1> HIDE DEF e
<1>3. UserStep(d, e)
  BY <1>1 DEF UserStep
<1> QED
  BY <1>1, <1>2, <1>3 DEF e

LEMMA StopAdminStep ==
  ASSUME NEW d \in Tables, NEW a \in AdminIds, NEW reason \in {"manual", "limit"}
  PROVE  LET e == StopAdmin(d, a, reason) IN
         /\ e \in Tables /\ UserStep(d, e)
         /\ \A b \in AdminIds \ {a} : e.admin[b] = d.admin[b]
         /\ e.admin[a] = AdminWith(d.admin[a], "disabled", reason)
         /\ Accessible(e, a) \subseteq Accessible(d, a)
         /\ \A u \in Owners : e.user[u].serviceMark = d.user[u].serviceMark
<1> DEFINE f == SetAdmin(d, a, "disabled", reason)
           S == Accessible(d, a)
           rows == [u \in Owners |-> IF u \in S THEN StoppedByAdmin(f.user[u]) ELSE f.user[u]]
<1>1. /\ f \in Tables /\ f.user = d.user /\ f.ops = d.ops
      /\ \A b \in AdminIds \ {a} : f.admin[b] = d.admin[b]
      /\ f.admin[a] = AdminWith(d.admin[a], "disabled", reason)
  <2>1. CASE reason = "manual"
    BY <2>1, SetAdminStep
  <2>2. CASE reason = "limit"
    BY <2>2, SetAdminStep
  <2> QED
    BY <2>1, <2>2
<1>2. S \in SUBSET Owners /\ \A u \in S : HasAccess(d.user[u])
  BY DEF Accessible, Owners
<1>3. StopAdmin(d, a, reason) = WithRows(f, rows, S)
  BY DEF StopAdmin, With, WithRows
<1> HIDE DEF f
<1>4. \A u \in Owners : f.user[u] \in LimitedUser
  BY <1>1 DEF Tables
<1>5. rows \in [Owners -> LimitedUser] /\ \A u \in Owners : rows[u].serviceMark = f.user[u].serviceMark
  BY <1>4, RowChanges
<1>6. \A u \in Owned[a] : HasAccess(rows[u]) => u \in S
  BY <1>1 DEF Accessible, Owners
<1> HIDE DEF S
<1>7. /\ \A u \in Owners \ S : rows[u] = f.user[u]
      /\ \A u \in S : Resting(f.user[u]) => Resting(rows[u])
  BY <1>1, <1>2 DEF Resting, HasAccess
<1> HIDE DEF rows
<1>8. LET e == StopAdmin(d, a, reason) IN e \in Tables /\ e.admin = f.admin /\ e.user = rows /\ UserStep(f, e)
  BY <1>1, <1>2, <1>3, <1>5, <1>7, WithStep
<1>9. UserStep(d, f)
  BY <1>1 DEF UserStep
<1>10. Accessible(StopAdmin(d, a, reason), a) \subseteq S
  BY <1>6, <1>8 DEF Accessible
<1> QED
  BY <1>1, <1>5, <1>8, <1>9, <1>10, UserSteps DEF S

LEMMA RestoreAdminStep ==
  ASSUME NEW d \in Tables, NEW a \in AdminIds
  PROVE  LET e == RestoreAdmin(d, a) IN
         /\ e \in Tables /\ UserStep(d, e)
         /\ \A b \in AdminIds \ {a} : e.admin[b] = d.admin[b]
         /\ e.admin[a] = AdminWith(d.admin[a], "active", "none")
         /\ Accessible(e, a) \subseteq Accessible(d, a) \cup Marked(d, a)
         /\ \A u \in Owners : e.user[u].serviceMark = d.user[u].serviceMark
<1> DEFINE f == SetAdmin(d, a, "active", "none")
           S == Marked(d, a)
           rows == [u \in Owners |-> IF u \in S THEN BackFromAdmin(f.user[u]) ELSE f.user[u]]
<1>1. /\ f \in Tables /\ f.user = d.user /\ f.ops = d.ops
      /\ \A b \in AdminIds \ {a} : f.admin[b] = d.admin[b]
      /\ f.admin[a] = AdminWith(d.admin[a], "active", "none")
  BY SetAdminStep
<1>2. S \in SUBSET Owners /\ \A u \in S : d.user[u].status = "disabled" /\ d.user[u].adminMark
  BY DEF Marked, Owners
<1>3. RestoreAdmin(d, a) = WithRows(f, rows, S)
  BY DEF RestoreAdmin, With, WithRows
<1> HIDE DEF f
<1>4. \A u \in Owners : f.user[u] \in LimitedUser
  BY <1>1 DEF Tables
<1>5. rows \in [Owners -> LimitedUser] /\ \A u \in Owners : rows[u].serviceMark = f.user[u].serviceMark
  BY <1>4, RowChanges
<1>6. \A u \in Owned[a] : HasAccess(rows[u]) => u \in Accessible(d, a) \cup S
  BY <1>1 DEF Accessible, Owners
<1> HIDE DEF S
<1>7. /\ \A u \in Owners \ S : rows[u] = f.user[u]
      /\ \A u \in S : Resting(f.user[u]) => Resting(rows[u])
  BY <1>1, <1>2 DEF Resting
<1> HIDE DEF rows
<1>8. LET e == RestoreAdmin(d, a) IN e \in Tables /\ e.admin = f.admin /\ e.user = rows /\ UserStep(f, e)
  BY <1>1, <1>2, <1>3, <1>5, <1>7, WithStep
<1>9. UserStep(d, f)
  BY <1>1 DEF UserStep
<1>10. Accessible(RestoreAdmin(d, a), a) \subseteq Accessible(d, a) \cup S
  BY <1>6, <1>8 DEF Accessible
<1> QED
  BY <1>1, <1>5, <1>8, <1>9, <1>10, UserSteps DEF S

(* Users come back with their service, and go with it. *)
LEMMA ReconcileServicesStep ==
  ASSUME NEW d \in Tables, NEW a \in AdminIds
  PROVE  LET e == ReconcileServices(d, a) IN
         /\ e \in Tables /\ e.admin = d.admin /\ UserStep(d, e)
         /\ (\A u \in Owned[a] : ~d.user[u].serviceMark) => Accessible(e, a) \subseteq Accessible(d, a)
<1> DEFINE t == d.admin[a]
           back == {u \in Owned[a] : /\ t.status = "active"
                                     /\ d.user[u].status = "disabled" /\ d.user[u].serviceMark
                                     /\ InService[u] \notin Exhausted(t)}
           stopped == {u \in Accessible(d, a) : InService[u] \in Exhausted(t)}
           rows1 == [u \in Owners |-> IF u \in back THEN BackFromService(d.user[u]) ELSE d.user[u]]
           f == WithRows(d, rows1, back)
           rows2 == [u \in Owners |-> IF u \in stopped THEN StoppedByService(f.user[u]) ELSE f.user[u]]
           e == WithRows(f, rows2, stopped)
<1>1. ReconcileServices(d, a) = e
  BY DEF ReconcileServices, With, WithRows
<1>2. /\ back \in SUBSET Owners /\ back \subseteq Owned[a]
      /\ \A u \in back : d.user[u].status = "disabled" /\ d.user[u].serviceMark
  BY DEF Owners
<1>3. /\ stopped \in SUBSET Owners
      /\ \A u \in stopped : u \in Owned[a] /\ HasAccess(d.user[u])
  BY DEF Accessible, Owners
<1> HIDE DEF back, stopped
<1>4. rows1 \in [Owners -> LimitedUser]
  BY RowChanges DEF Tables
<1>5. /\ \A u \in Owners \ back : rows1[u] = d.user[u]
      /\ \A u \in back : Resting(d.user[u]) => Resting(rows1[u])
  BY <1>2 DEF Resting
<1>6. \A u \in stopped : rows1[u] = d.user[u]
  BY <1>2, <1>3 DEF HasAccess
<1> HIDE DEF rows1
<1>7. f \in Tables /\ f.admin = d.admin /\ f.user = rows1 /\ UserStep(d, f)
  BY <1>2, <1>4, <1>5, WithStep
<1> HIDE DEF f
<1>8. rows2 \in [Owners -> LimitedUser] /\ \A u \in stopped : ~HasAccess(rows2[u])
  BY <1>3, <1>7, RowChanges DEF Tables
<1>9. /\ \A u \in Owners \ stopped : rows2[u] = f.user[u]
      /\ \A u \in stopped : Resting(f.user[u]) => Resting(rows2[u])
  BY <1>3, <1>6, <1>7 DEF Resting, HasAccess
<1> HIDE DEF rows2
<1>10. e \in Tables /\ e.admin = f.admin /\ e.user = rows2 /\ UserStep(f, e)
  BY <1>3, <1>7, <1>8, <1>9, WithStep
<1> HIDE DEF e
<1>11. ASSUME \A u \in Owned[a] : ~d.user[u].serviceMark PROVE Accessible(e, a) \subseteq Accessible(d, a)
  <2>1. back = {}
    BY <1>2, <1>11
  <2>2. \A u \in Owned[a] : HasAccess(rows2[u]) => HasAccess(d.user[u])
    BY <1>5, <1>7, <1>8, <1>9, <2>1 DEF Owners
  <2> QED
    BY <1>10, <2>2 DEF Accessible
<1> QED
  BY <1>1, <1>7, <1>10, <1>11, UserSteps

(* Who has access after the first half of a reconciliation. *)
LEMMA ReconcileAdminStep ==
  ASSUME NEW d \in Tables, NEW a \in AdminIds
  PROVE  LET e == ReconcileAdmin(d, a) IN
         /\ e \in Tables /\ UserStep(d, e)
         /\ \A b \in AdminIds \ {a} : e.admin[b] = d.admin[b]
         /\ e.admin[a].usersLimit = d.admin[a].usersLimit /\ e.admin[a].perService = d.admin[a].perService
         /\ \A u \in Owners : e.user[u].serviceMark = d.user[u].serviceMark
         /\ Accessible(e, a) \subseteq Accessible(d, a) \cup Marked(d, a)
         /\ d.admin[a].status = "active" => Accessible(e, a) \subseteq Accessible(d, a)
         /\ d.admin[a].status = "disabled" /\ e.admin[a].status = "active"
              => ~OutOfLimit(d.admin[a]) /\ StoppedByLimit(d.admin[a])
<1> DEFINE t == d.admin[a]
<1>1. t \in AdminRow
  BY DEF Tables
<1>2. CASE OutOfLimit(t) /\ t.status = "active"
  <2>1. ReconcileAdmin(d, a) = StopAdmin(d, a, "limit")
    BY <1>2 DEF ReconcileAdmin
  <2>2. LET s == AdminWith(t, "disabled", "limit") IN
        s.status = "disabled" /\ s.usersLimit = t.usersLimit /\ s.perService = t.perService
    BY <1>1, AdminWithFields
  <2>3. LET e == StopAdmin(d, a, "limit") IN
        /\ e \in Tables /\ UserStep(d, e)
        /\ \A b \in AdminIds \ {a} : e.admin[b] = d.admin[b]
        /\ e.admin[a] = AdminWith(t, "disabled", "limit")
        /\ Accessible(e, a) \subseteq Accessible(d, a)
        /\ \A u \in Owners : e.user[u].serviceMark = d.user[u].serviceMark
    BY StopAdminStep
  <2> HIDE DEF t
  <2> QED
    BY <1>2, <2>1, <2>2, <2>3 DEF t
<1>3. CASE ~OutOfLimit(t) /\ StoppedByLimit(t)
  <2>1. ReconcileAdmin(d, a) = RestoreAdmin(d, a)
    BY <1>3 DEF ReconcileAdmin
  <2>2. LET s == AdminWith(t, "active", "none") IN
        s.status = "active" /\ s.usersLimit = t.usersLimit /\ s.perService = t.perService
    BY <1>1, AdminWithFields
  <2>3. t.status = "disabled"
    BY <1>3 DEF StoppedByLimit
  <2> HIDE DEF t
  <2> QED
    BY <1>3, <2>1, <2>2, <2>3, RestoreAdminStep DEF t
<1>4. CASE ~(OutOfLimit(t) /\ t.status = "active") /\ ~(~OutOfLimit(t) /\ StoppedByLimit(t))
  <2>1. ReconcileAdmin(d, a) = d
    BY <1>4 DEF ReconcileAdmin
  <2> QED
    BY <2>1, NoStep
<1> QED
  BY <1>2, <1>3, <1>4

(* A reconciliation that does not fail brings an admin back to no more users *)
(* than fit, unless some of his users come back with their service.          *)
Reconciliation(d, e, a) ==
  /\ e \in Tables /\ UserStep(d, e)
  /\ \A b \in AdminIds \ {a} : e.admin[b] = d.admin[b]
  /\ e.admin[a].usersLimit = d.admin[a].usersLimit /\ e.admin[a].perService = d.admin[a].perService
  /\ (\A u \in Owned[a] : ~d.user[u].serviceMark)
      => /\ d.admin[a].status = "active" => Accessible(e, a) \subseteq Accessible(d, a)
         /\ (/\ d.admin[a].status = "disabled" /\ e.admin[a].status = "active"
             /\ d.admin[a].usersLimit > 0 /\ ~d.admin[a].perService)
            => Cardinality(Accessible(e, a)) <= d.admin[a].usersLimit

LEMMA FitTogether ==
  ASSUME NEW d \in Tables, NEW e \in Tables, NEW a \in AdminIds,
         Fits(d, a, Marked(d, a)), d.admin[a].usersLimit > 0, ~d.admin[a].perService,
         Accessible(e, a) \subseteq Accessible(d, a) \cup Marked(d, a)
  PROVE  Cardinality(Accessible(e, a)) <= d.admin[a].usersLimit
<1> DEFINE A == Accessible(d, a)
           M == Marked(d, a)
<1>1. d.admin[a].usersLimit \in Nat
  BY DEF Tables, AdminRow
<1>2. Cardinality(A) + Cardinality(M) <= d.admin[a].usersLimit
  BY <1>1 DEF Fits
<1>3. IsFiniteSet(Owned[a])
  BY LimitAssumption
<1>4. A \subseteq Owned[a] /\ M \subseteq Owned[a] /\ A \cap M = {}
  BY DEF Accessible, Marked, HasAccess
<1>5. IsFiniteSet(A) /\ IsFiniteSet(M)
  BY <1>3, <1>4, FS_Subset
<1> HIDE DEF A, M
<1>6. /\ IsFiniteSet(A \cup M)
      /\ Cardinality(A \cup M) = Cardinality(A) + Cardinality(M) - Cardinality(A \cap M)
  BY <1>5, FS_Union
<1>7. Cardinality(A \cap M) = 0
  BY <1>4, FS_EmptySet
<1>8. IsFiniteSet(Accessible(e, a)) /\ Cardinality(Accessible(e, a)) <= Cardinality(A \cup M)
  BY <1>6, FS_Subset DEF A, M
<1>9. Cardinality(A) \in Nat /\ Cardinality(M) \in Nat /\ Cardinality(Accessible(e, a)) \in Nat
  BY <1>5, <1>8, FS_CardinalityType
<1> QED
  BY <1>1, <1>2, <1>6, <1>7, <1>8, <1>9

LEMMA ReconciledStep ==
  ASSUME NEW d \in Tables, NEW a \in AdminIds, ~Unrestorable(d, a)
  PROVE  Reconciliation(d, Reconciled(d, a), a)
<1> DEFINE r == ReconcileAdmin(d, a)
           e == ReconcileServices(r, a)
<1>1. /\ r \in Tables /\ UserStep(d, r)
      /\ \A b \in AdminIds \ {a} : r.admin[b] = d.admin[b]
      /\ r.admin[a].usersLimit = d.admin[a].usersLimit /\ r.admin[a].perService = d.admin[a].perService
      /\ \A u \in Owners : r.user[u].serviceMark = d.user[u].serviceMark
      /\ Accessible(r, a) \subseteq Accessible(d, a) \cup Marked(d, a)
      /\ d.admin[a].status = "active" => Accessible(r, a) \subseteq Accessible(d, a)
      /\ d.admin[a].status = "disabled" /\ r.admin[a].status = "active"
           => ~OutOfLimit(d.admin[a]) /\ StoppedByLimit(d.admin[a])
  BY ReconcileAdminStep
<1> HIDE DEF r
<1>2. /\ e \in Tables /\ e.admin = r.admin /\ UserStep(r, e)
      /\ (\A u \in Owned[a] : ~r.user[u].serviceMark) => Accessible(e, a) \subseteq Accessible(r, a)
  BY <1>1, ReconcileServicesStep
<1>3. Reconciled(d, a) = e
  BY DEF Reconciled, r
<1> HIDE DEF e
<1>4. UserStep(d, e)
  BY <1>1, <1>2, UserSteps
<1>5. ASSUME \A u \in Owned[a] : ~d.user[u].serviceMark
      PROVE  Accessible(e, a) \subseteq Accessible(r, a)
  BY <1>1, <1>2, <1>5 DEF Owners
<1>6. ASSUME \A u \in Owned[a] : ~d.user[u].serviceMark,
             d.admin[a].status = "disabled", e.admin[a].status = "active",
             d.admin[a].usersLimit > 0, ~d.admin[a].perService
      PROVE  Cardinality(Accessible(e, a)) <= d.admin[a].usersLimit
  <2>1. Fits(d, a, Marked(d, a))
    BY <1>1, <1>2, <1>6 DEF Unrestorable
  <2>2. Accessible(e, a) \subseteq Accessible(d, a) \cup Marked(d, a)
    BY <1>1, <1>5, <1>6
  <2> QED
    BY <1>2, <1>6, <2>1, <2>2, FitTogether
<1>7. ASSUME \A u \in Owned[a] : ~d.user[u].serviceMark, d.admin[a].status = "active"
      PROVE  Accessible(e, a) \subseteq Accessible(d, a)
  BY <1>1, <1>5, <1>7
<1> QED
  BY <1>1, <1>2, <1>3, <1>4, <1>6, <1>7 DEF Reconciliation

(* Several admins at once: none has a user of another. *)
LEMMA OwnerIs ==
  ASSUME NEW a \in AdminIds, NEW u \in Owned[a] PROVE OwnerOf(u) = a
BY LimitAssumption DEF OwnerOf

LEMMA AllReconciledStep ==
  ASSUME NEW d \in Tables, d.ops = {}, NEW S \in SUBSET AdminIds, \A a \in S : ~Unrestorable(d, a)
  PROVE  LET e == AllReconciled(d, S) IN
         /\ e \in Tables /\ UserStep(d, e)
         /\ \A a \in AdminIds \ S : e.admin[a] = d.admin[a]
         /\ \A a \in S : /\ e.admin[a] = Reconciled(d, a).admin[a]
                         /\ \A u \in Owned[a] : e.user[u] = Reconciled(d, a).user[u]
<1> DEFINE e == AllReconciled(d, S)
<1>1. \A a \in S : /\ Reconciled(d, a) \in Tables /\ UserStep(d, Reconciled(d, a))
  BY ReconciledStep DEF Reconciliation
<1>2. \A u \in UNION {Owned[a] : a \in S} : OwnerOf(u) \in S /\ u \in Owned[OwnerOf(u)]
  BY OwnerIs
<1>3. /\ e.admin = [a \in AdminIds |-> IF a \in S THEN Reconciled(d, a).admin[a] ELSE d.admin[a]]
      /\ e.user = [u \in Owners |-> IF u \in UNION {Owned[a] : a \in S} THEN Reconciled(d, OwnerOf(u)).user[u] ELSE d.user[u]]
      /\ e.ops = UNION {Reconciled(d, a).ops : a \in S}
      /\ e = [admin |-> e.admin, user |-> e.user, ops |-> e.ops]
  BY DEF AllReconciled
<1> HIDE DEF e
<1>4. e.admin \in [AdminIds -> AdminRow]
  BY <1>1, <1>3 DEF Tables
<1>5. e.user \in [Owners -> LimitedUser]
  BY <1>1, <1>2, <1>3 DEF Tables
<1>6. e.ops \in SUBSET Owners
  BY <1>1, <1>3 DEF Tables
<1>7. e \in Tables
  BY <1>3, <1>4, <1>5, <1>6 DEF Tables
<1>8. UserStep(d, e)
  <2>1. d.ops \subseteq e.ops
    OBVIOUS
  <2>2. ASSUME NEW u \in Owners
        PROVE  /\ HasAccess(d.user[u]) # HasAccess(e.user[u]) => u \in e.ops
               /\ Resting(d.user[u]) => Resting(e.user[u])
    <3>1. CASE u \in UNION {Owned[a] : a \in S}
      <4>1. OwnerOf(u) \in S /\ e.user[u] = Reconciled(d, OwnerOf(u)).user[u]
        BY <1>2, <1>3, <3>1
      <4>2. UserStep(d, Reconciled(d, OwnerOf(u))) /\ Reconciled(d, OwnerOf(u)).ops \subseteq e.ops
        BY <1>1, <1>3, <4>1
      <4> QED
        BY <4>1, <4>2 DEF UserStep
    <3>2. CASE u \notin UNION {Owned[a] : a \in S}
      BY <1>3, <3>2
    <3> QED
      BY <3>1, <3>2
  <2> QED
    BY <2>1, <2>2 DEF UserStep
<1>9. \A a \in S : \A u \in Owned[a] : e.user[u] = Reconciled(d, a).user[u]
  BY <1>3, OwnerIs DEF Owners
<1> QED
  BY <1>3, <1>7, <1>8, <1>9 DEF e
-----------------------------------------------------------------------------
(* What every step keeps: the users kept by hand stay out of reach of every *)
(* reconciliation, whoever gains or loses access is told of, and an admin   *)
(* comes back to no more users than fit.                                    *)
LimitInv == LimitTypeOK /\ \A u \in byHand : Resting(userRow[u])

Told == \A u \in Owners : HasAccess(userRow[u]) # HasAccess(userRow'[u]) => u \in told'
Fitting ==
  \A a \in AdminIds :
    (/\ adminRow[a].status = "disabled" /\ adminRow'[a].status = "active"
     /\ adminRow'[a].usersLimit > 0 /\ ~adminRow'[a].perService
     /\ userRow' # userRow
     /\ \A u \in Owned[a] : ~userRow[u].serviceMark)
    => Cardinality({u \in Owned[a] : HasAccess(userRow'[u])}) <= adminRow'[a].usersLimit
Kept == LimitInv' /\ Told /\ Fitting

NoComeback == \A a \in AdminIds : adminRow[a].status = "disabled" => adminRow'[a].status # "active"

LEMMA NobodyBack == ASSUME NoComeback PROVE Fitting
BY DEF NoComeback, Fitting

LEMMA DatabaseTables ==
  ASSUME LimitInv
  PROVE  /\ Database \in Tables /\ Database.admin = adminRow /\ Database.user = userRow /\ Database.ops = {}
BY DEF LimitInv, LimitTypeOK, Tables, Database

(* A transaction that writes what a change of the tables made of them. *)
LEMMA Written ==
  ASSUME LimitInv, NEW d \in Tables, NEW e \in Tables, d.user = userRow, UserStep(d, e), Write(e),
         byHand' \subseteq Owners, \A u \in byHand' \ byHand : Resting(e.user[u]),
         todo' \subseteq AdminIds, requests' \in Nat
  PROVE  LimitInv' /\ Told
<1>1. adminRow' = e.admin /\ userRow' = e.user /\ told' = e.ops
  BY DEF Write
<1>2. byHand \subseteq Owners /\ \A u \in byHand : Resting(d.user[u])
  BY DEF LimitInv, LimitTypeOK
<1>3. \A u \in byHand' : Resting(userRow'[u])
  BY <1>1, <1>2 DEF UserStep
<1>4. LimitTypeOK'
  BY <1>1, <1>2 DEF LimitTypeOK, Tables
<1>5. Told
  BY <1>1 DEF Told, UserStep
<1> QED
  BY <1>3, <1>4, <1>5 DEF LimitInv

LEMMA Reconciles ==
  ASSUME NEW d, NEW a, ThenReconcile(d, a) PROVE ~Unrestorable(d, a) /\ Write(Reconciled(d, a))
BY DEF ThenReconcile, Reconciled

(* A change of an admin's row that leaves his status alone, reconciled. *)
LEMMA EditedStep ==
  ASSUME LimitInv, NEW a \in AdminIds, NEW d \in Tables, d.user = userRow,
         \A b \in AdminIds : d.admin[b].status = adminRow[b].status,
         ThenReconcile(d, a), byHand' = byHand, todo' \subseteq AdminIds, requests' \in Nat
  PROVE  Kept
<1> DEFINE e == Reconciled(d, a)
<1>1. Reconciliation(d, e, a) /\ Write(e)
  BY Reconciles, ReconciledStep
<1> HIDE DEF e
<1>2. e \in Tables /\ UserStep(d, e) /\ adminRow' = e.admin /\ userRow' = e.user
  BY <1>1 DEF Reconciliation, Write
<1>3. LimitInv' /\ Told
  <2>1. byHand' \subseteq Owners /\ \A u \in byHand' \ byHand : Resting(e.user[u])
    BY DEF LimitInv, LimitTypeOK
  <2> QED
    BY <1>1, <1>2, <2>1, Written
<1>4. Fitting
  <2> SUFFICES ASSUME NEW b \in AdminIds,
                      adminRow[b].status = "disabled", adminRow'[b].status = "active",
                      adminRow'[b].usersLimit > 0, ~adminRow'[b].perService,
                      \A u \in Owned[b] : ~userRow[u].serviceMark
               PROVE  Cardinality({u \in Owned[b] : HasAccess(userRow'[u])}) <= adminRow'[b].usersLimit
    BY DEF Fitting
  <2>1. b = a
    BY <1>1, <1>2 DEF Reconciliation
  <2>2. Accessible(e, a) = {u \in Owned[b] : HasAccess(userRow'[u])}
    BY <1>2, <2>1 DEF Accessible
  <2> QED
    BY <1>1, <1>2, <2>1, <2>2 DEF Reconciliation
<1> QED
  BY <1>3, <1>4 DEF Kept

(* A request that writes the admins only. *)
LEMMA AdminsOnly ==
  ASSUME LimitInv, adminRow' \in [AdminIds -> AdminRow], userRow' = userRow, told' = {},
         byHand' = byHand, todo' \subseteq AdminIds, requests' \in Nat
  PROVE  Kept
BY DEF LimitInv, LimitTypeOK, Kept, Told, Fitting

LEMMA RequestTypes ==
  ASSUME LimitInv, Request PROVE todo' \subseteq AdminIds /\ requests' \in Nat
BY DEF LimitInv, LimitTypeOK, Request

WithAdmin(d, a, row) == [d EXCEPT !.admin[a] = row]

LEMMA WithAdminStep ==
  ASSUME NEW d \in Tables, NEW a \in AdminIds, NEW row \in AdminRow
  PROVE  LET e == WithAdmin(d, a, row) IN
         /\ e \in Tables /\ e.user = d.user /\ e.ops = d.ops
         /\ \A b \in AdminIds \ {a} : e.admin[b] = d.admin[b]
         /\ e.admin[a] = row
<1>1. WithAdmin(d, a, row) = [d EXCEPT !.admin = [d.admin EXCEPT ![a] = row]]
  BY DEF WithAdmin, Tables
<1> QED
  BY <1>1 DEF Tables

LEMMA EditedRow ==
  ASSUME LimitInv, NEW a \in AdminIds, NEW row \in AdminRow, row.status = adminRow[a].status,
         ThenReconcile(WithAdmin(Database, a, row), a), Request, byHand' = byHand
  PROVE  Kept
<1> DEFINE d == WithAdmin(Database, a, row)
<1>1. /\ d \in Tables /\ d.user = userRow
      /\ \A b \in AdminIds : d.admin[b].status = adminRow[b].status
  BY DatabaseTables, WithAdminStep
<1> HIDE DEF d
<1> QED
  BY <1>1, EditedStep, RequestTypes DEF d

LEMMA UpdateAdminStep ==
  ASSUME LimitInv, NEW a \in AdminIds, NEW e \in AdminEdits, UpdateAdmin(a, e) PROVE Kept
<1> DEFINE row == [adminRow[a] EXCEPT !.limit = e.limit, !.usersLimit = e.usersLimit, !.late = e.late, !.perService = e.perService]
<1>1. e \in AdminEdit /\ adminRow[a] \in AdminRow
  BY LimitAssumption DEF LimitInv, LimitTypeOK
<1>2. row \in AdminRow /\ row.status = adminRow[a].status
  BY <1>1 DEF AdminRow, AdminEdit
<1>3. ThenReconcile(WithAdmin(Database, a, row), a)
  BY DEF UpdateAdmin, WithAdmin, Database
<1> HIDE DEF row
<1> QED
  BY <1>2, <1>3, EditedRow DEF UpdateAdmin

LEMMA UnusedRow ==
  ASSUME NEW t \in AdminRow PROVE Unused(t) \in AdminRow /\ Unused(t).status = t.status
BY DEF AdminRow, Unused

LEMMA ResetAdminUsageStep ==
  ASSUME LimitInv, NEW a \in AdminIds, ResetAdminUsage(a) PROVE Kept
<1>1. adminRow[a] \in AdminRow
  BY DEF LimitInv, LimitTypeOK
<1>2. ThenReconcile(WithAdmin(Database, a, Unused(adminRow[a])), a)
  BY DEF ResetAdminUsage, WithAdmin, Database
<1> QED
  BY <1>1, <1>2, UnusedRow, EditedRow DEF ResetAdminUsage

LEMMA SetServiceLimitStep ==
  ASSUME LimitInv, NEW a \in AdminIds, NEW s \in Services, NEW l \in {0, 1}, SetServiceLimit(a, s, l) PROVE Kept
<1> DEFINE row == [adminRow[a] EXCEPT !.allowed = [adminRow[a].allowed EXCEPT ![s] = l]]
<1>1. adminRow[a] \in AdminRow
  BY DEF LimitInv, LimitTypeOK
<1>2. row \in AdminRow /\ row.status = adminRow[a].status
  BY <1>1 DEF AdminRow
<1>3. WithAdmin(Database, a, row) = [Database EXCEPT !.admin[a].allowed[s] = l]
  BY DatabaseTables, <1>1 DEF WithAdmin, Tables, AdminRow
<1> HIDE DEF row
<1> QED
  BY <1>2, <1>3, EditedRow DEF SetServiceLimit

LEMMA DisableAdminStep ==
  ASSUME LimitInv, NEW a \in AdminIds, DisableAdmin(a) PROVE Kept
<1>0. PICK why \in {"manual", "limit"} : Write(StopAdmin(Database, a, why))
  BY DEF DisableAdmin, Reasons
<1> DEFINE e == StopAdmin(Database, a, why)
<1>1. /\ e \in Tables /\ UserStep(Database, e)
      /\ \A b \in AdminIds \ {a} : e.admin[b] = adminRow[b]
      /\ e.admin[a] = AdminWith(adminRow[a], "disabled", why)
  <2>1. Database \in Tables /\ Database.admin = adminRow
    BY DatabaseTables
  <2>2. /\ e \in Tables /\ UserStep(Database, e)
        /\ \A b \in AdminIds \ {a} : e.admin[b] = Database.admin[b]
        /\ e.admin[a] = AdminWith(Database.admin[a], "disabled", why)
    BY <2>1, StopAdminStep
  <2> QED
    BY <2>1, <2>2
<1>2. Write(e) /\ adminRow[a].status = "active" /\ Request /\ byHand' = byHand
  BY <1>0 DEF DisableAdmin
<1> HIDE DEF e
<1>3. byHand' \subseteq Owners /\ \A u \in byHand' \ byHand : Resting(e.user[u])
  BY <1>2 DEF LimitInv, LimitTypeOK
<1>4. LimitInv' /\ Told
  BY <1>1, <1>2, <1>3, DatabaseTables, RequestTypes, Written
<1>5. NoComeback
  BY <1>1, <1>2 DEF NoComeback, Write
<1> QED
  BY <1>4, <1>5, NobodyBack DEF Kept

LEMMA EnableAdminStep ==
  ASSUME LimitInv, NEW a \in AdminIds, EnableAdmin(a) PROVE Kept
<1> DEFINE d == RestoreAdmin(Database, a)
           e == Reconciled(d, a)
<1>0. Database \in Tables /\ Database.admin = adminRow /\ Database.user = userRow /\ adminRow[a] \in AdminRow
  BY DatabaseTables DEF LimitInv, LimitTypeOK
<1>1. /\ d \in Tables /\ UserStep(Database, d)
      /\ \A b \in AdminIds \ {a} : d.admin[b] = adminRow[b]
      /\ d.admin[a] = AdminWith(adminRow[a], "active", "none")
      /\ Accessible(d, a) \subseteq Accessible(Database, a) \cup Marked(Database, a)
      /\ \A u \in Owners : d.user[u].serviceMark = userRow[u].serviceMark
  BY <1>0, RestoreAdminStep
<1>2. /\ ThenReconcile(d, a) /\ Fits(Database, a, Marked(Database, a))
      /\ Request /\ byHand' = byHand
  BY DEF EnableAdmin
<1> HIDE DEF d
<1>3. Reconciliation(d, e, a) /\ Write(e)
  BY <1>1, <1>2, Reconciles, ReconciledStep
<1> HIDE DEF e
<1>4. e \in Tables /\ UserStep(Database, e) /\ adminRow' = e.admin /\ userRow' = e.user
  BY <1>1, <1>3, UserSteps DEF Reconciliation, Write
<1>5. byHand' \subseteq Owners /\ \A u \in byHand' \ byHand : Resting(e.user[u])
  BY <1>2 DEF LimitInv, LimitTypeOK
<1>6. LimitInv' /\ Told
  BY <1>0, <1>2, <1>3, <1>4, <1>5, RequestTypes, Written
<1>7. Fitting
  <2> SUFFICES ASSUME NEW b \in AdminIds,
                      adminRow[b].status = "disabled", adminRow'[b].status = "active",
                      adminRow'[b].usersLimit > 0, ~adminRow'[b].perService,
                      \A u \in Owned[b] : ~userRow[u].serviceMark
               PROVE  Cardinality({u \in Owned[b] : HasAccess(userRow'[u])}) <= adminRow'[b].usersLimit
    BY DEF Fitting
  <2>1. b = a
    BY <1>1, <1>3, <1>4 DEF Reconciliation
  <2>2. LET t == AdminWith(adminRow[a], "active", "none") IN
        t.status = "active" /\ t.usersLimit = adminRow[a].usersLimit /\ t.perService = adminRow[a].perService
    BY <1>0, AdminWithFields
  <2>3. /\ d.admin[a].status = "active"
        /\ e.admin[a].usersLimit = adminRow[a].usersLimit /\ e.admin[a].perService = adminRow[a].perService
    BY <1>1, <1>3, <2>2 DEF Reconciliation
  <2>4. \A u \in Owned[a] : ~d.user[u].serviceMark
    BY <1>1, <2>1 DEF Owners
  <2>5. Accessible(e, a) \subseteq Accessible(Database, a) \cup Marked(Database, a)
    BY <1>1, <1>3, <2>3, <2>4 DEF Reconciliation
  <2>6. Cardinality(Accessible(e, a)) <= adminRow[a].usersLimit
    BY <1>0, <1>2, <1>4, <2>1, <2>3, <2>5, FitTogether
  <2>7. Accessible(e, a) = {u \in Owned[b] : HasAccess(userRow'[u])}
    BY <1>4, <2>1 DEF Accessible
  <2> QED
    BY <1>4, <2>1, <2>3, <2>6, <2>7
<1> QED
  BY <1>6, <1>7 DEF Kept

(* A change of the users somebody asked for. *)
LEMMA UsersWritten ==
  ASSUME LimitInv, adminRow' \in [AdminIds -> AdminRow], userRow' \in [Owners -> LimitedUser],
         told' \subseteq Owners, byHand' \subseteq Owners, todo' \subseteq AdminIds, requests' \in Nat,
         NoComeback, Told, \A u \in byHand' : Resting(userRow'[u])
  PROVE  Kept
BY NobodyBack DEF Kept, LimitInv, LimitTypeOK

LEMMA WithDatabase ==
  ASSUME LimitInv, NEW S \in SUBSET Owners, NEW rows \in [Owners -> LimitedUser], NEW d,
         d = WithRows(Database, rows, S), Write(d)
  PROVE  adminRow' = adminRow /\ userRow' = rows /\ told' = S
BY DEF Write, WithRows, Database

LEMMA ActedOn ==
  ASSUME LimitInv, NEW S \in SUBSET Owners, NEW rows \in [Owners -> LimitedUser], NEW d,
         d = WithRows(Database, rows, S), Write(d), Request,
         \A u \in Owners \ S : rows[u] = userRow[u],
         byHand' \subseteq Owners, \A u \in byHand' : Resting(rows[u])
  PROVE  Kept
<1>1. adminRow' = adminRow /\ userRow' = rows /\ told' = S
  BY WithDatabase
<1>2. NoComeback /\ Told
  BY <1>1 DEF NoComeback, Told
<1>3. adminRow \in [AdminIds -> AdminRow]
  BY DEF LimitInv, LimitTypeOK
<1> QED
  BY <1>1, <1>2, <1>3, RequestTypes, UsersWritten

LEMMA UserChanges ==
  ASSUME NEW r \in LimitedUser
  PROVE  /\ StoppedByHand(r) \in LimitedUser /\ Gone(r) \in LimitedUser /\ Renewed(r) \in LimitedUser
         /\ ~r.serviceMark => Resting(StoppedByHand(r))
         /\ Resting(Gone(r))
         /\ \A s \in {"active", "disabled"} :
              /\ Asked(r, s) \in LimitedUser /\ Asked(r, s).status = s
              /\ s = "disabled" => Resting(Asked(r, s))
BY DEF LimitedUser, StoppedByHand, Gone, Renewed, Asked, Resting

LEMMA DisableAdminUsersStep ==
  ASSUME LimitInv, NEW a \in AdminIds, DisableAdminUsers(a) PROVE Kept
<1> DEFINE S == Accessible(Database, a)
           rows == [u \in Owners |-> IF u \in S THEN StoppedByHand(userRow[u]) ELSE userRow[u]]
<1>1. S \in SUBSET Owners /\ \A u \in S : HasAccess(userRow[u])
  BY DEF Accessible, Owners, Database
<1>2. /\ Write(With(Database, S, StoppedByHand)) /\ Request
      /\ byHand' = byHand \cup {u \in S : ~userRow[u].serviceMark}
  BY DEF DisableAdminUsers
<1>3. With(Database, S, StoppedByHand) = WithRows(Database, rows, S)
  BY DEF With, WithRows, Database
<1>4. userRow \in [Owners -> LimitedUser] /\ byHand \subseteq Owners /\ \A u \in byHand : Resting(userRow[u])
  BY DEF LimitInv, LimitTypeOK
<1> HIDE DEF S
<1>5. rows \in [Owners -> LimitedUser]
  BY <1>4, UserChanges
<1>6. \A u \in byHand' : Resting(rows[u])
  <2>1. \A u \in byHand : u \notin S
    BY <1>1, <1>4 DEF Resting, HasAccess
  <2> QED
    BY <1>1, <1>2, <1>4, <2>1, UserChanges
<1>7. byHand' \subseteq Owners /\ \A u \in Owners \ S : rows[u] = userRow[u]
  BY <1>1, <1>2, <1>4
<1> HIDE DEF rows
<1> QED
  BY <1>1, <1>2, <1>3, <1>5, <1>6, <1>7, ActedOn

LEMMA ActivateAdminUsersStep ==
  ASSUME LimitInv, NEW a \in AdminIds, ActivateAdminUsers(a) PROVE Kept
<1> DEFINE S == {u \in Owned[a] : userRow[u].status = "disabled"}
           rows == [u \in Owners |-> IF u \in S THEN BackFromAdmin(userRow[u]) ELSE userRow[u]]
<1>1. S \in SUBSET Owners
  BY DEF Owners
<1>2. Write(With(Database, S, BackFromAdmin)) /\ Request /\ byHand' = byHand \ S
  BY DEF ActivateAdminUsers
<1>3. With(Database, S, BackFromAdmin) = WithRows(Database, rows, S)
  BY DEF With, WithRows, Database
<1>4. userRow \in [Owners -> LimitedUser] /\ byHand \subseteq Owners /\ \A u \in byHand : Resting(userRow[u])
  BY DEF LimitInv, LimitTypeOK
<1> HIDE DEF S
<1>5. rows \in [Owners -> LimitedUser]
  BY <1>4, RowChanges
<1>6. byHand' \subseteq Owners /\ \A u \in byHand' : Resting(rows[u])
  BY <1>2, <1>4
<1>7. \A u \in Owners \ S : rows[u] = userRow[u]
  OBVIOUS
<1> HIDE DEF rows
<1> QED
  BY <1>1, <1>2, <1>3, <1>5, <1>6, <1>7, ActedOn

LEMMA DeleteUserRowStep ==
  ASSUME LimitInv, NEW v \in Owners, DeleteUserRow(v) PROVE Kept
<1> DEFINE rows == [u \in Owners |-> IF u \in {v} THEN Gone(userRow[u]) ELSE userRow[u]]
<1>1. Write(With(Database, {v}, Gone)) /\ Request /\ byHand' = byHand
  BY DEF DeleteUserRow
<1>2. With(Database, {v}, Gone) = WithRows(Database, rows, {v})
  BY DEF With, WithRows, Database
<1>3. userRow \in [Owners -> LimitedUser] /\ byHand \subseteq Owners /\ \A u \in byHand : Resting(userRow[u])
  BY DEF LimitInv, LimitTypeOK
<1>4. /\ rows \in [Owners -> LimitedUser] /\ byHand' \subseteq Owners
      /\ \A u \in byHand' : Resting(rows[u])
      /\ \A u \in Owners \ {v} : rows[u] = userRow[u]
  BY <1>1, <1>3, UserChanges
<1> HIDE DEF rows
<1> QED
  BY <1>1, <1>2, <1>4, ActedOn

LEMMA ActivateNextPlanStep ==
  ASSUME LimitInv, NEW v \in Owners, ActivateNextPlan(v) PROVE Kept
<1> DEFINE rows == [u \in Owners |-> IF u \in {v} THEN Renewed(userRow[u]) ELSE userRow[u]]
<1>1. Write(With(Database, {v}, Renewed)) /\ Request /\ byHand' = byHand \ {v}
  BY DEF ActivateNextPlan
<1>2. With(Database, {v}, Renewed) = WithRows(Database, rows, {v})
  BY DEF With, WithRows, Database
<1>3. userRow \in [Owners -> LimitedUser] /\ byHand \subseteq Owners /\ \A u \in byHand : Resting(userRow[u])
  BY DEF LimitInv, LimitTypeOK
<1>4. /\ rows \in [Owners -> LimitedUser] /\ byHand' \subseteq Owners
      /\ \A u \in byHand' : Resting(rows[u])
      /\ \A u \in Owners \ {v} : rows[u] = userRow[u]
  BY <1>1, <1>3, UserChanges
<1> HIDE DEF rows
<1> QED
  BY <1>1, <1>2, <1>4, ActedOn

LEMMA SetUserStatusStep ==
  ASSUME LimitInv, NEW v \in Owners, NEW s \in {"active", "disabled"}, SetUserStatus(v, s) PROVE Kept
<1>1. userRow \in [Owners -> LimitedUser] /\ byHand \subseteq Owners /\ \A u \in byHand : Resting(userRow[u])
  BY DEF LimitInv, LimitTypeOK
<1>2. /\ adminRow' = adminRow /\ userRow' = [userRow EXCEPT ![v] = Asked(userRow[v], s)]
      /\ told' = IF HasAccess(userRow[v]) \/ s = "active" THEN {v} ELSE {}
      /\ byHand' = IF s = "disabled" THEN byHand \cup {v} ELSE byHand \ {v}
      /\ Request
  BY DEF SetUserStatus, Write, Database
<1>3. Asked(userRow[v], s) \in LimitedUser /\ Asked(userRow[v], s).status = s
      /\ (s = "disabled" => Resting(Asked(userRow[v], s)))
  BY <1>1, UserChanges
<1>4. userRow' \in [Owners -> LimitedUser] /\ told' \subseteq Owners /\ byHand' \subseteq Owners
  BY <1>1, <1>2, <1>3
<1>5. \A u \in byHand' : Resting(userRow'[u])
  BY <1>1, <1>2, <1>3
<1>6. Told
  BY <1>1, <1>2, <1>3 DEF Told, HasAccess
<1>7. NoComeback /\ adminRow' \in [AdminIds -> AdminRow]
  BY <1>2 DEF NoComeback, LimitInv, LimitTypeOK
<1> QED
  BY <1>2, <1>4, <1>5, <1>6, <1>7, RequestTypes, UsersWritten

LEMMA DeleteAdminStep ==
  ASSUME LimitInv, NEW a \in AdminIds, DeleteAdmin(a) PROVE Kept
<1> DEFINE rows == [u \in Owners |-> IF u \in Owned[a] THEN Gone(userRow[u]) ELSE userRow[u]]
<1>1. adminRow \in [AdminIds -> AdminRow] /\ userRow \in [Owners -> LimitedUser]
      /\ byHand \subseteq Owners /\ \A u \in byHand : Resting(userRow[u])
  BY DEF LimitInv, LimitTypeOK
<1>2. /\ adminRow' = [adminRow EXCEPT ![a].status = "deleted"]
      /\ userRow' = rows /\ told' = Owned[a]
      /\ byHand' = byHand /\ Request
  BY DEF DeleteAdmin, Write, With, Database
<1>3. /\ rows \in [Owners -> LimitedUser]
      /\ \A u \in byHand : Resting(rows[u])
      /\ \A u \in Owners \ Owned[a] : rows[u] = userRow[u]
  BY <1>1, UserChanges
<1> HIDE DEF rows
<1>4. adminRow' \in [AdminIds -> AdminRow] /\ NoComeback
  BY <1>1, <1>2 DEF AdminRow, NoComeback
<1>5. Told /\ told' \subseteq Owners
  BY <1>2, <1>3 DEF Told, Owners
<1> QED
  BY <1>1, <1>2, <1>3, <1>4, <1>5, RequestTypes, UsersWritten

(* Every admin of a service, in one transaction. *)
LEMMA ResetServiceUsageStep ==
  ASSUME LimitInv, NEW s \in Services, ResetServiceUsage(s) PROVE Kept
<1> DEFINE rows == [a \in AdminIds |-> [adminRow[a] EXCEPT !.served[s] = 0]]
           d == [admin |-> rows, user |-> userRow, ops |-> {}]
           linked == {a \in AdminIds : Present(a)}
           e == AllReconciled(d, linked)
<1>1. adminRow \in [AdminIds -> AdminRow] /\ userRow \in [Owners -> LimitedUser]
  BY DEF LimitInv, LimitTypeOK
<1>2. \A a \in AdminIds : rows[a] \in AdminRow /\ rows[a].status = adminRow[a].status
  BY <1>1 DEF AdminRow
<1>3. rows = [a \in AdminIds |-> [Database.admin[a] EXCEPT !.served[s] = 0]]
  BY DEF Database
<1> HIDE DEF rows
<1>4. /\ \A a \in linked : ~Unrestorable(d, a)
      /\ Write(e) /\ Request /\ byHand' = byHand
  <2>1. d = [Database EXCEPT !.admin = rows]
    BY DEF Database
  <2> HIDE DEF d
  <2> QED
    BY <1>3, <2>1 DEF ResetServiceUsage
<1>5. rows \in [AdminIds -> AdminRow]
  BY <1>2 DEF rows
<1>6. /\ d \in Tables /\ d.admin = rows /\ d.user = userRow /\ d.ops = {}
      /\ \A a \in AdminIds : d.admin[a].status = adminRow[a].status
  BY <1>1, <1>2, <1>5 DEF Tables
<1> HIDE DEF d
<1>7. /\ e \in Tables /\ UserStep(d, e)
      /\ \A a \in AdminIds \ linked : e.admin[a] = d.admin[a]
      /\ \A a \in linked : /\ e.admin[a] = Reconciled(d, a).admin[a]
                           /\ \A u \in Owned[a] : e.user[u] = Reconciled(d, a).user[u]
  BY <1>4, <1>6, AllReconciledStep
<1> HIDE DEF e
<1>8. adminRow' = e.admin /\ userRow' = e.user
  BY <1>4 DEF Write
<1>9. byHand' \subseteq Owners /\ \A u \in byHand' \ byHand : Resting(e.user[u])
  BY <1>4 DEF LimitInv, LimitTypeOK
<1>10. LimitInv' /\ Told
  BY <1>4, <1>6, <1>7, <1>9, RequestTypes, Written
<1>11. Fitting
  <2> SUFFICES ASSUME NEW b \in AdminIds,
                      adminRow[b].status = "disabled", adminRow'[b].status = "active",
                      adminRow'[b].usersLimit > 0, ~adminRow'[b].perService,
                      \A u \in Owned[b] : ~userRow[u].serviceMark
               PROVE  Cardinality({u \in Owned[b] : HasAccess(userRow'[u])}) <= adminRow'[b].usersLimit
    BY DEF Fitting
  <2>1. b \in linked
    BY <1>6, <1>7, <1>8
  <2>2. Reconciliation(d, Reconciled(d, b), b)
    BY <1>4, <1>6, <2>1, ReconciledStep
  <2>3. Accessible(Reconciled(d, b), b) = {u \in Owned[b] : HasAccess(userRow'[u])}
    BY <1>7, <1>8, <2>1 DEF Accessible
  <2>4. adminRow'[b] = Reconciled(d, b).admin[b]
    BY <1>7, <1>8, <2>1
  <2> QED
    BY <1>6, <2>2, <2>3, <2>4 DEF Reconciliation
<1> QED
  BY <1>10, <1>11 DEF Kept

LEMMA CommandStep ==
  ASSUME LimitInv, NEW a \in AdminIds,
         CliDelete(a) \/ CliResetUsage(a) \/ \E s \in {"active", "disabled"} : CliSetStatus(a, s)
  PROVE  Kept
<1>1. adminRow \in [AdminIds -> AdminRow]
  BY DEF LimitInv, LimitTypeOK
<1>2. Command(a)
  BY DEF CliDelete, CliResetUsage, CliSetStatus
<1>3. CASE CliDelete(a)
  <2>1. adminRow' \in [AdminIds -> AdminRow]
    BY <1>1, <1>3 DEF CliDelete, AdminRow
  <2> QED
    BY <1>2, <2>1, AdminsOnly, RequestTypes DEF Command
<1>4. CASE CliResetUsage(a)
  <2>1. adminRow' \in [AdminIds -> AdminRow]
    BY <1>1, <1>4, UnusedRow DEF CliResetUsage
  <2> QED
    BY <1>2, <2>1, AdminsOnly, RequestTypes DEF Command
<1>5. ASSUME NEW s \in {"active", "disabled"}, CliSetStatus(a, s) PROVE Kept
  <2>1. adminRow' \in [AdminIds -> AdminRow]
    <3>1. PICK why \in {"none", "manual", "limit"} : adminRow' = [adminRow EXCEPT ![a].status = s, ![a].reason = why]
      BY <1>1, <1>5 DEF CliSetStatus, Reasons
    <3>2. adminRow' = [adminRow EXCEPT ![a] = AdminWith(adminRow[a], s, why)]
      BY <1>1, <3>1 DEF AdminWith
    <3>3. AdminWith(adminRow[a], s, why) \in AdminRow
      BY <1>1, AdminWithFields
    <3> QED
      BY <1>1, <3>2, <3>3
  <2> QED
    BY <1>2, <2>1, AdminsOnly, RequestTypes DEF Command
<1> QED
  BY <1>3, <1>4, <1>5

LEMMA UseTrafficStep ==
  ASSUME LimitInv, NEW a \in AdminIds, NEW u \in Owned[a], UseTraffic(a, u) PROVE Kept
<1>1. /\ adminRow \in [AdminIds -> AdminRow] /\ userRow \in [Owners -> LimitedUser]
      /\ byHand \subseteq Owners /\ \A v \in byHand : Resting(userRow[v])
      /\ todo \subseteq AdminIds /\ requests \in Nat
  BY DEF LimitInv, LimitTypeOK
<1>2. u \in Owners /\ InService[u] \in Services
  BY LimitAssumption DEF Owners
<1> DEFINE row == [adminRow[a] EXCEPT !.used = adminRow[a].used + 1,
                                      !.served = [adminRow[a].served EXCEPT ![InService[u]] = @ + 1]]
           user == [userRow[u] EXCEPT !.status = "active", !.hold = FALSE]
<1>3. row \in AdminRow /\ row.status = adminRow[a].status
  <2>1. adminRow[a] \in AdminRow
    BY <1>1
  <2>2. adminRow[a].used \in Nat /\ adminRow[a].served \in [Services -> Nat]
    BY <2>1 DEF AdminRow
  <2>3. /\ adminRow[a].used + 1 \in Nat
        /\ [adminRow[a].served EXCEPT ![InService[u]] = @ + 1] \in [Services -> Nat]
    BY <1>2, <2>2
  <2> QED
    BY <2>1, <2>3 DEF AdminRow
<1>4. user \in LimitedUser /\ HasAccess(user)
  BY <1>1, <1>2 DEF LimitedUser, HasAccess
<1>5. adminRow' = [adminRow EXCEPT ![a] = row]
  BY <1>1 DEF UseTraffic, AdminRow
<1>6. /\ userRow' = [userRow EXCEPT ![u] = user] /\ HasAccess(userRow[u])
      /\ told' \in {{u}, {}} /\ todo' = todo /\ byHand' = byHand /\ requests' = requests
  BY <1>1 DEF UseTraffic
<1> HIDE DEF row, user
<1>7. adminRow' \in [AdminIds -> AdminRow] /\ userRow' \in [Owners -> LimitedUser] /\ told' \subseteq Owners
  BY <1>1, <1>2, <1>3, <1>4, <1>5, <1>6
<1>8. NoComeback /\ Told
  BY <1>1, <1>2, <1>3, <1>4, <1>5, <1>6 DEF NoComeback, Told
<1>9. \A v \in byHand' : Resting(userRow'[v])
  BY <1>1, <1>2, <1>6 DEF Resting, HasAccess
<1> QED
  BY <1>1, <1>6, <1>7, <1>8, <1>9, UsersWritten

LEMMA ExpireStep ==
  ASSUME LimitInv, NEW a \in AdminIds, Expire(a) PROVE Kept
<1>1. adminRow' \in [AdminIds -> AdminRow]
  BY DEF LimitInv, LimitTypeOK, Expire, AdminRow
<1> QED
  BY <1>1, AdminsOnly, RequestTypes DEF Expire
-----------------------------------------------------------------------------
(* The review. *)
LEMMA NextOne ==
  ASSUME NEW S \in SUBSET AdminIds, S # {} PROVE Next1(S) \in S
<1>1. S \subseteq Nat
  BY LimitAssumption
<1>2. \E a \in S : \A b \in S : ~(<<b, a>> \in OpToRel(<, Nat))
  BY <1>1, NatLessThanWellFounded, WFMin
<1>3. \A a, b \in Nat : b < a => <<b, a>> \in OpToRel(<, Nat)
  BY DEF OpToRel
<1>4. \E a \in S : \A b \in S : ~(b < a)
  BY <1>1, <1>2, <1>3
<1>5. \E a \in S : \A b \in S : a <= b
  BY <1>1, <1>4
<1> QED
  BY <1>5 DEF Next1

LEMMA ReviewAdminsStep ==
  ASSUME LimitInv, ReviewAdmins PROVE Kept
BY AdminsOnly DEF ReviewAdmins, LimitInv, LimitTypeOK

LEMMA ReviewOneStep ==
  ASSUME LimitInv, ReviewOne PROVE Kept
<1> DEFINE a == Next1(todo)
<1>1. a \in AdminIds /\ todo \subseteq AdminIds /\ requests \in Nat /\ adminRow \in [AdminIds -> AdminRow]
  BY NextOne DEF ReviewOne, LimitInv, LimitTypeOK
<1>2. byHand' = byHand /\ requests' = requests
  BY DEF ReviewOne
<1> HIDE DEF a
<1>3. CASE todo' = todo \ {a} /\ Present(a) /\ ThenReconcile(Database, a)
  BY <1>1, <1>2, <1>3, DatabaseTables, EditedStep
<1>4. CASE todo' = {} /\ Write(Database)
  <2>1. adminRow' = adminRow /\ userRow' = userRow /\ told' = {}
    BY <1>4 DEF Write, Database
  <2> QED
    BY <1>1, <1>2, <1>4, <2>1, AdminsOnly
<1> QED
  BY <1>3, <1>4 DEF ReviewOne, a
-----------------------------------------------------------------------------
LEMMA LimitInitially == LimitInit => LimitInv
BY LimitAssumption DEF LimitInit, LimitInv, LimitTypeOK

LEMMA LimitStep ==
  ASSUME LimitInv, LimitNext PROVE Kept
<1>1. ASSUME NEW a \in AdminIds,
             \/ DisableAdmin(a) \/ EnableAdmin(a) \/ DeleteAdmin(a) \/ ResetAdminUsage(a)
             \/ DisableAdminUsers(a) \/ ActivateAdminUsers(a) \/ Expire(a)
      PROVE  Kept
  BY <1>1, DisableAdminStep, EnableAdminStep, DeleteAdminStep, ResetAdminUsageStep,
     DisableAdminUsersStep, ActivateAdminUsersStep, ExpireStep
<1>2. ASSUME NEW a \in AdminIds, \E e \in AdminEdits : UpdateAdmin(a, e) PROVE Kept
  BY <1>2, UpdateAdminStep
<1>3. ASSUME NEW a \in AdminIds, \E s \in Services, l \in {0, 1} : SetServiceLimit(a, s, l) PROVE Kept
  BY <1>3, SetServiceLimitStep
<1>4. ASSUME NEW a \in AdminIds,
             CliDelete(a) \/ CliResetUsage(a) \/ \E s \in {"active", "disabled"} : CliSetStatus(a, s)
      PROVE  Kept
  BY <1>4, CommandStep
<1>5. ASSUME NEW a \in AdminIds, \E u \in Owned[a] : UseTraffic(a, u) PROVE Kept
  BY <1>5, UseTrafficStep
<1>6. ASSUME \E s \in Services : ResetServiceUsage(s) PROVE Kept
  BY <1>6, ResetServiceUsageStep
<1>7. ASSUME NEW u \in Owners,
             DeleteUserRow(u) \/ ActivateNextPlan(u) \/ \E s \in {"active", "disabled"} : SetUserStatus(u, s)
      PROVE  Kept
  BY <1>7, DeleteUserRowStep, ActivateNextPlanStep, SetUserStatusStep
<1>8. CASE ReviewAdmins \/ ReviewOne
  BY <1>8, ReviewAdminsStep, ReviewOneStep
<1> QED
  BY <1>1, <1>2, <1>3, <1>4, <1>5, <1>6, <1>7, <1>8 DEF LimitNext

LEMMA LimitStutters ==
  ASSUME LimitInv, UNCHANGED limitVars PROVE LimitInv'
BY DEF LimitInv, LimitTypeOK, limitVars

LEMMA LimitInvariant == LimitSpec => []LimitInv
<1>1. LimitInv /\ [LimitNext]_limitVars => LimitInv'
  BY LimitStep, LimitStutters DEF Kept
<1> QED
  BY <1>1, LimitInitially, PTL DEF LimitSpec

(* The rows of admins and users keep their types whatever the requests, the *)
(* commands, the traffic and the review do.                                 *)
THEOREM LimitsTyped == LimitSpec => []LimitTypeOK
BY LimitInvariant, PTL DEF LimitInv

(* For any admins, users, services and edits, no reconciliation, reset,     *)
(* activation of an admin or pass of the review gives access to a user an   *)
(* administrator disabled and left no mark on.                              *)
THEOREM HandStaysEver == LimitSpec => []HandStays
<1>1. LimitInv => HandStays
  BY DEF LimitInv, HandStays, Resting, HasAccess
<1> QED
  BY <1>1, LimitInvariant, PTL

(* The transaction that gives or takes access queues the operation.         *)
THEOREM LimitsToldEver == LimitSpec => LimitsTold
<1>1. LimitInv /\ [LimitNext]_limitVars =>
        [\A u \in Owners : HasAccess(userRow[u]) # HasAccess(userRow'[u]) => u \in told']_limitVars
  BY LimitStep DEF Kept, Told
<1> QED
  BY <1>1, LimitInvariant, PTL DEF LimitSpec, LimitsTold

(* No admin comes back to more users than his limit while no service brings *)
(* some of them back, whichever request, command or review restores him.    *)
THEOREM RestoreFitsEver == LimitSpec => RestoreFits
<1>1. LimitInv /\ [LimitNext]_limitVars =>
        [\A a \in AdminIds :
           (/\ adminRow[a].status = "disabled" /\ adminRow'[a].status = "active"
            /\ adminRow'[a].usersLimit > 0 /\ ~adminRow'[a].perService
            /\ userRow' # userRow
            /\ \A u \in Owned[a] : ~userRow[u].serviceMark)
           => Cardinality({u \in Owned[a] : HasAccess(userRow'[u])}) <= adminRow'[a].usersLimit]_limitVars
  BY LimitStep DEF Kept, Fitting
<1> QED
  BY <1>1, LimitInvariant, PTL DEF LimitSpec, RestoreFits
=============================================================================
