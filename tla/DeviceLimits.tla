---------------------------- MODULE DeviceLimits ----------------------------
(***************************************************************************)
(* The limit on the devices of one user.  VPN sessions are admitted one by *)
(* one when their nodes report them (api/node_session_events.go), events   *)
(* of one session arriving in any order or not at all; Xray clients are    *)
(* seen only afterwards, by their address, and a node is then told to      *)
(* block the addresses in excess (nodecontroller/ip_limiter.go).           *)
(***************************************************************************)
EXTENDS Integers, FiniteSets, SequencesExt

CONSTANTS
  Sessions,      \* (node_id, session_id)
  WireGuard,     \* sessions of protocol wg
  OpenVPN,       \* sessions of protocol ov, of one node and inbound
  Assigned,      \* assigned_ip of each session
  Clients,       \* addresses of clients
  Limit,         \* users.ip_limit, above 0
  MaxReports,    \* bound: node callbacks handled at the same time
  Window,        \* online.ActiveWindow
  SilentAfter    \* wireGuardSessionStaleAfter

Unknown == "unknown"    \* client_ip NULL
Tunnels == {Assigned[s] : s \in Sessions}

ASSUME DeviceLimitsAssumption ==
  /\ IsFiniteSet(Sessions) /\ WireGuard \subseteq Sessions /\ OpenVPN \subseteq Sessions
  /\ IsFiniteSet(Clients) /\ Clients \cap Tunnels = {} /\ Unknown \notin Clients \cup Tunnels
  /\ {Limit, MaxReports, Window, SilentAfter} \subseteq Nat /\ Limit > 0

VARIABLES
  sighted,    \* user_online_ips of one node: the age of each address, OutOfWindow when old or missing
  vpn,        \* vpn_user_sessions: open, client_ip and, of a wg session, the age of last_seen_at
  reports,    \* callbacks in their transaction, with what they will write
  blocked     \* the addresses of the last ApplyIPBlocks of that node

deviceVars == <<sighted, vpn, reports, blocked>>

OutOfWindow == Window + 1
NoSession == [open |-> FALSE, client |-> Unknown, silent |-> 0]

DeviceInit ==
  /\ sighted = [a \in Clients \cup Tunnels |-> OutOfWindow]
  /\ vpn = [s \in Sessions |-> NoSession]
  /\ reports = {} /\ blocked = {}

OpenSessions == {s \in Sessions : vpn[s].open}
(* globalSessionDeviceKey and limiterDeviceKey.                             *)
DeviceKey(s, client) == IF client = Unknown THEN Assigned[s] ELSE client
Device(s) == DeviceKey(s, vpn[s].client)

(* applyNodeSessionEvent, one transaction under sessionAdmissionMu: silent  *)
(* WireGuard sessions end, an OpenVPN session ends those at its address,    *)
(* and the others of the user are counted.  An event "seen" is handled as   *)
(* "start" is; a refusal changes nothing.  Every session here has an        *)
(* assigned address: an event with no address at all is refused while there *)
(* is a limit, and an open session with none ends before the count, so      *)
(* neither is ever a device.                                                *)
AdmissionShared == Cardinality(reports) < MaxReports
AdmissionMutex == reports = {}
Silent == {s \in OpenSessions \cap WireGuard : vpn[s].silent > SilentAfter}
Replaced(s) == IF s \in OpenVPN THEN {t \in OpenSessions \cap OpenVPN : Assigned[t] = Assigned[s] /\ t # s} ELSE {}
SessionAdmissionAllowed(s, client, ended) ==
  LET devices == {Device(t) : t \in OpenSessions \ (ended \cup {s})}
  IN  DeviceKey(s, client) \in devices \/ Cardinality(devices) < Limit
BeginStart(s, client) ==
  /\ AdmissionMutex
  /\ \E ended \in {Silent \cup Replaced(s)} :
       /\ SessionAdmissionAllowed(s, client, ended)
       /\ reports' = reports \cup {[ends |-> ended \ {s}, opens |-> {s}, client |-> client]}
  /\ UNCHANGED <<sighted, vpn, blocked>>
BeginStop(s) ==
  /\ AdmissionMutex
  /\ reports' = reports \cup {[ends |-> Silent \cup {s}, opens |-> {}, client |-> Unknown]}
  /\ UNCHANGED <<sighted, vpn, blocked>>
CommitReport(r) ==
  /\ vpn' = [s \in Sessions |->
       IF s \in r.opens THEN [open |-> TRUE, client |-> r.client, silent |-> 0]
       ELSE IF s \in r.ends THEN NoSession ELSE vpn[s]]
  /\ reports' = reports \ {r}
  /\ UNCHANGED <<sighted, blocked>>
AbortReport(r) == reports' = reports \ {r} /\ UNCHANGED <<sighted, vpn, blocked>>

(* StoreNodeOnlineIPs: the addresses of one collection, observed now or,    *)
(* after retries of the write, before; the newest time stays.               *)
StoreNodeOnlineIPs(addresses, age) ==
  /\ sighted' = [a \in DOMAIN sighted |-> IF a \in addresses /\ age < sighted[a] THEN age ELSE sighted[a]]
  /\ UNCHANGED <<vpn, reports, blocked>>

(* xrayIPBlocksForLimiterEndpoints: VPN devices come first, then the Xray   *)
(* ones by the time they were last seen, equal times in any order.  The     *)
(* sessions of a user count where he is seen with Xray.                     *)
Fresh == {a \in DOMAIN sighted : sighted[a] # OutOfWindow}
Counted == IF Fresh = {} THEN {} ELSE OpenSessions
XrayDevicesByTime == Fresh \ {Assigned[s] : s \in Counted}
XrayDevices == (Fresh \ {Assigned[s] : s \in Counted}) \ {vpn[s].client : s \in Counted}
Orders(devices) == {o \in SetToSeqs(devices) : \A i, j \in DOMAIN o : i < j => sighted[o[i]] >= sighted[o[j]]}
IPBlocks(order) ==
  LET devices == Cardinality({Device(s) : s \in Counted})
  IN  {order[i] : i \in {j \in DOMAIN order : devices + j > Limit}}
ApplyIPBlocks ==
  /\ \E order \in Orders(XrayDevices) : blocked' = IPBlocks(order)
  /\ UNCHANGED <<sighted, vpn, reports>>

Older(age, oldest) == IF age < oldest THEN age + 1 ELSE oldest
TimePasses ==
  /\ sighted' = [a \in DOMAIN sighted |-> Older(sighted[a], OutOfWindow)]
  /\ vpn' = [s \in Sessions |-> IF s \in WireGuard /\ vpn[s].open THEN [vpn[s] EXCEPT !.silent = Older(@, SilentAfter + 1)] ELSE vpn[s]]
  /\ UNCHANGED <<reports, blocked>>

DeviceNext ==
  \/ \E r \in reports : CommitReport(r) \/ AbortReport(r)
  \/ \E s \in Sessions : BeginStop(s) \/ \E client \in Clients \cup {Unknown} : BeginStart(s, client)
  \/ \E addresses \in SUBSET DOMAIN sighted, age \in 0..Window : StoreNodeOnlineIPs(addresses, age)
  \/ ApplyIPBlocks \/ TimePasses

DeviceSpec == DeviceInit /\ [][DeviceNext]_deviceVars

-----------------------------------------------------------------------------
(* However the events of the sessions are ordered, repeated or lost, no     *)
(* more than ip_limit devices hold a session at a time.                     *)
DevicesWithinLimit == Cardinality({Device(s) : s \in OpenSessions}) <= Limit

(* The blocks sent to a node cut the user to the limit and no further: what *)
(* is left of his devices reaches the limit if he had so many, exceeds it   *)
(* by no Xray device, and no block falls on an address a session of his     *)
(* uses or hands out.                                                       *)
Left(blocks) == {Device(s) : s \in OpenSessions} \cup (Fresh \ ({Assigned[s] : s \in OpenSessions} \cup blocks))
AllowanceKept ==
  [][blocked' # blocked =>
       /\ \A s \in OpenSessions : {vpn[s].client, Assigned[s]} \cap blocked' = {}
       /\ Cardinality(Left(blocked')) <= Limit \/ Left(blocked') = {Device(s) : s \in OpenSessions}
       /\ blocked' # {} => Cardinality(Left(blocked')) >= Limit]_deviceVars
=============================================================================
