----------------------------- MODULE HostCommands -----------------------------
(***************************************************************************)
(* Durable host commands of one node (nodecontroller/host_actions.go):     *)
(* restart, reboot, updates, proxies.  The handler writes a row of         *)
(* node_operations, claims it and calls the node itself; the queue worker  *)
(* takes the rows that are left, in their order.  Both write their result  *)
(* by the row's id alone.                                                  *)
(***************************************************************************)
EXTENDS Naturals, FiniteSets

CONSTANTS
  Commands,       \* row ids, in the order of the requests
  MaxHostFaults   \* bound: refused calls, lost answers, failed writes, restarts, lost connections

ASSUME HostCommandsAssumption == Commands \subseteq Nat \ {0} /\ IsFiniteSet(Commands) /\ MaxHostFaults \in Nat

VARIABLES
  command,     \* status of each row
  untouched,   \* rows whose updated_at is long past: 2 minutes if running, 15 s if retrying
  handler,     \* what each command's handler does
  pass,        \* what the queue worker does, see NoPass
  nodeStatus,  \* nodes.status
  ran,         \* ghost: how often the node has run the command
  excused,     \* ghost: answers of the command that were lost, and recoveries of its row
  hostFaults

hostVars == <<command, untouched, handler, pass, nodeStatus, ran, excused, hostFaults>>

OpenRow == {"pending", "retrying", "running"}
NoPass == [left |-> {}, row |-> 0, step |-> "none"]
Steps == {"none", "queued", "calling", "ok", "failed", "permanent", "ended"}

HostInit ==
  /\ command = [c \in Commands |-> "none"] /\ untouched = {}
  /\ handler = [c \in Commands |-> "none"] /\ pass = NoPass /\ nodeStatus = "connected"
  /\ ran = [c \in Commands |-> 0] /\ excused = [c \in Commands |-> 0] /\ hostFaults = 0

HostFault == hostFaults < MaxHostFaults /\ hostFaults' = hostFaults + 1
SetRow(c, to) == command' = [command EXCEPT ![c] = to] /\ untouched' = untouched \ {c}
RowKept == UNCHANGED <<command, untouched>>
NodeKept == UNCHANGED <<nodeStatus, ran, excused>>
Stepped(c, step) == handler' = [handler EXCEPT ![c] = step] /\ UNCHANGED pass

(* QueueCommand.                                                            *)
QueueCommand(c) ==
  /\ handler[c] = "none" /\ nodeStatus # "deleted" /\ \A d \in Commands : d < c => handler[d] # "none"
  /\ SetRow(c, "pending") /\ Stepped(c, "queued")
  /\ NodeKept /\ UNCHANGED hostFaults

(* MarkOperationRunning; a handler that finds the row taken, or the node    *)
(* not connected, marks it failed whatever the queue is doing with it.      *)
ClaimableOpen(c) == command[c] \in OpenRow /\ nodeStatus = "connected"
Claimable(c) == command[c] \in {"pending", "retrying"} /\ nodeStatus = "connected"
Claim(c) ==
  /\ handler[c] = "queued"
  /\ \/ Claimable(c) /\ SetRow(c, "running") /\ Stepped(c, "calling")
     \/ ~Claimable(c) /\ SetRow(c, "failed") /\ Stepped(c, "ended")
  /\ NodeKept /\ UNCHANGED hostFaults

(* External: the node runs the command or not, and its answer arrives or    *)
(* not.  A call that fails, unless it is a proxy's, records the error; some *)
(* that succeed record the node as connected.                               *)
NodeRuns(c) == ran' = [ran EXCEPT ![c] = @ + 1]
Noted(status) == nodeStatus' \in IF nodeStatus = "deleted" THEN {"deleted"} ELSE {nodeStatus, status}
Call(c, outcome) ==
  \/ outcome = "ok" /\ NodeRuns(c) /\ Noted("connected") /\ UNCHANGED <<excused, hostFaults>>
  \/ /\ outcome = "failed" /\ HostFault /\ Noted("error")
     /\ \/ NodeRuns(c) /\ excused' = [excused EXCEPT ![c] = @ + 1]
        \/ UNCHANGED <<ran, excused>>
  \/ outcome = "permanent" /\ Noted("error") /\ UNCHANGED <<ran, excused, hostFaults>>

Result(outcome) == CASE outcome = "ok" -> "done" [] outcome = "failed" -> "retrying" [] OTHER -> "failed"

HandlerCalls(c) ==
  /\ handler[c] = "calling"
  /\ \E outcome \in {"ok", "failed", "permanent"} : Call(c, outcome) /\ Stepped(c, outcome)
  /\ RowKept
HandlerRecords(c) ==
  /\ handler[c] \in {"ok", "failed", "permanent"}
  /\ SetRow(c, Result(handler[c])) /\ Stepped(c, "ended")
  /\ NodeKept /\ UNCHANGED hostFaults

(* ProcessQueue: RecoverStaleOperations, then the rows of the node while it *)
(* is connected.                                                            *)
Stale(c) == command[c] = "running" /\ c \in untouched /\ nodeStatus # "deleted"
WaitsPending(c) == command[c] = "pending"
Waits(c) == command[c] = "pending" \/ (command[c] = "retrying" /\ c \in untouched)
ProcessQueue ==
  /\ pass = NoPass
  /\ command' = [c \in Commands |-> IF Stale(c) THEN "retrying" ELSE command[c]]
  /\ untouched' = {c \in untouched : ~Stale(c)}
  /\ excused' = [c \in Commands |-> IF Stale(c) THEN excused[c] + 1 ELSE excused[c]]
  /\ pass' = [NoPass EXCEPT !.left = {c \in Commands : Waits(c) /\ nodeStatus = "connected"}]
  /\ UNCHANGED <<handler, nodeStatus, ran, hostFaults>>

Oldest(c) == c \in pass.left /\ \A d \in pass.left : c <= d
QueueClaims(c) ==
  /\ pass.row = 0 /\ Oldest(c)
  /\ \/ Claimable(c) /\ SetRow(c, "running") /\ pass' = [left |-> pass.left \ {c}, row |-> c, step |-> "calling"]
     \/ ~Claimable(c) /\ RowKept /\ pass' = [pass EXCEPT !.left = @ \ {c}]
  /\ NodeKept /\ UNCHANGED <<handler, hostFaults>>
QueueCalls(c) ==
  /\ pass.row = c /\ pass.step = "calling"
  /\ \E outcome \in {"ok", "failed", "permanent"} : Call(c, outcome) /\ pass' = [pass EXCEPT !.step = outcome]
  /\ RowKept /\ UNCHANGED handler
(* A command to be retried blocks the node for the rest of the pass.        *)
QueueRecords(c) ==
  /\ pass.row = c /\ pass.step # "calling"
  /\ SetRow(c, Result(pass.step))
  /\ pass' = IF pass.step = "failed" THEN NoPass ELSE [NoPass EXCEPT !.left = pass.left]
  /\ NodeKept /\ UNCHANGED <<handler, hostFaults>>

(* Two minutes of a call and fifteen seconds of a retry pass.               *)
GrowsOld(c) ==
  /\ command[c] \in {"running", "retrying"} /\ c \notin untouched
  /\ untouched' = untouched \cup {c}
  /\ UNCHANGED <<command, handler, pass, nodeStatus, ran, excused, hostFaults>>

Reconnect ==
  /\ nodeStatus = "error" /\ nodeStatus' = "connected"
  /\ UNCHANGED <<command, untouched, handler, pass, ran, excused, hostFaults>>
Disconnect ==
  /\ nodeStatus = "connected" /\ nodeStatus' = "error" /\ HostFault
  /\ UNCHANGED <<command, untouched, handler, pass, ran, excused>>
DeleteNode ==
  /\ nodeStatus # "deleted" /\ nodeStatus' = "deleted"
  /\ command' = [c \in Commands |-> IF command[c] \in OpenRow THEN "failed" ELSE command[c]]
  /\ untouched' = {}
  /\ UNCHANGED <<handler, pass, ran, excused, hostFaults>>

(* A write or a claim that fails, and the end of the panel: the row stays   *)
(* as it is and whoever held it goes on to nothing.                         *)
HandlerLosesRow(c) ==
  /\ handler[c] \notin {"none", "ended"} /\ HostFault /\ Stepped(c, "ended") /\ RowKept /\ NodeKept
QueueLosesRow ==
  /\ pass.row # 0 /\ HostFault /\ pass' = NoPass /\ RowKept /\ NodeKept /\ UNCHANGED handler
PanelRestarts ==
  /\ HostFault /\ pass' = NoPass
  /\ handler' = [c \in Commands |-> IF handler[c] = "none" THEN "none" ELSE "ended"]
  /\ RowKept /\ NodeKept

HandlerStep(c) == Claim(c) \/ HandlerCalls(c) \/ HandlerRecords(c)
QueueStep(c) == QueueClaims(c) \/ QueueCalls(c) \/ QueueRecords(c)
HostNext ==
  \/ \E c \in Commands : QueueCommand(c) \/ HandlerStep(c) \/ QueueStep(c) \/ GrowsOld(c) \/ HandlerLosesRow(c)
  \/ ProcessQueue \/ Reconnect \/ Disconnect \/ DeleteNode \/ QueueLosesRow \/ PanelRestarts

(* Handlers and the worker run on, calls end at their deadline, the         *)
(* recovery worker reconnects the node.                                     *)
HostFairness ==
  /\ WF_hostVars(ProcessQueue) /\ WF_hostVars(Reconnect)
  /\ \A c \in Commands : WF_hostVars(HandlerStep(c)) /\ WF_hostVars(QueueStep(c)) /\ WF_hostVars(GrowsOld(c))

HostSpec == HostInit /\ [][HostNext]_hostVars /\ HostFairness

-----------------------------------------------------------------------------
HostTypeOK ==
  /\ command \in [Commands -> OpenRow \cup {"none", "done", "failed"}] /\ untouched \subseteq Commands
  /\ handler \in [Commands -> Steps]
  /\ pass \in [left : SUBSET Commands, row : Commands \cup {0}, step : Steps]
  /\ nodeStatus \in {"connected", "error", "deleted"}
  /\ ran \in [Commands -> Nat] /\ excused \in [Commands -> Nat] /\ hostFaults \in Nat

(* A reboot or an update is repeated only for a reason: an answer that was  *)
(* lost, or a row left running for two minutes, each of which repeats it    *)
(* once.  The handler and the queue never both run one claim.               *)
RepeatedForCause == \A c \in Commands : ran[c] <= 1 + excused[c]

(* A command is closed in the end, whoever lost it on the way.              *)
StaysOpen(c) == command[c] \in OpenRow /\ nodeStatus # "deleted"
CommandCloses == \A c \in Commands : []<>~StaysOpen(c)
=============================================================================
