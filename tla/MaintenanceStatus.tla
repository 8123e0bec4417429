--------------------------- MODULE MaintenanceStatus ---------------------------
(***************************************************************************)
(* The maintenance operations of the panel (internal/app/system): an       *)
(* update, restart or reload runs the command line as a process of its     *)
(* own, two pipes of which are read while a third goroutine waits for its  *)
(* end.  The store keeps the newest operation and pushes every snapshot to *)
(* the watchers, each of which has a channel of one element.               *)
(*                                                                         *)
(* Nothing stops an operation from starting while another one runs.        *)
(***************************************************************************)
EXTENDS Naturals, FiniteSets

CONSTANTS
  Upkeep,     \* operations, in the order they start
  Followed,   \* those with progress (update); restart and soft-reload are handed to systemd
  Watchers,   \* WebSocket subscribers
  MaxOutput   \* bound: lines a command writes

ASSUME MaintenanceAssumption ==
  /\ Upkeep \subseteq Nat \ {0} /\ IsFiniteSet(Upkeep) /\ Followed \subseteq Upkeep
  /\ MaxOutput \in Nat

VARIABLES
  latest,      \* the store's snapshot: its operation, the operations that wrote into it, running
  edition,     \* ghost: number of snapshots so far
  publishing,  \* publishLocked: the watchers it has yet to serve, and the one just drained
  channel,     \* the element of each watcher's channel, an edition or 0
  shown,       \* ghost: the newest edition each watcher has taken
  watching,    \* subscribers
  process      \* of each operation: none, runs, exited, told; lines its readers have yet to hand on

storeVars == <<latest, edition, publishing, channel, shown, watching>>
maintenanceVars == <<latest, edition, publishing, channel, shown, watching, process>>

Unlocked == [left |-> {}, drained |-> {}]
Nothing == [id |-> 0, writers |-> {}, running |-> FALSE]

MaintenanceInit ==
  /\ latest = Nothing /\ edition = 0 /\ publishing = Unlocked
  /\ channel = [w \in Watchers |-> 0] /\ shown = [w \in Watchers |-> 0] /\ watching = {}
  /\ process = [o \in Upkeep |-> [state |-> "none", lines |-> 0]]

(* A method of the store holds its mutex until every watcher is served.     *)
Locked == publishing # Unlocked
Publish(snapshot) ==
  /\ ~Locked
  /\ latest' = snapshot /\ edition' = edition + 1
  /\ publishing' = [Unlocked EXCEPT !.left = watching]
  /\ UNCHANGED <<channel, shown, watching>>

Drained(w) == [channel EXCEPT ![w] = 0]
DrainNothing(w) ==
  /\ w \in publishing.left /\ publishing.drained = {}
  /\ publishing' = [left |-> publishing.left \ {w}, drained |-> {w}]
  /\ UNCHANGED <<latest, edition, channel, shown, watching, process>>
DrainChannel(w) ==
  /\ w \in publishing.left /\ publishing.drained = {}
  /\ channel' = Drained(w)
  /\ publishing' = [left |-> publishing.left \ {w}, drained |-> {w}]
  /\ UNCHANGED <<latest, edition, shown, watching, process>>
SendSnapshot(w) ==
  /\ w \in publishing.drained
  /\ channel' = IF channel[w] = 0 THEN [channel EXCEPT ![w] = edition] ELSE channel
  /\ publishing' = [publishing EXCEPT !.drained = {}]
  /\ UNCHANGED <<latest, edition, shown, watching, process>>

Subscribe(w) ==
  /\ ~Locked /\ w \notin watching /\ shown[w] = 0
  /\ watching' = watching \cup {w} /\ channel' = [channel EXCEPT ![w] = edition]
  /\ UNCHANGED <<latest, edition, publishing, shown, process>>
Unsubscribe(w) ==
  /\ ~Locked /\ w \in watching
  /\ watching' = watching \ {w} /\ channel' = Drained(w)
  /\ UNCHANGED <<latest, edition, publishing, shown, process>>
(* The WebSocket handler takes a snapshot at any time, the lock held or not. *)
Take(w) ==
  /\ w \in watching /\ channel[w] # 0
  /\ shown' = [shown EXCEPT ![w] = channel[w]] /\ channel' = Drained(w)
  /\ UNCHANGED <<latest, edition, publishing, watching, process>>

(* startOperation: the snapshot first, then the command.                    *)
Start(o) ==
  /\ process[o].state = "none" /\ \A p \in Upkeep : p < o => process[p].state # "none"
  /\ Publish([id |-> o, writers |-> {o}, running |-> TRUE])
  /\ process' = [process EXCEPT ![o].state = "started"]
Schedule(o) ==
  /\ process[o].state = "started"
  /\ \/ \E n \in 0..MaxOutput :
          process' = [process EXCEPT ![o] = IF o \in Followed THEN [state |-> "runs", lines |-> n]
                                            ELSE [state |-> "accepted", lines |-> 0]]
     \/ process' = [process EXCEPT ![o].state = "exited"]
  /\ UNCHANGED storeVars
(* External: the command ends; its pipes may still hold lines, which        *)
(* cmd.Wait may drop by closing them.                                       *)
CommandEnds(o) ==
  /\ process[o].state = "runs"
  /\ \E n \in 0..process[o].lines : process' = [process EXCEPT ![o] = [state |-> "exited", lines |-> n]]
  /\ UNCHANGED storeVars

(* AppendOutput, MarkRestarting and Finish do nothing for an operation that *)
(* is no longer the latest.                                                 *)
TellsAnyway(o, snapshot) == Publish(snapshot)
Tells(o, snapshot) ==
  IF latest.id = o THEN Publish(snapshot) ELSE ~Locked /\ UNCHANGED storeVars
AppendOutput(o) ==
  /\ process[o].lines > 0
  /\ Tells(o, [latest EXCEPT !.writers = @ \cup {o}])
  /\ process' = [process EXCEPT ![o].lines = @ - 1]
MarkRestarting(o) ==
  /\ process[o].state = "accepted"
  /\ Tells(o, [latest EXCEPT !.writers = @ \cup {o}, !.running = TRUE])
  /\ process' = [process EXCEPT ![o].state = "restarting"]
FinishOperation(o) ==
  /\ process[o].state = "exited"
  /\ Tells(o, [latest EXCEPT !.writers = @ \cup {o}, !.running = FALSE])
  /\ process' = [process EXCEPT ![o].state = "told"]

MaintenanceNext ==
  \/ \E w \in Watchers : DrainChannel(w) \/ SendSnapshot(w) \/ Subscribe(w) \/ Unsubscribe(w) \/ Take(w)
  \/ \E o \in Upkeep : \/ Start(o) \/ Schedule(o) \/ CommandEnds(o)
                       \/ AppendOutput(o) \/ MarkRestarting(o) \/ FinishOperation(o)

MaintenanceSpec == MaintenanceInit /\ [][MaintenanceNext]_maintenanceVars

-----------------------------------------------------------------------------
(* A watcher that falls behind loses snapshots, but never the newest one:   *)
(* it has it or finds it in its channel, whenever it takes between the      *)
(* store's two accesses to the channel.                                     *)
NewestKept ==
  \A w \in watching : ~Locked => edition = IF channel[w] = 0 THEN shown[w] ELSE channel[w]

(* The output and the end of an older command that is still running do not  *)
(* get into the story of the newer operation, which stays running until its *)
(* own command has ended.                                                   *)
OwnStory ==
  /\ latest.writers \subseteq {latest.id}
  /\ latest.id # 0 /\ ~latest.running => process[latest.id].state = "told"
=============================================================================
