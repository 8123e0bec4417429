---------------------------- MODULE ExternalApps ----------------------------
(***************************************************************************)
(* The applications Rebecca hosts beside itself (internal/app/             *)
(* externalapps): PHP, Node.js and static sites and the MirzaBot, each with *)
(* a record on disk, a copy of it in memory, and what it owns on the host  *)
(* and at Telegram.                                                        *)
(*                                                                         *)
(* Manager runs one operation at a time (operationMu).  An operation is a  *)
(* plan of steps, each of which may fail, some of them after their work is *)
(* done; a failed operation undoes what it has done, step by step, and the *)
(* process may die anywhere.                                               *)
(***************************************************************************)
EXTENDS Integers, Sequences

CONSTANTS
  AppIds,
  Template,     \* "static", "php", "node" or "bot"
  OwnDatabase,  \* the archives installed with a database; a bot always has one
  MaxVersion,   \* bound: releases of the bot
  MaxOperations \* bound: operations

VARIABLES
  app,       \* the applications, see NoApp
  operation, \* the one under operationMu, or NoOperation
  newest,    \* the newest release of the bot
  halfway,   \* ghost: applications whose operation died, whose clean-up failed, or
             \* whose installation failed on a step that had done its work unmarked
  stopped,   \* ghost: enabled applications a failed change of their status cut off
  leaving,   \* ghost: applications whose deletion failed on its way
  operations

appVars == <<app, operation, newest, halfway, stopped, leaving, operations>>

(* owns: files, system user, PHP pool, cron file, unit, running unit,      *)
(* database, secrets, webhook; record is on disk, known in memory;         *)
(* version is what the record says and running what the files are.         *)
NoApp == [record |-> "none", known |-> "none", owns |-> {}, version |-> 0, running |-> 0]
NoOperation == [kind |-> "none", id |-> CHOOSE a \in AppIds : TRUE, plan |-> <<>>, made |-> {}, before |-> NoApp, to |-> 0]

ASSUME AppAssumption ==
  /\ AppIds # {} /\ Template \in [AppIds -> {"static", "php", "node", "bot"}]
  /\ OwnDatabase \subseteq AppIds /\ {MaxVersion, MaxOperations} \subseteq Nat
-----------------------------------------------------------------------------
(* Steps. *)
Put(p) == <<"put", p>>
Drop(p) == <<"drop", p>>
WriteRecord(r) == <<"write", r>>    \* on disk
Know(r) == <<"know", r>>      \* setRecord, removeRecord
Save(r) == <<"save", r>>      \* writeRecord and setRecord
Files(way) == <<"files", way>>

(* What an application of each kind owns on the host and at Telegram. *)
Holdings(a) ==
  (IF Template[a] = "bot" \/ a \in OwnDatabase THEN {"db"} ELSE {}) \cup
  CASE Template[a] = "bot" -> {"user", "files", "pool", "cron", "secrets", "hook"}
    [] Template[a] = "static" -> {"files"}
    [] Template[a] = "php" -> {"user", "files", "pool"}
    [] Template[a] = "node" -> {"user", "files", "unit"}
(* What it needs while it is enabled, and what of that a change of its      *)
(* status puts up or takes down.                                            *)
Needs(a) == Holdings(a) \cup (IF Template[a] = "node" THEN {"running"} ELSE {})
Switched == {"hook", "cron", "running"}
OnlyIf(c, s) == IF c THEN <<s>> ELSE <<>>

InstallArchive(a) ==
  OnlyIf("user" \in Holdings(a), Put("user")) \o <<Put("files")>>
  \o OnlyIf("pool" \in Holdings(a), Put("pool")) \o OnlyIf("unit" \in Holdings(a), Put("unit"))
  \o OnlyIf("db" \in Holdings(a), Put("db")) \o <<Save("on")>>
InstallPlanRecordFirst(a) ==
  IF Template[a] = "bot"
  THEN <<Put("user"), Put("files"), Put("db"), Put("pool"), Put("cron"),
         WriteRecord("off"), Put("secrets"), Know("on"), Put("hook"), Save("on")>>
  ELSE InstallArchive(a)
InstallPlan(a) ==
  IF Template[a] = "bot"
  THEN <<Put("user"), Put("files"), Put("db"), Put("pool"), Put("cron"), Put("secrets"),
         WriteRecord("off"), Know("on"), Put("hook"), Save("on")>>
  ELSE InstallArchive(a)
(* delete makes an application leave in this order, the record at the end. *)
Leave(a, p) == OnlyIf(p \in Holdings(a), Drop(p))
DeletePlan(a, keep) ==
  <<Save("off")>> \o Leave(a, "hook") \o Leave(a, "cron") \o Leave(a, "pool") \o Leave(a, "unit")
  \o (IF keep THEN <<>> ELSE Leave(a, "db")) \o Leave(a, "files") \o Leave(a, "user")
  \o <<WriteRecord("none")>> \o Leave(a, "secrets") \o <<Know("none")>>
EnablePlan(a) ==
  CASE Template[a] = "bot" -> <<Know("on"), Put("hook"), Put("cron"), Save("on")>>
    [] Template[a] = "node" -> <<Put("running"), Save("on")>>
    [] OTHER -> <<Save("on")>>
DisablePlan(a) ==
  CASE Template[a] = "bot" -> <<Save("off"), Drop("cron"), Drop("hook")>>
    [] Template[a] = "node" -> <<Drop("running"), Save("off")>>
    [] OTHER -> <<Save("off")>>
UpdatePlanRecordFirst(a) == <<Save(app[a].record), Files("out"), Files("in")>>
UpdatePlan(a) ==
  <<Files("out"), Files("in")>> \o (IF app[a].record = "on" THEN <<Put("hook")>> ELSE <<>>) \o <<Save(app[a].record)>>

Undone(made, p) == OnlyIf(p \in made, Drop(p))
CleanUpFiles(made) ==
  <<WriteRecord("none"), Drop("secrets")>> \o Undone(made, "db") \o Undone(made, "files") \o Undone(made, "user")
CleanUp(made) ==
  <<WriteRecord("none"), Drop("secrets")>> \o Undone(made, "cron") \o Undone(made, "pool") \o Undone(made, "unit")
  \o Undone(made, "db") \o Undone(made, "files") \o Undone(made, "user")
(* What is undone when the step s of the operation fails. *)
Undo(s, made) ==
  LET a == operation.id
      back == <<Know(operation.before.known)>>
  IN  CASE operation.kind = "install" ->
             (IF s = Save("on") /\ Template[a] = "bot" THEN <<Drop("hook")>> ELSE <<>>) \o back \o CleanUp(made)
        [] operation.kind = "enable" /\ Template[a] = "bot" ->
             CASE s = Put("hook") -> back
               [] s = Put("cron") -> <<Drop("hook")>> \o back
               [] OTHER -> back \o <<Drop("cron"), Drop("hook")>>
        [] operation.kind = "enable" /\ s = Save("on") /\ Template[a] = "node" -> <<Drop("running")>>
        [] operation.kind = "disable" /\ s = Save("off") /\ Template[a] = "node" -> <<Put("running")>>
        [] operation.kind = "update" /\ s # Files("out") -> <<Files("back")>>
        [] OTHER -> <<>>
-----------------------------------------------------------------------------
(* What a step does to the application. *)
Owning(p) == IF p = "unit" THEN {"unit", "running"} ELSE {p}
Gained(s) == IF s[1] = "put" THEN Owning(s[2]) ELSE IF s \in {Files("in"), Files("back")} THEN {"files"} ELSE {}
Lost(s) == IF s[1] = "drop" THEN Owning(s[2]) ELSE IF s = Files("out") THEN {"files"} ELSE {}
Done(r, s) ==
  [record |-> IF s[1] \in {"write", "save"} THEN s[2] ELSE r.record,
   known |-> IF s[1] \in {"know", "save"} THEN s[2] ELSE r.known,
   owns |-> (r.owns \ Lost(s)) \cup Gained(s),
   version |-> IF s[1] \in {"write", "save"} /\ operation.kind \in {"install", "update"} THEN operation.to ELSE r.version,
   running |-> IF s \in {Put("files"), Files("in")} THEN operation.to
               ELSE IF s = Files("back") THEN operation.before.running ELSE r.running]
(* Steps that write memory cannot fail; writes and renames do all or nothing. *)
Fallible(s) == s[1] # "know"
Commanded == {"user", "pool", "unit", "running", "db", "hook"}
HalfDone(s) ==
  s \in {Put(p) : p \in Commanded} \cup {Drop(p) : p \in Commanded \cup {"files"}} \cup {Files("in")}
(* The pool is marked as made before PHP-FPM reloads, and the database of a *)
(* bot before it is created.                                                *)
MarkedFirst(s) == s = Put("pool") \/ (s = Put("db") /\ Template[operation.id] = "bot")
Marking(s) == IF s[1] = "put" THEN {s[2]} ELSE {}
(* systemctl neither disables nor starts a unit that has no file. *)
Possible(s) == s \in {Drop("unit"), Drop("running"), Put("running")} => "unit" \in app[operation.id].owns

NextStep == Head(operation.plan)
StepDone ==
  /\ operation.kind # "none" /\ operation.plan # <<>> /\ Possible(NextStep)
  /\ app' = [app EXCEPT ![operation.id] = Done(@, NextStep)]
  /\ operation' = [operation EXCEPT !.plan = Tail(@), !.made = @ \cup Marking(NextStep)]
  /\ UNCHANGED <<newest, halfway, stopped, leaving, operations>>
(* Enabling an enabled application once more may fail: what it had before   *)
(* is taken down with the rest.  A unit may stop without an answer.         *)
CutsOff(s, late) ==
  \/ operation.kind = "enable" /\ operation.before.record = "on" /\ s \in {Put("cron"), Save("on")}
  \/ operation.kind = "disable" /\ late /\ s = Drop("running")
StepFails ==
  /\ operation.kind \notin {"none", "undo"} /\ operation.plan # <<>> /\ Fallible(NextStep)
  /\ \E late \in {FALSE, HalfDone(NextStep) /\ Possible(NextStep)} :
       /\ app' = IF late THEN [app EXCEPT ![operation.id] = Done(@, NextStep)] ELSE app
       /\ halfway' = IF operation.kind = "install" /\ late /\ ~MarkedFirst(NextStep)
                     THEN halfway \cup {operation.id} ELSE halfway
       /\ stopped' = IF CutsOff(NextStep, late) THEN stopped \cup {operation.id} ELSE stopped
  /\ operation' = IF operation.kind = "delete" /\ NextStep = Drop("hook")     \* ignored
                  THEN [operation EXCEPT !.plan = Tail(@)]
                  ELSE [operation EXCEPT !.kind = "undo", !.made = {}, !.plan = Undo(NextStep, operation.made \cup
                                            IF MarkedFirst(NextStep) THEN Marking(NextStep) ELSE {})]
  /\ leaving' = IF operation.kind = "delete" THEN leaving \cup {operation.id} ELSE leaving
  /\ UNCHANGED <<newest, operations>>
UndoFails ==
  /\ operation.kind = "undo" /\ operation.plan # <<>> /\ Fallible(NextStep)
  /\ operation' = [operation EXCEPT !.plan = Tail(@)]
  /\ halfway' = halfway \cup {operation.id}
  /\ UNCHANGED <<app, newest, stopped, leaving, operations>>
Finish ==
  /\ operation.kind # "none" /\ operation.plan = <<>>
  /\ operation' = NoOperation
  /\ leaving' = IF app[operation.id].known = "none" THEN leaving \ {operation.id} ELSE leaving
  /\ stopped' = IF operation.kind \in {"install", "enable"} THEN stopped \ {operation.id} ELSE stopped
  /\ UNCHANGED <<app, newest, halfway, operations>>
-----------------------------------------------------------------------------
(* Operations. *)
Begins(kind, a, plan) ==
  /\ operation.kind = "none" /\ operations < MaxOperations /\ operations' = operations + 1
  /\ operation' = [kind |-> kind, id |-> a, plan |-> plan, made |-> {}, before |-> app[a], to |-> newest]
  /\ UNCHANGED <<app, newest, halfway, stopped, leaving>>
Known(a) == app[a].known # "none"

(* mountExists, and that nothing of the application is left on the host.    *)
(* Two bots never share a token: ensureBotTokenAvailable reads the secrets  *)
(* of every recorded bot and fails when one cannot be read.                 *)
Room(a) == Holdings(a) \cap app[a].owns \subseteq {"hook"}
TokenAvailable == \A b \in AppIds : Template[b] = "bot" /\ Known(b) => "secrets" \in app[b].owns
Install(a) ==
  /\ ~Known(a) /\ Room(a)
  /\ Template[a] = "bot" => app[a].record = "none" /\ TokenAvailable
  /\ Begins("install", a, InstallPlan(a))
DeleteApp(a, keep) == Known(a) /\ Begins("delete", a, DeletePlan(a, keep))
SetEnabled(a, on) ==
  /\ Known(a) /\ (on /\ Template[a] = "bot" => "secrets" \in app[a].owns)
  /\ Begins(IF on THEN "enable" ELSE "disable", a, IF on THEN EnablePlan(a) ELSE DisablePlan(a))
UpdateMirzaBot(a) ==
  /\ Known(a) /\ Template[a] = "bot" /\ app[a].version # newest
  /\ {"files", "secrets"} \subseteq app[a].owns
  /\ Begins("update", a, UpdatePlan(a))
(* Operations look at the newest release when they begin. *)
NewRelease ==
  /\ operation.kind = "none" /\ newest < MaxVersion /\ newest' = newest + 1
  /\ UNCHANGED <<app, operation, halfway, stopped, leaving, operations>>

(* The process dies and reads the records again, all but those of           *)
(* applications whose directory is gone: a deletion that had come that far  *)
(* is not tried again.                                                      *)
DieAndReload ==
  /\ app' = [a \in AppIds |-> [app[a] EXCEPT !.known = IF "files" \in app[a].owns THEN app[a].record ELSE "none"]]
  /\ halfway' = IF operation.kind = "none" THEN halfway ELSE halfway \cup {operation.id}
  /\ operation' = NoOperation
  /\ UNCHANGED <<newest, stopped, leaving, operations>>
-----------------------------------------------------------------------------
(* Some applications were installed before. *)
Installed(a) == [record |-> "on", known |-> "on", owns |-> UNION {Owning(p) : p \in Holdings(a)}, version |-> 1, running |-> 1]
AppInit ==
  /\ app \in {[a \in AppIds |-> IF a \in S THEN Installed(a) ELSE NoApp] : S \in SUBSET AppIds}
  /\ operation = NoOperation
  /\ newest = 1 /\ halfway = {} /\ stopped = {} /\ leaving = {} /\ operations = 0

AppNext ==
  \/ \E a \in AppIds :
       \/ Install(a) \/ UpdateMirzaBot(a)
       \/ \E b \in BOOLEAN : DeleteApp(a, b) \/ SetEnabled(a, b)
  \/ StepDone \/ StepFails \/ UndoFails \/ Finish \/ NewRelease \/ DieAndReload

AppSpec == AppInit /\ [][AppNext]_appVars
-----------------------------------------------------------------------------
Settled(a) == operation.kind = "none" /\ a \notin halfway \cup leaving

(* An application without a record has left nothing on the host but a       *)
(* database that was to be kept: neither a failed installation nor a        *)
(* deletion leaves files, users, pools, units or secrets that would stop    *)
(* the next installation, unless a clean-up failed, a command of the        *)
(* installation did its work and failed before it was marked, the process   *)
(* died on it, or a deletion failed on its way.                             *)
NothingLeft ==
  \A a \in AppIds : Settled(a) /\ ~Known(a) => app[a].owns \subseteq {"db", "hook"}

(* The record of a bot is never there without its secrets, at any step of   *)
(* any operation, unless a clean-up failed, a command of the installation   *)
(* did its work and failed before it was marked, or the process died on it: *)
(* a bot whose secrets cannot be read stops every later installation of a   *)
(* bot.                                                                     *)
BotsReadable ==
  \A a \in AppIds \ halfway : Template[a] = "bot" /\ app[a].record # "none" => "secrets" \in app[a].owns

(* An enabled application has the files of the version its record names and *)
(* all else it lasts on (user, pool, unit, database, secrets), whatever     *)
(* step of an installation, an update or a change of its status failed,     *)
(* unless its deletion was begun.  Its webhook, its cron file and its       *)
(* running unit it has too, until a change of its status that fails cuts it *)
(* off (CutsOff), and again once it is enabled.                             *)
EnabledWhole ==
  \A a \in AppIds : Settled(a) /\ app[a].record = "on" =>
    /\ app[a].running = app[a].version /\ app[a].known = "on"
    /\ Needs(a) \ Switched \subseteq app[a].owns
    /\ a \notin stopped => Needs(a) \subseteq app[a].owns
=============================================================================
