---------------------------- MODULE BackupRestore ----------------------------
(***************************************************************************)
(* Importing a backup while the panel runs (internal/app/backup), with     *)
(* MySQL or MariaDB: the tables are dumped, dropped and loaded one by one, *)
(* each statement committing on its own, and put back from the dump when   *)
(* that fails; a full backup then replaces the directories of Rebecca.     *)
(*                                                                         *)
(* Nothing keeps two imports, or an import and the panel's writes, apart.  *)
(* The panel lives through its imports: a process that dies in one leaves  *)
(* what the statements so far made of the tables, with nobody to put them  *)
(* back, and is not modelled.                                              *)
(***************************************************************************)
EXTENDS Integers, FiniteSets

CONSTANTS
  Imports,  \* imports, numbers above 2: what their archives put into a table or a root
  Holds,    \* the tables in each archive
  Full,     \* imports of scope "full"
  Tables,
  Roots,    \* file roots, "env" (rebecca_env) among them
  RootOrder \* the order of fileRoots

VARIABLES
  tables,   \* what each table holds: Absent, Original, Written or an import's
  roots,    \* what each root holds: Original, Torn or an import's
  credentials, \* whose database settings rebecca_env has, "local" or "archive"
  importing,   \* the imports, see NotBegun
  crossed,  \* ghost: imports that ran at the same time as another
  written   \* ghost: tables written since each import made its dump

restoreVars == <<tables, roots, credentials, importing, crossed, written>>

Absent == 0
Original == 1
Written == 2
Torn == -1
NotBegun == [step |-> "not begun", env |-> "archive", dump |-> [t \in Tables |-> Absent], left |-> {}, root |-> 1]

ASSUME RestoreAssumption ==
  /\ Imports \subseteq Nat /\ \A i \in Imports : i > Written
  /\ Holds \in [Imports -> SUBSET Tables] /\ Full \subseteq Imports
  /\ IsFiniteSet(Tables) /\ "env" \in Roots
  /\ RootOrder \in [1..Cardinality(Roots) -> Roots]

Ended == {"not begun", "restored", "database only", "put back", "rejected", "broken"}
Running == {i \in Imports : importing[i].step \notin Ended}
AtStep(i, step) == importing[i].step = step
Moves(i, step) ==
  importing' = [importing EXCEPT ![i] = IF step \in Ended THEN [NotBegun EXCEPT !.step = step] ELSE [@ EXCEPT !.step = step]]
LocalFiles == <<roots, credentials>>
-----------------------------------------------------------------------------
(* Import: until the tables are touched, a failure changes nothing.  The    *)
(* extracted rebecca_env gets the settings of the database in use.          *)
PreserveLocalDatabaseEnv(i) == IF i \in Full THEN "local" ELSE "archive"
BeginImport(i) ==
  /\ AtStep(i, "not begun")
  /\ importing' = [importing EXCEPT ![i].step = "dump", ![i].env = PreserveLocalDatabaseEnv(i)]
  /\ crossed' = IF Running = {} THEN crossed ELSE crossed \cup Running \cup {i}
  /\ UNCHANGED <<tables, written>> /\ UNCHANGED LocalFiles
Reject(i) ==
  /\ AtStep(i, "dump") /\ Moves(i, "rejected")
  /\ UNCHANGED <<tables, crossed, written>> /\ UNCHANGED LocalFiles
DumpForRollback(i) ==
  /\ AtStep(i, "dump")
  /\ importing' = [importing EXCEPT ![i].step = "drop", ![i].dump = tables, ![i].left = {t \in Tables : tables[t] # Absent}]
  /\ written' = [written EXCEPT ![i] = {}]
  /\ UNCHANGED <<tables, crossed>> /\ UNCHANGED LocalFiles

(* dropMySQLTables, for the restore and again for its rollback: the names   *)
(* are read first, and DROP TABLE ends the transaction around it.  Then the *)
(* dump is fed to the client, which commits table after table.              *)
Content(i) == IF AtStep(i, "load") THEN [t \in Tables |-> IF t \in Holds[i] THEN i ELSE Absent] ELSE importing[i].dump
Filled(content) == {t \in Tables : content[t] # Absent}
Proceeds(i, step, left) == importing' = [importing EXCEPT ![i].step = step, ![i].left = left]
DropTable(i, t) ==
  /\ importing[i].step \in {"drop", "undo drop"} /\ t \in importing[i].left
  /\ tables' = [tables EXCEPT ![t] = Absent]
  /\ importing' = [importing EXCEPT ![i].left = @ \ {t}]
  /\ UNCHANGED <<crossed, written>> /\ UNCHANGED LocalFiles
Dropped(i) ==
  /\ importing[i].left = {}
  /\ \/ AtStep(i, "drop") /\ Proceeds(i, "load", Holds[i])
     \/ AtStep(i, "undo drop") /\ Proceeds(i, "undo load", Filled(importing[i].dump))
  /\ UNCHANGED <<tables, crossed, written>> /\ UNCHANGED LocalFiles
LoadTable(i, t) ==
  /\ importing[i].step \in {"load", "undo load"} /\ t \in importing[i].left
  /\ tables' = [tables EXCEPT ![t] = Content(i)[t]]
  /\ importing' = [importing EXCEPT ![i].left = @ \ {t}]
  /\ UNCHANGED <<crossed, written>> /\ UNCHANGED LocalFiles
(* databaseCounts may fail too, and then the files are left alone. *)
Loaded(i) ==
  /\ importing[i].left = {}
  /\ \/ AtStep(i, "load") /\ \E step \in {IF i \in Full THEN "files" ELSE "restored", "database only"} : Moves(i, step)
     \/ AtStep(i, "undo load") /\ Moves(i, "put back")
  /\ UNCHANGED <<tables, crossed, written>> /\ UNCHANGED LocalFiles

(* restoreMySQLRollback runs on a context of its own, whatever became of    *)
(* the request's; when it fails too, nothing more is tried.                 *)
RollbackWithoutDrop(i) == Proceeds(i, "undo load", Filled(importing[i].dump))
Rollback(i) == Proceeds(i, "undo drop", Filled(tables))
StatementFails(i) ==
  /\ \/ importing[i].step \in {"drop", "load"} /\ Rollback(i)
     \/ importing[i].step \in {"undo drop", "undo load"} /\ Moves(i, "broken")
  /\ UNCHANGED <<tables, crossed, written>> /\ UNCHANGED LocalFiles

(* restoreFileRoots, root after root: one the archive does not have is left *)
(* as it is, one that fails half-way stays so.                              *)
RestoreRoot(i) ==
  /\ AtStep(i, "files")
  /\ LET r == RootOrder[importing[i].root]
         last == importing[i].root = Cardinality(Roots)
     IN  \/ /\ \/ /\ roots' = [roots EXCEPT ![r] = i]
                  /\ credentials' = IF r = "env" THEN importing[i].env ELSE credentials
               \/ UNCHANGED LocalFiles
            /\ IF last THEN Moves(i, "restored") ELSE importing' = [importing EXCEPT ![i].root = @ + 1]
         \/ /\ roots' = [roots EXCEPT ![r] = Torn]
            /\ Moves(i, "database only") /\ UNCHANGED credentials
  /\ UNCHANGED <<tables, crossed, written>>

(* Everybody else writes to the tables that are there. *)
WriteTable(t) ==
  /\ Running # {} /\ tables[t] # Absent
  /\ tables' = [tables EXCEPT ![t] = Written]
  /\ written' = [i \in Imports |-> IF i \in Running THEN written[i] \cup {t} ELSE {}]
  /\ UNCHANGED <<importing, crossed>> /\ UNCHANGED LocalFiles
-----------------------------------------------------------------------------
RestoreInit ==
  /\ tables = [t \in Tables |-> Original] /\ roots = [r \in Roots |-> Original] /\ credentials = "local"
  /\ importing = [i \in Imports |-> NotBegun] /\ crossed = {} /\ written = [i \in Imports |-> {}]

RestoreNext ==
  \/ \E i \in Imports :
       \/ BeginImport(i) \/ Reject(i) \/ DumpForRollback(i) \/ Dropped(i) \/ Loaded(i)
       \/ StatementFails(i) \/ RestoreRoot(i)
       \/ \E t \in Tables : DropTable(i, t) \/ LoadTable(i, t)
  \/ \E t \in Tables : WriteTable(t)

RestoreSpec == RestoreInit /\ [][RestoreNext]_restoreVars
-----------------------------------------------------------------------------
(* An import that ran alone never leaves tables of two databases: when the  *)
(* next one begins the database is the archive's if it succeeded, and the   *)
(* one that was there if it was rejected or put back, but for what others   *)
(* have written since; only a rollback that fails breaks that.  And no file *)
(* was touched when the database was not restored, and the panel still      *)
(* finds its own database when it starts again.                             *)
RestoreWhole ==
  [][\A i \in Imports \ crossed : importing[i].step \notin Ended /\ importing'[i].step \in Ended =>
       LET end == importing'[i].step
           whole(content) == \A t \in Tables : tables'[t] = content[t] \/ (t \in written[i] /\ content[t] # Absent)
       IN  /\ end \in {"restored", "database only"} => whole([t \in Tables |-> IF t \in Holds[i] THEN i ELSE Absent])
           /\ end = "put back" => whole(importing[i].dump)
           /\ end \in {"put back", "broken", "rejected"} => \A r \in Roots : roots'[r] # i
           /\ end = "restored" => credentials' = "local"]_restoreVars
=============================================================================
