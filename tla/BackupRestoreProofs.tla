------------------------- MODULE BackupRestoreProofs -------------------------
(***************************************************************************)
(* Proofs about BackupRestore, for any objects, tables and failures.       *)
(***************************************************************************)
EXTENDS BackupRestore, TLAPS

Steps == {"dump", "drop", "load", "files", "undo drop", "undo load"}
ImportState ==
  [step : Ended \cup Steps, env : {"local", "archive"}, dump : [Tables -> Int], left : SUBSET Tables, root : Int]
RestoreTypes ==
  /\ tables \in [Tables -> Int] /\ roots \in [Roots -> Int]
  /\ importing \in [Imports -> ImportState]
  /\ crossed \subseteq Imports /\ written \in [Imports -> SUBSET Tables]

(* What the tables hold while i works on them alone: t is the content's, or *)
(* written since.                                                           *)
Archive(i) == [t \in Tables |-> IF t \in Holds[i] THEN i ELSE Absent]
KeptOrWritten(i, t, content) == tables[t] = content[t] \/ (t \in written[i] /\ content[t] # Absent)
Loading(i, content) ==
  /\ importing[i].left \subseteq Filled(content)
  /\ \A t \in importing[i].left : tables[t] = Absent
  /\ \A t \in Tables \ importing[i].left : KeptOrWritten(i, t, content)
Dropping(i) == \A t \in Tables \ importing[i].left : tables[t] = Absent
AloneWith(i) ==
  /\ AtStep(i, "drop") \/ AtStep(i, "undo drop") => Dropping(i)
  /\ AtStep(i, "load") => Loading(i, Archive(i))
  /\ AtStep(i, "undo load") => Loading(i, importing[i].dump)
  /\ AtStep(i, "files") => \A t \in Tables : KeptOrWritten(i, t, Archive(i))
RestoreInv ==
  /\ RestoreTypes
  /\ \A i, j \in Running : i # j => i \in crossed
  /\ \A i \in Running \ crossed : AloneWith(i)
  /\ credentials = "local"
  /\ \A i \in Running : importing[i].env = PreserveLocalDatabaseEnv(i)
  /\ \A i \in Imports : AtStep(i, "files") => i \in Full
  /\ \A i \in Imports : importing[i].step \in {"not begun", "dump", "drop", "load", "undo drop", "undo load"} =>
       \A r \in Roots : roots[r] # i

(* The body of RestoreWhole for one import. *)
WholeEnd(i) ==
  LET end == importing'[i].step
      whole(content) == \A t \in Tables : tables'[t] = content[t] \/ (t \in written[i] /\ content[t] # Absent)
  IN  /\ end \in {"restored", "database only"} => whole([t \in Tables |-> IF t \in Holds[i] THEN i ELSE Absent])
      /\ end = "put back" => whole(importing[i].dump)
      /\ end \in {"put back", "broken", "rejected"} => \A r \in Roots : roots'[r] # i
      /\ end = "restored" => credentials' = "local"
Whole ==
  \A i \in Imports \ crossed : importing[i].step \notin Ended /\ importing'[i].step \in Ended => WholeEnd(i)

LEMMA StepsGoOn == /\ Steps \cap Ended = {} /\ NotBegun \in ImportState
BY DEF Steps, Ended, NotBegun, ImportState, Absent

LEMMA TornNumber == Torn \in Int /\ Torn < 0
BY DEF Torn

LEMMA ImportNumbers == ASSUME NEW i \in Imports PROVE i \in Nat /\ i > 2
BY RestoreAssumption DEF Written

LEMMA NotTorn == ASSUME NEW i \in Imports PROVE i # Torn
BY ImportNumbers, TornNumber

(* A step of an import that runs: only its own invariant is to be shown,    *)
(* because every other import that runs has crossed it.                     *)
LEMMA StepOfOne ==
  ASSUME RestoreInv, NEW i \in Running, NEW new \in ImportState,
         importing' = [importing EXCEPT ![i] = new], new.step # "not begun",
         new.step \notin Ended => new.env = importing[i].env,
         new.step = "files" => i \in Full,
         tables' \in [Tables -> Int], written' \in [Imports -> SUBSET Tables], crossed' = crossed,
         credentials' = "local", roots' \in [Roots -> Int],
         \/ roots' = roots
         \/ new.step \in Ended \cup {"files"} /\ \A r \in Roots : roots'[r] \in {roots[r], i, Torn},
         importing[i].step = "files" => new.step \in Ended \cup {"files"},
         i \notin crossed /\ new.step \notin Ended => AloneWith(i)',
         i \notin crossed /\ new.step \in Ended => WholeEnd(i)
  PROVE  RestoreInv' /\ Whole
<1>1. /\ i \in Imports /\ importing \in [Imports -> ImportState] /\ importing[i].step \notin Ended
      /\ importing'[i] = new /\ \A j \in Imports \ {i} : importing'[j] = importing[j]
  BY DEF Running, RestoreInv, RestoreTypes
<1>2. RestoreTypes'
  BY <1>1 DEF RestoreInv, RestoreTypes
<1>3. Running' \subseteq Running /\ Running' \ {i} = Running \ {i}
  BY <1>1 DEF Running
<1>4. \A j, k \in Running' : j # k => j \in crossed'
  BY <1>3 DEF RestoreInv
<1>5. \A j \in Running' \ crossed' : AloneWith(j)'
  <2> SUFFICES ASSUME NEW j \in Running', j \notin crossed PROVE AloneWith(j)'
    OBVIOUS
  <2>1. j = i
    BY <1>3 DEF RestoreInv
  <2> QED
    BY <1>1, <2>1 DEF Running
<1>6. \A j \in Running' : importing'[j].env = PreserveLocalDatabaseEnv(j)
  BY <1>1, <1>3 DEF RestoreInv, Running
<1>7. \A j \in Imports : AtStep(j, "files")' => j \in Full
  BY <1>1 DEF RestoreInv, AtStep
<1>8. \A j \in Imports : importing'[j].step \in {"not begun", "dump", "drop", "load", "undo drop", "undo load"} =>
        \A r \in Roots : roots'[r] # j
  <2> SUFFICES ASSUME NEW j \in Imports, importing'[j].step \in {"not begun", "dump", "drop", "load", "undo drop", "undo load"},
                      NEW r \in Roots
               PROVE  roots'[r] # j
    OBVIOUS
  <2>1. j # Torn
    BY NotTorn, Zenon
  <2>2. CASE j = i
    <3>1. new.step \notin Ended \cup {"files"} /\ roots' = roots
      BY <1>1, <2>2 DEF Ended
    <3>2. importing[i].step \in {"dump", "drop", "load", "undo drop", "undo load"}
      BY <1>1, <3>1 DEF Ended, ImportState, Steps
    <3> QED
      BY <2>2, <3>1, <3>2 DEF RestoreInv
  <2>3. CASE j # i
    <3>1. importing[j].step = importing'[j].step
      BY <1>1, <2>3
    <3>2. roots[r] # j
      BY <3>1 DEF RestoreInv
    <3>3. roots'[r] \in {roots[r], i, Torn}
      OBVIOUS
    <3> QED
      BY <2>1, <2>3, <3>2, <3>3
  <2> QED
    BY <2>2, <2>3
<1>9. Whole
  <2> SUFFICES ASSUME NEW j \in Imports \ crossed, importing[j].step \notin Ended, importing'[j].step \in Ended
               PROVE  WholeEnd(j)
    BY DEF Whole
  <2>1. j = i
    BY <1>1
  <2> QED
    BY <1>1, <2>1
<1> QED
  BY <1>2, <1>4, <1>5, <1>6, <1>7, <1>8, <1>9 DEF RestoreInv

EndedAt(step) == [NotBegun EXCEPT !.step = step]

LEMMA EndsAt ==
  ASSUME NEW i, NEW step \in Ended, Moves(i, step)
  PROVE  /\ importing' = [importing EXCEPT ![i] = EndedAt(step)]
         /\ EndedAt(step) \in ImportState /\ EndedAt(step).step = step
<1>1. EndedAt(step) \in ImportState /\ EndedAt(step).step = step
  BY StepsGoOn DEF EndedAt, NotBegun, ImportState, Absent
<1>2. importing' = [importing EXCEPT ![i] = EndedAt(step)]
  BY DEF Moves, EndedAt
<1> QED
  BY <1>1, <1>2

LEMMA MovesState ==
  ASSUME RestoreInv, NEW i \in Running, NEW step \in Ended \cup Steps, Moves(i, step), step # "not begun"
  PROVE  \E new \in ImportState :
           /\ importing' = [importing EXCEPT ![i] = new] /\ new.step = step
           /\ step \notin Ended => new.env = importing[i].env
<1>1. i \in Imports /\ importing[i] \in ImportState
  BY DEF Running, RestoreInv, RestoreTypes
<1>2. CASE step \in Ended
  <2>1. /\ [NotBegun EXCEPT !.step = step] \in ImportState
        /\ [NotBegun EXCEPT !.step = step].step = step
    BY StepsGoOn, <1>2 DEF NotBegun, ImportState, Absent
  <2> QED
    BY <1>2, <2>1 DEF Moves
<1>3. CASE step \notin Ended
  <2>1. LET new == [importing[i] EXCEPT !.step = step] IN
        /\ new \in ImportState /\ new.step = step /\ new.env = importing[i].env
    BY <1>1 DEF ImportState
  <2> QED
    BY <1>3, <2>1 DEF Moves
<1> QED
  BY <1>2, <1>3

LEMMA Facts ==
  ASSUME RestoreInv, NEW i \in Imports, importing[i].step \in Steps
  PROVE  /\ i \in Running /\ importing[i] \in ImportState
         /\ i \notin crossed => AloneWith(i)
         /\ importing[i].env = PreserveLocalDatabaseEnv(i)
         /\ tables \in [Tables -> Int] /\ roots \in [Roots -> Int] /\ written \in [Imports -> SUBSET Tables]
         /\ importing \in [Imports -> ImportState] /\ credentials = "local"
BY StepsGoOn DEF RestoreInv, RestoreTypes, Running

LEMMA BeginImportStep ==
  ASSUME RestoreInv, NEW i \in Imports, BeginImport(i) PROVE RestoreInv' /\ Whole
<1>1. /\ importing \in [Imports -> ImportState] /\ importing[i].step = "not begun"
      /\ importing' = [importing EXCEPT ![i].step = "dump", ![i].env = PreserveLocalDatabaseEnv(i)]
      /\ UNCHANGED <<tables, written, roots, credentials>>
      /\ crossed' = IF Running = {} THEN crossed ELSE crossed \cup Running \cup {i}
  BY DEF RestoreInv, RestoreTypes, BeginImport, AtStep, LocalFiles
<1> DEFINE new == [importing[i] EXCEPT !.step = "dump", !.env = PreserveLocalDatabaseEnv(i)]
<1>2. /\ new \in ImportState /\ new.step = "dump" /\ new.env = PreserveLocalDatabaseEnv(i)
  BY <1>1 DEF ImportState, Steps, PreserveLocalDatabaseEnv
<1>3. importing' = [importing EXCEPT ![i] = new]
  BY <1>1 DEF ImportState
<1> HIDE DEF new
<1>4. "dump" \notin Ended /\ "not begun" \in Ended /\ "dump" \in Steps
  BY DEF Ended, Steps
<1>5. Running' = Running \cup {i}
  BY <1>1, <1>2, <1>3, <1>4 DEF Running
<1>6. RestoreTypes'
  BY <1>1, <1>2, <1>3 DEF RestoreInv, RestoreTypes, Running
<1>7. \A j, k \in Running' : j # k => j \in crossed'
  BY <1>1, <1>5
<1>8. \A j \in Running' \ crossed' : AloneWith(j)'
  BY <1>1, <1>2, <1>3, <1>5 DEF AloneWith, AtStep
<1>9. \A j \in Running' : importing'[j].env = PreserveLocalDatabaseEnv(j)
  BY <1>1, <1>2, <1>3, <1>5 DEF RestoreInv, Running
<1>10. \A j \in Imports : AtStep(j, "files")' => j \in Full
  BY <1>1, <1>2, <1>3 DEF RestoreInv, AtStep
<1>11. \A j \in Imports : importing'[j].step \in {"not begun", "dump", "drop", "load", "undo drop", "undo load"} =>
        \A r \in Roots : roots'[r] # j
  BY <1>1, <1>2, <1>3 DEF RestoreInv
<1>12. Whole
  BY <1>1, <1>2, <1>3, <1>4 DEF Whole
<1> QED
  BY <1>1, <1>6, <1>7, <1>8, <1>9, <1>10, <1>11, <1>12 DEF RestoreInv

LEMMA RejectStep ==
  ASSUME RestoreInv, NEW i \in Imports, Reject(i) PROVE RestoreInv' /\ Whole
<1>1. /\ importing[i].step = "dump" /\ Moves(i, "rejected")
      /\ UNCHANGED <<tables, written, roots, credentials, crossed>>
  BY DEF Reject, AtStep, LocalFiles
<1>2. "dump" \in Steps /\ "rejected" \in Ended /\ "rejected" # "not begun" /\ "files" \notin Ended
  BY DEF Ended, Steps
<1>3. i \in Running
  BY <1>1, <1>2, Facts
<1>4. PICK new \in ImportState : importing' = [importing EXCEPT ![i] = new] /\ new.step = "rejected"
  BY <1>1, <1>2, <1>3, MovesState
<1>5. importing'[i].step = "rejected"
  BY <1>4 DEF RestoreInv, RestoreTypes
<1>6. WholeEnd(i)
  BY <1>1, <1>5 DEF WholeEnd, RestoreInv
<1> QED
  BY <1>1, <1>2, <1>3, <1>4, <1>6, Facts, StepOfOne

LEMMA DumpForRollbackStep ==
  ASSUME RestoreInv, NEW i \in Imports, DumpForRollback(i) PROVE RestoreInv' /\ Whole
<1>1. /\ importing[i].step = "dump"
      /\ importing' = [importing EXCEPT ![i].step = "drop", ![i].dump = tables, ![i].left = {t \in Tables : tables[t] # Absent}]
      /\ written' = [written EXCEPT ![i] = {}]
      /\ UNCHANGED <<tables, roots, credentials, crossed>>
  BY DEF DumpForRollback, AtStep, LocalFiles
<1>2. "dump" \in Steps /\ "drop" \notin Ended /\ "drop" # "not begun" /\ "drop" \in Steps
  BY DEF Ended, Steps
<1>3. /\ i \in Running /\ importing[i] \in ImportState
      /\ tables \in [Tables -> Int] /\ roots \in [Roots -> Int] /\ written \in [Imports -> SUBSET Tables]
      /\ importing \in [Imports -> ImportState] /\ credentials = "local"
  BY <1>1, <1>2, Facts
<1> DEFINE left == {t \in Tables : tables[t] # Absent}
           new == [importing[i] EXCEPT !.step = "drop", !.dump = tables, !.left = left]
<1>4. left \in SUBSET Tables /\ \A t \in Tables \ left : tables[t] = Absent
  OBVIOUS
<1>5. importing' = [importing EXCEPT ![i] = new]
  BY <1>1, <1>3 DEF ImportState
<1> HIDE DEF left
<1>6. new \in ImportState /\ new.step = "drop" /\ new.env = importing[i].env /\ new.left = left
  BY <1>2, <1>3, <1>4 DEF ImportState
<1> HIDE DEF new
<1>7. importing'[i] = new
  BY <1>3, <1>5
<1>8. AloneWith(i)'
  BY <1>1, <1>4, <1>6, <1>7 DEF AloneWith, AtStep, Dropping
<1>9. /\ tables' \in [Tables -> Int] /\ roots' \in [Roots -> Int] /\ written' \in [Imports -> SUBSET Tables]
      /\ roots' = roots /\ crossed' = crossed /\ credentials' = "local"
  BY <1>1, <1>3
<1>10. new.step # "not begun" /\ new.step # "files" /\ new.step \notin Ended /\ importing[i].step # "files"
  BY <1>1, <1>2, <1>6
<1> QED
  BY <1>3, <1>5, <1>6, <1>8, <1>9, <1>10, StepOfOne

(* Steps that take one table from the left ones. *)
LEMMA TakeTable ==
  ASSUME RestoreInv, NEW i \in Imports, NEW t \in importing[i].left, NEW held \in Int,
         importing[i].step \in {"drop", "load", "undo drop", "undo load"},
         tables' = [tables EXCEPT ![t] = held],
         importing' = [importing EXCEPT ![i].left = @ \ {t}],
         UNCHANGED <<roots, credentials, crossed, written>>,
         i \notin crossed => AloneWith(i)'
  PROVE  RestoreInv' /\ Whole
<1>1. importing[i].step \in Steps /\ importing[i].step \notin Ended \cup {"files"}
  BY DEF Ended, Steps
<1>2. /\ i \in Running /\ importing[i] \in ImportState
      /\ tables \in [Tables -> Int] /\ roots \in [Roots -> Int] /\ written \in [Imports -> SUBSET Tables]
      /\ importing \in [Imports -> ImportState] /\ credentials = "local"
  BY <1>1, Facts
<1> DEFINE new == [importing[i] EXCEPT !.left = importing[i].left \ {t}]
<1>3. importing' = [importing EXCEPT ![i] = new]
  BY <1>2 DEF ImportState
<1>4. new \in ImportState /\ new.step = importing[i].step /\ new.env = importing[i].env
  BY <1>2 DEF ImportState
<1> HIDE DEF new
<1>5. tables' \in [Tables -> Int] /\ "not begun" \in Ended
  BY <1>2 DEF Ended
<1> QED
  BY <1>1, <1>2, <1>3, <1>4, <1>5, StepOfOne

LEMMA DropTableStep ==
  ASSUME RestoreInv, NEW i \in Imports, NEW t \in Tables, DropTable(i, t) PROVE RestoreInv' /\ Whole
<1>1. /\ importing[i].step \in {"drop", "undo drop"} /\ t \in importing[i].left
      /\ tables' = [tables EXCEPT ![t] = Absent]
      /\ importing' = [importing EXCEPT ![i].left = @ \ {t}]
      /\ UNCHANGED <<roots, credentials, crossed, written>>
  BY DEF DropTable, LocalFiles
<1>2. importing[i].step \in Steps
  BY <1>1 DEF Steps
<1>3. /\ importing \in [Imports -> ImportState] /\ importing[i] \in ImportState /\ tables \in [Tables -> Int]
  BY <1>2, Facts
<1>4. importing'[i].left = importing[i].left \ {t} /\ importing'[i].step = importing[i].step
  BY <1>1, <1>3 DEF ImportState
<1>5. ASSUME i \notin crossed PROVE AloneWith(i)'
  <2>1. Dropping(i)
    BY <1>1, <1>2, <1>5, Facts DEF AloneWith, AtStep
  <2>2. Dropping(i)'
    BY <1>1, <1>3, <1>4, <2>1 DEF Dropping
  <2> QED
    BY <1>1, <1>4, <2>2 DEF AloneWith, AtStep
<1>6. Absent \in Int
  BY DEF Absent
<1>7. importing[i].step \in {"drop", "load", "undo drop", "undo load"}
  BY <1>1
<1> QED
  BY <1>1, <1>5, <1>6, <1>7, TakeTable

LEMMA ArchiveContent ==
  ASSUME NEW i \in Imports
  PROVE  /\ Archive(i) \in [Tables -> Int] /\ Filled(Archive(i)) = Holds[i] /\ Holds[i] \subseteq Tables
         /\ \A t \in Tables : Archive(i)[t] # Absent <=> t \in Holds[i]
<1>1. Holds[i] \subseteq Tables
  BY RestoreAssumption
<1>2. i \in Int /\ i # Absent /\ Absent \in Int
  BY ImportNumbers DEF Absent
<1> QED
  BY <1>1, <1>2 DEF Archive, Filled

LEMMA LoadTableStep ==
  ASSUME RestoreInv, NEW i \in Imports, NEW t \in Tables, LoadTable(i, t) PROVE RestoreInv' /\ Whole
<1>1. /\ importing[i].step \in {"load", "undo load"} /\ t \in importing[i].left
      /\ tables' = [tables EXCEPT ![t] = Content(i)[t]]
      /\ importing' = [importing EXCEPT ![i].left = @ \ {t}]
      /\ UNCHANGED <<roots, credentials, crossed, written>>
  BY DEF LoadTable, LocalFiles
<1>2. importing[i].step \in Steps
  BY <1>1 DEF Steps
<1>3. /\ importing \in [Imports -> ImportState] /\ importing[i] \in ImportState /\ tables \in [Tables -> Int]
  BY <1>2, Facts
<1>4. /\ importing'[i].left = importing[i].left \ {t} /\ importing'[i].step = importing[i].step
      /\ importing'[i].dump = importing[i].dump
  BY <1>1, <1>3 DEF ImportState
<1>5. importing[i].dump \in [Tables -> Int]
  BY <1>3 DEF ImportState
<1>6. Content(i) = IF importing[i].step = "load" THEN Archive(i) ELSE importing[i].dump
  BY DEF Content, AtStep, Archive
<1>7. Content(i)[t] \in Int
  BY <1>5, <1>6, ArchiveContent
<1>8. ASSUME i \notin crossed PROVE AloneWith(i)'
  <2>1. CASE importing[i].step = "load"
    <3>1. Loading(i, Archive(i))
      BY <1>2, <1>8, <2>1, Facts DEF AloneWith, AtStep
    <3>2. Loading(i, Archive(i))'
      BY <1>1, <1>3, <1>4, <1>6, <2>1, <3>1 DEF Loading, KeptOrWritten, Filled, Archive
    <3> QED
      BY <1>4, <2>1, <3>2 DEF AloneWith, AtStep
  <2>2. CASE importing[i].step = "undo load"
    <3>1. Loading(i, importing[i].dump)
      BY <1>2, <1>8, <2>2, Facts DEF AloneWith, AtStep
    <3>2. Loading(i, importing[i].dump)'
      BY <1>1, <1>3, <1>4, <1>5, <1>6, <2>2, <3>1 DEF Loading, KeptOrWritten, Filled
    <3> QED
      BY <1>4, <2>2, <3>2 DEF AloneWith, AtStep
  <2> QED
    BY <1>1, <2>1, <2>2
<1> QED
  BY <1>1, <1>7, <1>8, TakeTable

(* Steps that begin to take the tables of a set. *)
LEMMA ProceedsStep ==
  ASSUME RestoreInv, NEW i \in Imports, NEW left \in SUBSET Tables, NEW step \in {"load", "undo drop", "undo load"},
         importing[i].step \in {"drop", "load", "undo drop"}, Proceeds(i, step, left),
         UNCHANGED <<tables, roots, credentials, crossed, written>>,
         i \notin crossed => AloneWith(i)'
  PROVE  RestoreInv' /\ Whole
<1>1. /\ importing[i].step \in Steps /\ importing[i].step # "files"
      /\ step \notin Ended /\ step # "files" /\ step # "not begun" /\ step \in Steps
  BY DEF Ended, Steps
<1>2. /\ i \in Running /\ importing[i] \in ImportState
      /\ tables \in [Tables -> Int] /\ roots \in [Roots -> Int] /\ written \in [Imports -> SUBSET Tables]
      /\ importing \in [Imports -> ImportState] /\ credentials = "local"
  BY <1>1, Facts
<1> DEFINE new == [importing[i] EXCEPT !.step = step, !.left = left]
<1>3. importing' = [importing EXCEPT ![i] = new]
  BY <1>2 DEF ImportState, Proceeds
<1>4. new \in ImportState /\ new.step = step /\ new.env = importing[i].env
  BY <1>1, <1>2 DEF ImportState
<1> HIDE DEF new
<1> QED
  BY <1>1, <1>2, <1>3, <1>4, StepOfOne

LEMMA ProceedsFields ==
  ASSUME importing \in [Imports -> ImportState], NEW i \in Imports, NEW left, NEW step, Proceeds(i, step, left)
  PROVE  importing'[i].step = step /\ importing'[i].left = left /\ importing'[i].dump = importing[i].dump
BY DEF Proceeds, ImportState

LEMMA DroppedStep ==
  ASSUME RestoreInv, NEW i \in Imports, Dropped(i) PROVE RestoreInv' /\ Whole
<1>1. importing[i].left = {} /\ UNCHANGED <<tables, roots, credentials, crossed, written>>
  BY DEF Dropped, LocalFiles
<1>2. /\ \/ importing[i].step = "drop" /\ Proceeds(i, "load", Holds[i])
         \/ importing[i].step = "undo drop" /\ Proceeds(i, "undo load", Filled(importing[i].dump))
      /\ importing[i].step \in Steps
  BY DEF Dropped, AtStep, Steps
<1>3. importing \in [Imports -> ImportState] /\ importing[i].dump \in [Tables -> Int]
  BY <1>2, Facts DEF ImportState
<1>4. ASSUME i \notin crossed PROVE \A t \in Tables : tables[t] = Absent
  BY <1>1, <1>2, <1>4, Facts DEF AloneWith, AtStep, Dropping
<1>5. CASE importing[i].step = "drop" /\ Proceeds(i, "load", Holds[i])
  <2>1. importing'[i].step = "load" /\ importing'[i].left = Holds[i]
    BY <1>3, <1>5, ProceedsFields
  <2>2. ASSUME i \notin crossed PROVE Loading(i, Archive(i))'
    BY <1>1, <1>4, <2>1, <2>2, ArchiveContent DEF Loading, KeptOrWritten, Filled, Archive
  <2>3. i \notin crossed => AloneWith(i)'
    BY <2>1, <2>2 DEF AloneWith, AtStep
  <2> QED
    BY <1>1, <1>5, <2>3, ArchiveContent, ProceedsStep
<1>6. CASE importing[i].step = "undo drop" /\ Proceeds(i, "undo load", Filled(importing[i].dump))
  <2>1. /\ importing'[i].step = "undo load" /\ importing'[i].left = Filled(importing[i].dump)
        /\ importing'[i].dump = importing[i].dump
    BY <1>3, <1>6, ProceedsFields
  <2>2. ASSUME i \notin crossed PROVE Loading(i, importing[i].dump)'
    BY <1>1, <1>4, <2>1, <2>2 DEF Loading, KeptOrWritten, Filled
  <2>3. i \notin crossed => AloneWith(i)'
    BY <2>1, <2>2 DEF AloneWith, AtStep
  <2>4. Filled(importing[i].dump) \in SUBSET Tables
    BY DEF Filled
  <2> QED
    BY <1>1, <1>6, <2>3, <2>4, ProceedsStep
<1> QED
  BY <1>2, <1>5, <1>6

LEMMA LoadedStep ==
  ASSUME RestoreInv, NEW i \in Imports, Loaded(i) PROVE RestoreInv' /\ Whole
<1>1. importing[i].left = {} /\ UNCHANGED <<tables, roots, credentials, crossed, written>>
  BY DEF Loaded, LocalFiles
<1>2. PICK step \in {"files", "restored", "database only", "put back"} :
        /\ Moves(i, step)
        /\ \/ importing[i].step = "load" /\ step # "put back" /\ (step = "files" => i \in Full)
           \/ importing[i].step = "undo load" /\ step = "put back"
  BY DEF Loaded, AtStep
<1>3. /\ importing[i].step \in Steps /\ importing[i].step # "files"
      /\ step \in Ended \cup Steps /\ step # "not begun"
      /\ step \in Ended <=> step # "files"
  BY <1>2 DEF Steps, Ended
<1>4. /\ i \in Running /\ importing \in [Imports -> ImportState] /\ credentials = "local"
      /\ tables \in [Tables -> Int] /\ roots \in [Roots -> Int] /\ written \in [Imports -> SUBSET Tables]
      /\ i \notin crossed => AloneWith(i)
  BY <1>3, Facts
<1>5. PICK new \in ImportState :
        /\ importing' = [importing EXCEPT ![i] = new] /\ new.step = step
        /\ step \notin Ended => new.env = importing[i].env
  BY <1>2, <1>3, <1>4, MovesState
<1>6. importing'[i].step = step
  BY <1>4, <1>5
<1>7. ASSUME i \notin crossed, importing[i].step = "load" PROVE \A t \in Tables : KeptOrWritten(i, t, Archive(i))
  BY <1>1, <1>4, <1>7 DEF AloneWith, AtStep, Loading
<1>8. ASSUME i \notin crossed, importing[i].step = "undo load" PROVE \A t \in Tables : KeptOrWritten(i, t, importing[i].dump)
  BY <1>1, <1>4, <1>8 DEF AloneWith, AtStep, Loading
<1>9. ASSUME i \notin crossed, step = "files" PROVE AloneWith(i)'
  BY <1>1, <1>2, <1>6, <1>7, <1>9 DEF AloneWith, AtStep, KeptOrWritten, Archive
<1>10. ASSUME i \notin crossed, step # "files" PROVE WholeEnd(i)
  <2>1. CASE importing[i].step = "load"
    BY <1>1, <1>2, <1>4, <1>6, <1>7, <1>10, <2>1 DEF WholeEnd, KeptOrWritten, Archive
  <2>2. CASE importing[i].step = "undo load"
    <3>1. \A r \in Roots : roots[r] # i
      BY <2>2 DEF RestoreInv
    <3> QED
      BY <1>1, <1>2, <1>6, <1>8, <1>10, <2>2, <3>1 DEF WholeEnd, KeptOrWritten
  <2> QED
    BY <1>2, <2>1, <2>2
<1>11. new.step \notin Ended => new.env = importing[i].env
  BY <1>5
<1> QED
  BY <1>1, <1>2, <1>3, <1>4, <1>5, <1>9, <1>10, <1>11, StepOfOne

LEMMA StatementFailsStep ==
  ASSUME RestoreInv, NEW i \in Imports, StatementFails(i) PROVE RestoreInv' /\ Whole
<1>1. UNCHANGED <<tables, roots, credentials, crossed, written>>
  BY DEF StatementFails, LocalFiles
<1>2. CASE importing[i].step \in {"drop", "load"} /\ Rollback(i)
  <2>1. importing[i].step \in Steps
    BY <1>2 DEF Steps
  <2>2. importing \in [Imports -> ImportState]
    BY <2>1, Facts
  <2>3. importing'[i].step = "undo drop" /\ importing'[i].left = Filled(tables)
    BY <1>2, <2>2, ProceedsFields DEF Rollback
  <2>4. AloneWith(i)'
    BY <1>1, <2>3 DEF AloneWith, AtStep, Dropping, Filled
  <2>5. Filled(tables) \in SUBSET Tables /\ importing[i].step \in {"drop", "load", "undo drop"}
    BY <1>2 DEF Filled
  <2> QED
    BY <1>1, <1>2, <2>4, <2>5, ProceedsStep DEF Rollback
<1>3. CASE importing[i].step \in {"undo drop", "undo load"} /\ Moves(i, "broken")
  <2>1. /\ importing[i].step \in Steps /\ importing[i].step # "files"
        /\ "broken" \in Ended /\ "broken" # "not begun"
    BY <1>3 DEF Steps, Ended
  <2>2. /\ i \in Running /\ importing \in [Imports -> ImportState] /\ credentials = "local"
        /\ tables \in [Tables -> Int] /\ roots \in [Roots -> Int] /\ written \in [Imports -> SUBSET Tables]
    BY <2>1, Facts
  <2>3. PICK new \in ImportState : importing' = [importing EXCEPT ![i] = new] /\ new.step = "broken"
    BY <1>3, <2>1, EndsAt
  <2>4. importing'[i].step = "broken"
    BY <2>2, <2>3
  <2>5. \A r \in Roots : roots[r] # i
    BY <1>3 DEF RestoreInv
  <2>6. WholeEnd(i)
    BY <1>1, <2>4, <2>5 DEF WholeEnd
  <2> QED
    BY <1>1, <2>1, <2>2, <2>3, <2>6, StepOfOne
<1> QED
  BY <1>2, <1>3 DEF StatementFails

LEMMA RestoreRootStep ==
  ASSUME RestoreInv, NEW i \in Imports, RestoreRoot(i) PROVE RestoreInv' /\ Whole
<1>1. importing[i].step = "files" /\ UNCHANGED <<tables, crossed, written>>
  BY DEF RestoreRoot, AtStep
<1>2. /\ "files" \in Steps /\ "files" \notin Ended /\ "restored" \in Ended /\ "database only" \in Ended
      /\ "restored" # "not begun" /\ "database only" # "not begun" /\ "files" # "not begun"
  BY DEF Steps, Ended
<1>3. /\ i \in Running /\ importing \in [Imports -> ImportState] /\ credentials = "local"
      /\ importing[i] \in ImportState
      /\ tables \in [Tables -> Int] /\ roots \in [Roots -> Int] /\ written \in [Imports -> SUBSET Tables]
      /\ i \notin crossed => AloneWith(i)
      /\ importing[i].env = PreserveLocalDatabaseEnv(i)
  BY <1>1, <1>2, Facts
<1>4. i \in Full /\ importing[i].env = "local"
  BY <1>1, <1>3 DEF RestoreInv, AtStep, PreserveLocalDatabaseEnv
<1>5. i \notin crossed => \A t \in Tables : KeptOrWritten(i, t, Archive(i))
  BY <1>1, <1>3 DEF AloneWith, AtStep
<1> DEFINE r == RootOrder[importing[i].root]
           further == [importing[i] EXCEPT !.root = @ + 1]
<1>6. /\ credentials' = "local"
      /\ roots' = [roots EXCEPT ![r] = i] \/ roots' = roots \/ roots' = [roots EXCEPT ![r] = Torn]
      /\ \/ importing' = [importing EXCEPT ![i] = further]
         \/ Moves(i, "restored") \/ Moves(i, "database only")
  BY <1>3, <1>4 DEF RestoreRoot, ImportState, LocalFiles
<1>7. roots' \in [Roots -> Int] /\ \A q \in Roots : roots'[q] \in {roots[q], i, Torn}
  <2>1. i \in Int /\ Torn \in Int
    BY ImportNumbers, TornNumber
  <2> QED
    BY <1>3, <1>6, <2>1
<1> HIDE DEF r
<1>8. CASE importing' = [importing EXCEPT ![i] = further]
  <2>1. further \in ImportState /\ further.step = "files" /\ further.env = importing[i].env
    <3>1. importing[i].root \in Int
      BY <1>3 DEF ImportState
    <3>2. importing[i].root + 1 \in Int
      BY <3>1
    <3> QED
      BY <1>1, <1>3, <3>2 DEF ImportState
  <2> HIDE DEF further
  <2>2. importing'[i] = further
    BY <1>3, <1>8
  <2>3. i \notin crossed => AloneWith(i)'
    BY <1>1, <1>5, <2>1, <2>2 DEF AloneWith, AtStep, KeptOrWritten, Archive
  <2>4. further.step \in Ended \cup {"files"} /\ further.step \notin Ended /\ further.step # "not begun"
    BY <1>2, <2>1
  <2> QED
    BY <1>1, <1>3, <1>4, <1>6, <1>7, <1>8, <2>1, <2>3, <2>4, StepOfOne
<1>9. ASSUME NEW step \in {"restored", "database only"}, Moves(i, step) PROVE RestoreInv' /\ Whole
  <2>1. PICK new \in ImportState : importing' = [importing EXCEPT ![i] = new] /\ new.step = step
    <3>1. step \in Ended
      BY <1>2
    <3> QED
      BY <1>9, <3>1, EndsAt
  <2>2. importing'[i].step = step
    BY <1>3, <2>1
  <2>3. i \notin crossed => WholeEnd(i)
    BY <1>1, <1>5, <1>6, <2>2 DEF WholeEnd, KeptOrWritten, Archive
  <2>4. new.step \in Ended /\ new.step # "not begun" /\ new.step # "files"
    BY <1>2, <2>1
  <2> QED
    BY <1>1, <1>3, <1>6, <1>7, <2>1, <2>3, <2>4, StepOfOne
<1> QED
  BY <1>6, <1>8, <1>9

LEMMA WriteTableStep ==
  ASSUME RestoreInv, NEW t \in Tables, WriteTable(t) PROVE RestoreInv' /\ Whole
<1>1. /\ tables[t] # Absent /\ tables' = [tables EXCEPT ![t] = Written]
      /\ written' = [i \in Imports |-> IF i \in Running THEN written[i] \cup {t} ELSE {}]
      /\ UNCHANGED <<importing, crossed, roots, credentials>>
  BY DEF WriteTable, LocalFiles
<1>2. /\ importing \in [Imports -> ImportState] /\ tables \in [Tables -> Int] /\ written \in [Imports -> SUBSET Tables]
  BY DEF RestoreInv, RestoreTypes
<1>3. Running' = Running /\ Written \in Int
  BY <1>1 DEF Running, Written
<1>4. RestoreTypes'
  BY <1>1, <1>2, <1>3 DEF RestoreInv, RestoreTypes
<1>5. ASSUME NEW i \in Running, i \notin crossed PROVE AloneWith(i)'
  <2>1. AloneWith(i) /\ i \in Imports
    BY <1>5 DEF RestoreInv, Running
  <2>2. importing[i].dump \in [Tables -> Int] /\ importing[i].left \subseteq Tables
    BY <1>2, <2>1 DEF ImportState
  <2>3. ASSUME NEW content \in [Tables -> Int], NEW u \in Tables, u # t \/ content[t] # Absent, KeptOrWritten(i, u, content)
        PROVE  tables'[u] = content[u] \/ (u \in written'[i] /\ content[u] # Absent)
    BY <1>1, <1>2, <2>1, <2>3 DEF KeptOrWritten
  <2>4. ASSUME NEW content \in [Tables -> Int], KeptOrWritten(i, t, content) PROVE content[t] # Absent
    BY <1>1, <2>4 DEF KeptOrWritten
  <2>5. ASSUME NEW content \in [Tables -> Int], Loading(i, content)
        PROVE  /\ importing[i].left \subseteq Filled(content)
               /\ \A u \in importing[i].left : tables'[u] = Absent
               /\ \A u \in Tables \ importing[i].left : tables'[u] = content[u] \/ (u \in written'[i] /\ content[u] # Absent)
    BY <1>1, <1>2, <2>2, <2>3, <2>4, <2>5 DEF Loading
  <2>6. AtStep(i, "drop") \/ AtStep(i, "undo drop") => Dropping(i)'
    BY <1>1, <1>2, <2>1 DEF AloneWith, Dropping
  <2>7. AtStep(i, "load") => Loading(i, Archive(i))'
    BY <1>1, <2>1, <2>5, ArchiveContent DEF AloneWith, Loading, KeptOrWritten, Filled, Archive
  <2>8. AtStep(i, "undo load") => Loading(i, importing[i].dump)'
    BY <1>1, <2>1, <2>2, <2>5 DEF AloneWith, Loading, KeptOrWritten, Filled
  <2>9. AtStep(i, "files") => \A u \in Tables : KeptOrWritten(i, u, Archive(i))'
    BY <1>1, <2>1, <2>3, <2>4, ArchiveContent DEF AloneWith, KeptOrWritten, Archive
  <2> QED
    BY <1>1, <2>6, <2>7, <2>8, <2>9 DEF AloneWith, AtStep
<1>6. Whole
  BY <1>1 DEF Whole
<1> QED
  BY <1>1, <1>3, <1>4, <1>5, <1>6 DEF RestoreInv, AtStep
-----------------------------------------------------------------------------
LEMMA RestoreInitially == RestoreInit => RestoreInv
<1> SUFFICES ASSUME RestoreInit PROVE RestoreInv
  OBVIOUS
<1>1. \A i \in Imports : importing[i] = NotBegun /\ importing[i].step = "not begun"
  BY DEF RestoreInit, NotBegun
<1>2. Running = {} /\ credentials = "local"
  BY <1>1 DEF Running, Ended, RestoreInit
<1>3. RestoreTypes
  <2>1. Original \in Int
    BY DEF Original
  <2> QED
    BY <2>1, StepsGoOn DEF RestoreInit, RestoreTypes
<1>4. \A i \in Imports, r \in Roots : roots[r] # i
  <2>1. \A i \in Imports : i # Original
    BY ImportNumbers DEF Original
  <2> QED
    BY <2>1 DEF RestoreInit
<1> QED
  BY <1>1, <1>2, <1>3, <1>4 DEF RestoreInv, AtStep

LEMMA RestoreStep ==
  ASSUME RestoreInv, RestoreNext PROVE RestoreInv' /\ Whole
<1>1. ASSUME NEW i \in Imports,
             \/ BeginImport(i) \/ Reject(i) \/ DumpForRollback(i) \/ Dropped(i) \/ Loaded(i)
             \/ StatementFails(i) \/ RestoreRoot(i)
      PROVE  RestoreInv' /\ Whole
  BY <1>1, BeginImportStep, RejectStep, DumpForRollbackStep, DroppedStep, LoadedStep, StatementFailsStep, RestoreRootStep
<1>2. ASSUME NEW i \in Imports, NEW t \in Tables, DropTable(i, t) \/ LoadTable(i, t) PROVE RestoreInv' /\ Whole
  BY <1>2, DropTableStep, LoadTableStep
<1>3. ASSUME NEW t \in Tables, WriteTable(t) PROVE RestoreInv' /\ Whole
  BY <1>3, WriteTableStep
<1> QED
  BY <1>1, <1>2, <1>3 DEF RestoreNext

LEMMA RestoreStutters ==
  ASSUME RestoreInv, UNCHANGED restoreVars PROVE RestoreInv'
<1>1. /\ tables' = tables /\ roots' = roots /\ credentials' = credentials /\ importing' = importing
      /\ crossed' = crossed /\ written' = written
  BY DEF restoreVars
<1>2. Running' = Running /\ RestoreTypes'
  BY <1>1 DEF Running, RestoreInv, RestoreTypes
<1>3. \A i \in Running : AloneWith(i) => AloneWith(i)'
  BY <1>1 DEF AloneWith, AtStep, Dropping, Loading, KeptOrWritten, Filled, Archive
<1> QED
  BY <1>1, <1>2, <1>3 DEF RestoreInv, AtStep

(* Whatever tables, roots and archives there are and wherever a statement   *)
(* or a root fails, an import that ran alone leaves the tables of one       *)
(* database: its own, or the one it found.                                  *)
THEOREM RestoreWholeEver == RestoreSpec => RestoreWhole
<1>1. RestoreInv /\ [RestoreNext]_restoreVars => RestoreInv'
  BY RestoreStep, RestoreStutters
<1>2. RestoreInv /\ [RestoreNext]_restoreVars =>
        [\A i \in Imports \ crossed : importing[i].step \notin Ended /\ importing'[i].step \in Ended =>
           LET end == importing'[i].step
               whole(content) == \A t \in Tables : tables'[t] = content[t] \/ (t \in written[i] /\ content[t] # Absent)
           IN  /\ end \in {"restored", "database only"} => whole([t \in Tables |-> IF t \in Holds[i] THEN i ELSE Absent])
               /\ end = "put back" => whole(importing[i].dump)
               /\ end \in {"put back", "broken", "rejected"} => \A r \in Roots : roots'[r] # i
               /\ end = "restored" => credentials' = "local"]_restoreVars
  BY RestoreStep DEF Whole, WholeEnd
<1> QED
  BY <1>1, <1>2, RestoreInitially, PTL DEF RestoreSpec, RestoreWhole
=============================================================================
