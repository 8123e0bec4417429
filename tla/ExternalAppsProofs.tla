------------------------- MODULE ExternalAppsProofs --------------------------
(***************************************************************************)
(* Proofs about ExternalApps, for any applications of any kinds, any       *)
(* releases and operations, wherever a step fails and the process dies.    *)
(***************************************************************************)
EXTENDS ExternalApps, SequenceTheorems, TLAPS

Pieces == {"user", "files", "pool", "unit", "running", "db", "cron", "secrets", "hook"}
Statuses == {"none", "off", "on"}
Writes == {WriteRecord("off"), WriteRecord("on"), Save("off"), Save("on")}
Steps ==
  {Put(p) : p \in Pieces} \cup {Drop(p) : p \in Pieces} \cup {Know(r) : r \in Statuses}
  \cup Writes \cup {WriteRecord("none"), Save("none"), Files("out"), Files("in"), Files("back")}
AppState == [record : Statuses, known : Statuses, owns : SUBSET Pieces, version : Nat, running : Nat]
OperationState ==
  [kind : {"none", "install", "delete", "enable", "disable", "update", "undo"}, id : AppIds, plan : Seq(Steps),
   made : SUBSET Pieces, before : AppState, to : Nat]
(* Steps still to come. *)
In(s, plan) == \E i \in 1..Len(plan) : plan[i] = s
(* What an application may own, and a unit that runs has its file. *)
Proper(a, r) == r.owns \subseteq Holdings(a) \cup {"running"} /\ ("running" \in r.owns => "unit" \in r.owns)
(* A plan puts nothing an application of its kind does not have. *)
Sound(a, p) == p \in Seq(Steps) /\ \A q \in Pieces : In(Put(q), p) => q \in Holdings(a) \cup {"running"}
AppTypes ==
  /\ app \in [AppIds -> AppState] /\ operation \in OperationState /\ newest \in Nat /\ operations \in Nat
  /\ halfway \subseteq AppIds /\ leaving \subseteq AppIds /\ stopped \subseteq AppIds
  /\ \A a \in AppIds : Proper(a, app[a])
  /\ Sound(operation.id, operation.plan)

(* The record of a bot is written after its secrets and goes before them. *)
SecretsFirst(plan, r) ==
  \A i \in 1..Len(plan) : plan[i] \in Writes =>
    /\ "secrets" \in r.owns \/ \E j \in 1..(i - 1) : plan[j] = Put("secrets")
    /\ \A j \in 1..(i - 1) : plan[j] # Drop("secrets")
RecordFirst(plan, r) ==
  \A i \in 1..Len(plan) : plan[i] = Drop("secrets") =>
    /\ r.record = "none" \/ \E j \in 1..(i - 1) : plan[j] = WriteRecord("none")
    /\ \A j \in 1..(i - 1) : plan[j] \in Writes => \E k \in j..i : plan[k] = WriteRecord("none")
Readable(r) == r.record # "none" => "secrets" \in r.owns
Guarded(plan, r) == Readable(r) /\ SecretsFirst(plan, r) /\ RecordFirst(plan, r)

(* A bot that is in memory has its secrets, and its files while it is       *)
(* recorded.                                                               *)
Served(a, r) ==
  Template[a] = "bot" => "secrets" \in r.owns /\ (r.record = "none" => "files" \notin r.owns)
Lasting(a) == Holdings(a) \ {"hook", "cron"}
Whole(a, r, w) ==
  /\ r.running = r.version /\ Lasting(a) \subseteq r.owns
  /\ r.record = "on" => w \/ Needs(a) \subseteq r.owns
(* An application no operation runs on; l: its deletion failed on its way,  *)
(* w: a change of its status cut it off.                                    *)
AtRest(a, r, l, w) ==
  /\ Template[a] = "bot" /\ r.record # "none" => "secrets" \in r.owns
  /\ r.known # "none" => Served(a, r)
  /\ ~l => r.known = r.record
  /\ ~l /\ r.known = "none" => r.owns \subseteq {"db", "hook"}
  /\ ~l /\ r.known # "none" => Whole(a, r, w)

Within(p, S) == \A i \in 1..Len(p) : p[i] \in S
First(p, s) == \A i \in 1..Len(p) : p[i] = s => i = 1
Ends(p, s) == \A i \in 1..Len(p) : p[i] = s <=> i = Len(p)
Waits(p, q) == In(Drop(q), p) \/ q \in {"hook", "db"} \/ (q = "running" /\ In(Drop("unit"), p))

Installing(a, r, o) ==
  LET p == o.plan IN
  /\ o.before.known = "none"
  /\ Within(p, {Put(q) : q \in Holdings(a)} \cup {WriteRecord("off"), Know("on"), Save("on")})
  /\ r.owns \subseteq o.made \cup {"hook", "running"}
  /\ \A q \in Holdings(a) : q \in r.owns \/ In(Put(q), p)
  /\ Template[a] = "node" => "running" \in r.owns \/ In(Put("unit"), p)
  /\ In(Put("files"), p) \/ r.running = o.to
  /\ Ends(p, Save("on"))
  /\ p = <<>> => r.record = "on" /\ r.known = "on" /\ r.version = o.to
Withdrawing(r, p) ==
  /\ Within(p, {Drop(q) : q \in Pieces} \cup {Know("none"), WriteRecord("none")})
  /\ \A q \in r.owns : Waits(p, q)
  /\ r.known = "none" \/ In(Know("none"), p)
  /\ r.record = "none" \/ In(WriteRecord("none"), p)
(* Back to what it was: only files, the hook, the cron file and the status  *)
(* may still be away.                                                       *)
Returning(a, r, o, w) ==
  LET p == o.plan IN
  /\ r.record # "none"
  /\ r.known = r.record \/ In(Know(o.before.known), p)
  /\ In(Know(o.before.known), p) => o.before.known = r.record
  /\ Lasting(a) \ {"files"} \subseteq r.owns
  /\ "files" \in r.owns \/ In(Files("back"), p)
  /\ r.running = r.version \/ In(Files("back"), p)
  /\ In(Files("back"), p) => o.before.running = r.version
  /\ r.record = "on" => w \/ /\ Holdings(a) \cap {"hook", "cron"} \subseteq r.owns
                             /\ Template[a] = "node" => "running" \in r.owns \/ In(Put("running"), p)
                             /\ ~In(Drop("hook"), p) /\ ~In(Drop("cron"), p) /\ ~In(Drop("running"), p)
Undoing(a, r, o, l, w) ==
  IF o.before.known = "none"
  THEN Withdrawing(r, o.plan)
  ELSE /\ r.known # "none"
       /\ Served(a, r) /\ (In(Files("back"), o.plan) => r.record # "none")
       /\ Within(o.plan, {Drop("hook"), Drop("cron"), Drop("running"), Put("running"), Know(o.before.known), Files("back")})
       /\ l \/ Returning(a, r, o, w)
FilesFirst(p) == \A i \in 1..Len(p) : p[i] = WriteRecord("none") => \E j \in 1..(i - 1) : p[j] = Drop("files")
Deleting(a, r, o) ==
  LET p == o.plan IN
  /\ o.before.known # "none"
  /\ Within(p, {Drop(q) : q \in Pieces} \cup {Save("off"), Know("none"), WriteRecord("none")})
  /\ \A q \in r.owns : Waits(p, q)
  /\ First(p, Save("off")) /\ (In(Save("off"), p) => In(WriteRecord("none"), p))
  /\ r.record = "none" \/ In(WriteRecord("none"), p)
  /\ Ends(p, Know("none")) /\ (p = <<>> <=> r.known = "none")
  /\ Template[a] = "bot" =>
       /\ IF In(Drop("secrets"), p) THEN "secrets" \in r.owns ELSE Len(p) <= 1
       /\ \A i \in 1..Len(p) : p[i] = Drop("secrets") => i = Len(p) - 1
       /\ "files" \notin r.owns \/ (r.record # "none" /\ FilesFirst(p))
Enabling(a, r, o, l, w) ==
  LET p == o.plan IN
  /\ o.before.known # "none" /\ r.known # "none"
  /\ Served(a, r)
  /\ Within(p, {Know("on"), Put("hook"), Put("cron"), Put("running"), Save("on")})
  /\ Template[a] = "bot" => ~In(Put("running"), p)
  /\ Ends(p, Save("on"))
  /\ l \/ /\ r.running = r.version /\ Lasting(a) \subseteq r.owns
          /\ \A q \in Needs(a) : q \in r.owns \/ In(Put(q), p)
          /\ r.record = "on" => w \/ Needs(a) \subseteq r.owns
          /\ o.before.record = o.before.known
          /\ IF p = <<>> THEN r.record = "on" /\ r.known = "on"
             ELSE r.record = o.before.record /\ (Template[a] = "bot" \/ (r.known = o.before.known /\ ~In(Know("on"), p)))
Disabling(a, r, o, l, w) ==
  LET p == o.plan IN
  /\ o.before.known # "none" /\ r.known # "none"
  /\ Served(a, r)
  /\ Within(p, {Drop("running"), Drop("hook"), Drop("cron"), Save("off")})
  /\ (In(Drop("hook"), p) \/ In(Drop("cron"), p)) =>
       First(p, Save("off")) /\ (r.record = "off" \/ In(Save("off"), p))
  /\ First(p, Drop("running")) /\ (In(Drop("running"), p) => In(Save("off"), p))
  /\ l \/ /\ r.known = r.record /\ r.running = r.version /\ Lasting(a) \subseteq r.owns
          /\ r.record = "on" => w \/ \A q \in Needs(a) :
               q \in r.owns \/ (q = "running" /\ In(Save("off"), p) /\ ~In(Drop("running"), p))
Updating(a, r, o, l, w) ==
  LET p == o.plan IN
  /\ o.before.known # "none" /\ r.known # "none"
  /\ Served(a, r)
  /\ Template[a] = "bot"
  /\ Within(p, {Put("hook"), Save(o.before.record), Files("out"), Files("in")})
  /\ Ends(p, Save(o.before.record)) /\ First(p, Files("out"))
  /\ r.record = o.before.record /\ r.record # "none"
  /\ l \/ /\ r.known = r.record
          /\ Lasting(a) \ {"files"} \subseteq r.owns
          /\ r.record = "on" => w \/ Holdings(a) \ {"files"} \subseteq r.owns
          /\ In(Files("in"), p) \/ ("files" \in r.owns /\ r.running = o.to)
          /\ r.version = IF p = <<>> THEN o.to ELSE o.before.version
          /\ o.before.running = o.before.version
          /\ In(Files("out"), p) => In(Files("in"), p) /\ r.running = o.before.running /\ "files" \in r.owns
Underway(a, r, o, l, w) ==
  /\ Template[a] = "bot" => Guarded(o.plan, r)
  /\ o.kind = "install" => Installing(a, r, o)
  /\ o.kind = "undo" => Undoing(a, r, o, l, w)
  /\ o.kind = "delete" => Deleting(a, r, o)
  /\ o.kind = "enable" => Enabling(a, r, o, l, w)
  /\ o.kind = "disable" => Disabling(a, r, o, l, w)
  /\ o.kind = "update" => Updating(a, r, o, l, w)
AppInv ==
  /\ AppTypes
  /\ \A a \in AppIds \ halfway :
       IF operation.kind # "none" /\ operation.id = a
       THEN Underway(a, app[a], operation, a \in leaving, a \in stopped)
       ELSE AtRest(a, app[a], a \in leaving, a \in stopped)
-----------------------------------------------------------------------------
(* What a step does *)

Recording(s) == s \in Writes \cup {WriteRecord("none"), Save("none")}
Effect(r, s, t, o) ==
  /\ t \in AppState
  /\ \A q \in Pieces : q \in t.owns <=>
       \/ s = Put(q)
       \/ q = "running" /\ s = Put("unit")
       \/ q = "files" /\ s \in {Files("in"), Files("back")}
       \/ /\ q \in r.owns /\ s # Drop(q)
          /\ ~(q = "running" /\ s = Drop("unit")) /\ ~(q = "files" /\ s = Files("out"))
  /\ \A x \in Statuses : s \in {WriteRecord(x), Save(x)} => t.record = x
  /\ ~Recording(s) => t.record = r.record /\ t.version = r.version
  /\ \A x \in Statuses : s \in {Know(x), Save(x)} => t.known = x
  /\ (\A x \in Statuses : s \notin {Know(x), Save(x)}) => t.known = r.known
  /\ Recording(s) => t.version = IF o.kind \in {"install", "update"} THEN o.to ELSE r.version
  /\ t.running = IF s \in {Put("files"), Files("in")} THEN o.to
                  ELSE IF s = Files("back") THEN o.before.running ELSE r.running

LEMMA Effects == ASSUME AppTypes, NEW r \in AppState, NEW s \in Steps PROVE Effect(r, s, Done(r, s), operation)
<1> DEFINE t == Done(r, s)
<1>0. operation.to \in Nat /\ operation.before.running \in Nat
  BY DEF AppTypes, OperationState, AppState
<1>1. r.owns \subseteq Pieces /\ r.record \in Statuses /\ r.known \in Statuses /\ r.version \in Nat /\ r.running \in Nat
  BY DEF AppState
<1>2. CASE \E p \in Pieces : s = Put(p)
  <2>1. PICK p \in Pieces : s = Put(p)
    BY <1>2
  <2>2. s[1] = "put" /\ s[2] = p /\ (s = Put("files") <=> p = "files") /\ s \notin {Files("in"), Files("back"), Files("out")}
    BY <2>1 DEF Put, Files
  <2>3. /\ ~Recording(s)
        /\ \A x \in Statuses : s \notin {WriteRecord(x), Know(x), Save(x)}
        /\ \A q \in Pieces : s # Drop(q)
        /\ \A q \in Pieces : s = Put(q) <=> q = p
    BY <2>1 DEF Recording, Writes, Put, Drop, Know, Save, WriteRecord
  <2>4. /\ t.owns = r.owns \cup Owning(p) /\ t.record = r.record /\ t.known = r.known /\ t.version = r.version
        /\ t.running = IF p = "files" THEN operation.to ELSE r.running
    BY <2>2 DEF Done, Gained, Lost
  <2>5. Owning(p) \subseteq Pieces
    BY DEF Owning, Pieces
  <2>6. t \in AppState
    BY <2>2, <2>5, <1>0, <1>1 DEF Done, Gained, Lost, AppState
  <2>7. \A q \in Pieces : q \in t.owns <=> s = Put(q) \/ (q = "running" /\ s = Put("unit")) \/ q \in r.owns
    BY <2>3, <2>4 DEF Owning, Pieces
  <2> HIDE DEF t
  <2>8. Effect(r, s, t, operation)
    BY <2>2, <2>3, <2>4, <2>6, <2>7 DEF Effect, Pieces
  <2> QED
    BY <2>8 DEF t
<1>3. CASE \E p \in Pieces : s = Drop(p)
  BY <1>3, <1>0, <1>1 DEF Effect, AppState, Done, Gained, Lost, Owning, Recording, Pieces, Statuses, Writes, Put, Drop, Know, Save, WriteRecord, Files
<1>4. CASE \E x \in Statuses : s \in {WriteRecord(x), Know(x), Save(x)}
  BY <1>4, <1>0, <1>1 DEF Effect, AppState, Done, Gained, Lost, Owning, Recording, Pieces, Statuses, Writes, Put, Drop, Know, Save, WriteRecord, Files
<1>5. CASE s \in {Files("out"), Files("in"), Files("back")}
  BY <1>5, <1>0, <1>1 DEF Effect, AppState, Done, Gained, Lost, Owning, Recording, Pieces, Statuses, Writes, Put, Drop, Know, Save, WriteRecord, Files
<1> QED
  BY <1>2, <1>3, <1>4, <1>5 DEF Steps, Writes, Statuses

Advance(o, n) ==
  /\ o \in OperationState /\ n \in OperationState /\ o.plan # <<>>
  /\ n.kind = o.kind /\ n.id = o.id /\ n.before = o.before /\ n.to = o.to
  /\ n.plan = Tail(o.plan) /\ n.made = o.made \cup Marking(Head(o.plan))

LEMMA Later ==
  ASSUME NEW p \in Seq(Steps), p # <<>>
  PROVE  /\ Head(p) \in Steps /\ Head(p) = p[1] /\ Tail(p) \in Seq(Steps)
         /\ Len(p) \in Nat /\ Len(p) > 0 /\ Len(Tail(p)) = Len(p) - 1
         /\ \A i \in 1..Len(Tail(p)) : Tail(p)[i] = p[i + 1]
         /\ Tail(p) = <<>> <=> Len(p) = 1
<1>1. Len(p) \in Nat /\ Len(p) > 0
  OBVIOUS
<1>2. Tail(p) \in Seq(Steps) /\ Len(Tail(p)) = Len(p) - 1
  BY <1>1
<1>3. Head(p) = p[1] /\ p[1] \in Steps
  BY <1>1
<1>4. \A i \in 1..Len(Tail(p)) : Tail(p)[i] = p[i + 1]
  BY <1>1, <1>2
<1>5. Tail(p) = <<>> <=> Len(p) = 1
  <2>1. Tail(p) # <<>> => Len(Tail(p)) \in Nat \ {0}
    BY <1>2, EmptySeq, Zenon
  <2>2. Tail(p) = <<>> => Len(Tail(p)) = 0
    BY EmptySeq, Zenon
  <2> QED
    BY <1>1, <1>2, <2>1, <2>2, SMT
<1> QED
  BY <1>1, <1>2, <1>3, <1>4, <1>5

LEMMA StillIn == ASSUME NEW p \in Seq(Steps), p # <<>>, NEW s PROVE In(s, p) <=> s = Head(p) \/ In(s, Tail(p))
<1>1. In(s, Tail(p)) => In(s, p)
  BY Later DEF In
<1>2. In(s, p) /\ s # Head(p) => In(s, Tail(p))
  <2> SUFFICES ASSUME NEW i \in 1..Len(p), p[i] = s, s # Head(p) PROVE In(s, Tail(p))
    BY DEF In
  <2>1. i - 1 \in 1..Len(Tail(p)) /\ Tail(p)[i - 1] = s
    BY Later
  <2> QED
    BY <2>1 DEF In
<1>3. In(Head(p), p)
  BY Later DEF In
<1> QED
  BY <1>1, <1>2, <1>3

LEMMA StillGuarded ==
  ASSUME NEW p \in Seq(Steps), p # <<>>, NEW r \in AppState, NEW t, NEW o, Effect(r, Head(p), t, o), Guarded(p, r)
  PROVE  Guarded(Tail(p), t)
<1> DEFINE h == Head(p)
           q == Tail(p)
<1>0. /\ h = p[1] /\ h \in Steps /\ Len(p) \in Nat /\ Len(p) > 0 /\ Len(q) = Len(p) - 1
      /\ \A i \in 1..Len(q) : q[i] = p[i + 1]
  BY Later
<1> HIDE DEF h, q
<1>1. /\ h = Put("secrets") => "secrets" \in t.owns
      /\ h # Drop("secrets") /\ "secrets" \in r.owns => "secrets" \in t.owns
      /\ h = WriteRecord("none") => t.record = "none"
      /\ h \notin Writes /\ r.record = "none" => t.record = "none"
      /\ t.record # "none" => r.record # "none" \/ h \in Writes
  BY <1>0 DEF Effect, Pieces, Statuses, Recording, h, Writes, Put, Drop, WriteRecord, Save
<1>2. Readable(t)
  <2>1. h \in Writes => "secrets" \in r.owns
    BY <1>0 DEF Guarded, SecretsFirst
  <2>2. h = Drop("secrets") => t.record = "none"
    <3>1. ASSUME h = Drop("secrets") PROVE r.record = "none"
      <4>1. 1 \in 1..Len(p) /\ p[1] = Drop("secrets")
        BY <3>1, <1>0
      <4>2. r.record = "none" \/ \E j \in 1..(1 - 1) : p[j] = WriteRecord("none")
        BY <4>1 DEF Guarded, RecordFirst
      <4> QED
        BY <4>2
    <3>2. h = Drop("secrets") => h \notin Writes
      BY DEF Writes, Drop, WriteRecord, Save
    <3> QED
      BY <3>1, <3>2, <1>1
  <2>3. h \in Writes => h # Drop("secrets")
    BY DEF Writes, Drop, WriteRecord, Save
  <2> QED
    BY <2>1, <2>2, <2>3, <1>1 DEF Guarded, Readable
<1>3. SecretsFirst(q, t)
  <2> SUFFICES ASSUME NEW i \in 1..Len(q), q[i] \in Writes
               PROVE  /\ "secrets" \in t.owns \/ \E j \in 1..(i - 1) : q[j] = Put("secrets")
                      /\ \A j \in 1..(i - 1) : q[j] # Drop("secrets")
    BY DEF SecretsFirst
  <2>1. i + 1 \in 1..Len(p) /\ p[i + 1] \in Writes
    BY <1>0
  <2>2. \A j \in 1..i : p[j] # Drop("secrets")
    BY <2>1 DEF Guarded, SecretsFirst
  <2>3. "secrets" \in r.owns \/ \E j \in 1..i : p[j] = Put("secrets")
    BY <2>1 DEF Guarded, SecretsFirst
  <2>4. h # Drop("secrets")
    BY <2>2, <1>0
  <2>5. \A j \in 1..(i - 1) : q[j] # Drop("secrets")
    BY <2>2, <1>0
  <2>6. ASSUME NEW j \in 1..i, p[j] = Put("secrets") PROVE "secrets" \in t.owns \/ \E k \in 1..(i - 1) : q[k] = Put("secrets")
    <3>1. CASE j = 1
      BY <3>1, <2>6, <1>0, <1>1
    <3>2. CASE j > 1
      <4>1. j - 1 \in 1..(i - 1) /\ q[j - 1] = Put("secrets")
        BY <3>2, <2>6, <1>0
      <4> QED
        BY <4>1
    <3> QED
      BY <3>1, <3>2
  <2> QED
    BY <2>3, <2>4, <2>5, <2>6, <1>1
<1>4. RecordFirst(q, t)
  <2> SUFFICES ASSUME NEW i \in 1..Len(q), q[i] = Drop("secrets")
               PROVE  /\ t.record = "none" \/ \E j \in 1..(i - 1) : q[j] = WriteRecord("none")
                      /\ \A j \in 1..(i - 1) : q[j] \in Writes => \E k \in j..i : q[k] = WriteRecord("none")
    BY DEF RecordFirst
  <2>1. i + 1 \in 1..Len(p) /\ p[i + 1] = Drop("secrets")
    BY <1>0
  <2>2. r.record = "none" \/ \E j \in 1..i : p[j] = WriteRecord("none")
    BY <2>1 DEF Guarded, RecordFirst
  <2>3. \A j \in 1..i : p[j] \in Writes => \E k \in j..(i + 1) : p[k] = WriteRecord("none")
    BY <2>1 DEF Guarded, RecordFirst
  <2>4. ASSUME NEW j \in 1..i, NEW k \in j..(i + 1), p[k] = WriteRecord("none"), k > 1
        PROVE  k - 1 \in 1..(i - 1) /\ q[k - 1] = WriteRecord("none")
    <3>1. k # i + 1
      BY <2>1, <2>4 DEF Drop, WriteRecord
    <3> QED
      BY <3>1, <2>4, <1>0
  <2>5. ASSUME NEW j \in 1..(i - 1), q[j] \in Writes PROVE \E k \in j..i : q[k] = WriteRecord("none")
    <3>1. j + 1 \in 1..i /\ p[j + 1] \in Writes
      BY <2>5, <1>0
    <3>2. PICK k \in (j + 1)..(i + 1) : p[k] = WriteRecord("none")
      BY <3>1, <2>3
    <3>3. k - 1 \in 1..(i - 1) /\ q[k - 1] = WriteRecord("none")
      BY <3>1, <3>2, <2>4
    <3>4. k - 1 \in j..i
      BY <3>2
    <3> QED
      BY <3>3, <3>4
  <2>6. t.record = "none" \/ \E j \in 1..(i - 1) : q[j] = WriteRecord("none")
    <3>1. CASE \E j \in 2..i : p[j] = WriteRecord("none")
      BY <3>1, <2>4
    <3>2. CASE p[1] = WriteRecord("none")
      BY <3>2, <1>0, <1>1
    <3>3. CASE h \in Writes
      <4>1. PICK k \in 1..(i + 1) : p[k] = WriteRecord("none")
        BY <3>3, <2>3, <1>0
      <4>2. h # WriteRecord("none")
        BY <3>3 DEF Writes, WriteRecord, Save
      <4> QED
        <5>1. k > 1
          BY <4>1, <4>2, <1>0
        <5>2. 1 \in 1..i
          BY <1>0
        <5> QED
          BY <4>1, <5>1, <5>2, <2>4
    <3>4. CASE r.record = "none" /\ h \notin Writes
      BY <3>4, <1>1
    <3> QED
      BY <2>2, <3>1, <3>2, <3>3, <3>4
  <2> QED
    BY <2>5, <2>6
<1> QED
  BY <1>2, <1>3, <1>4 DEF Guarded, q

(* What is said of a plan is said of the rest of it. *)
Continues(p, q, h) ==
  /\ h \in Steps /\ q \in Seq(Steps) /\ Len(q) \in Nat
  /\ (q = <<>> <=> Len(q) = 0)
  /\ \A s : In(s, p) <=> s = h \/ In(s, q)
  /\ \A S : Within(p, S) => h \in S /\ Within(q, S)
  /\ \A s : First(p, s) => ~In(s, q) /\ First(q, s)
  /\ \A s : Ends(p, s) => Ends(q, s) /\ (h = s <=> q = <<>>)

LEMMA Still == ASSUME NEW p \in Seq(Steps), p # <<>> PROVE Continues(p, Tail(p), Head(p))
<1> DEFINE h == Head(p)
           q == Tail(p)
<1>1. /\ h \in Steps /\ h = p[1] /\ q \in Seq(Steps)
      /\ Len(p) \in Nat /\ Len(p) > 0 /\ Len(q) = Len(p) - 1
      /\ \A i \in 1..Len(q) : q[i] = p[i + 1]
      /\ q = <<>> <=> Len(p) = 1
  BY Later
<1>2. \A s : In(s, p) <=> s = h \/ In(s, q)
  BY StillIn
<1> HIDE DEF h, q
<1>3. ASSUME NEW S, Within(p, S) PROVE h \in S /\ Within(q, S)
  BY <1>1, <1>3 DEF Within
<1>4. ASSUME NEW s, First(p, s) PROVE ~In(s, q) /\ First(q, s)
  <2>1. \A i \in 1..Len(q) : q[i] # s
    BY <1>1, <1>4 DEF First
  <2> QED
    BY <2>1 DEF First, In
<1>5. ASSUME NEW s, Ends(p, s) PROVE Ends(q, s) /\ (h = s <=> q = <<>>)
  <2>1. ASSUME NEW i \in 1..Len(q) PROVE q[i] = s <=> i = Len(q)
    <3>1. i + 1 \in 1..Len(p) /\ q[i] = p[i + 1]
      BY <1>1
    <3>2. p[i + 1] = s <=> i + 1 = Len(p)
      BY <3>1, <1>5 DEF Ends
    <3> QED
      BY <3>1, <3>2, <1>1
  <2>2. h = s <=> Len(p) = 1
    BY <1>1, <1>5 DEF Ends
  <2> QED
    BY <2>1, <2>2, <1>1 DEF Ends
<1>6. Len(q) \in Nat /\ (q = <<>> <=> Len(q) = 0)
  BY <1>1
<1> QED
  BY <1>1, <1>2, <1>3, <1>4, <1>5, <1>6 DEF Continues, h, q

LEMMA Belongs ==
  ASSUME NEW a \in AppIds
  PROVE  /\ Holdings(a) \subseteq Pieces \ {"running"} /\ "files" \in Holdings(a)
         /\ Template[a] # "bot" => Holdings(a) \cap {"hook", "cron", "secrets"} = {}
         /\ Template[a] = "bot" => Holdings(a) = Pieces \ {"running", "unit"}
<1>1. Template[a] \in {"static", "php", "node", "bot"}
  BY AppAssumption
<1> QED
  BY <1>1 DEF Holdings, Pieces

LEMMA Needed ==
  ASSUME NEW a \in AppIds
  PROVE  /\ Needs(a) \subseteq Holdings(a) \cup {"running"} /\ Holdings(a) \subseteq Needs(a) /\ Needs(a) \subseteq Pieces
         /\ "running" \in Needs(a) <=> Template[a] = "node"
         /\ Template[a] = "node" => "unit" \in Holdings(a)
         /\ Needs(a) \ Switched = Lasting(a)
<1>1. Needs(a) = Holdings(a) \cup (IF Template[a] = "node" THEN {"running"} ELSE {})
  BY DEF Needs
<1>2. Template[a] = "node" => "unit" \in Holdings(a)
  BY DEF Holdings
<1> QED
  BY <1>1, <1>2, Belongs DEF Switched, Lasting, Pieces

LEMMA InstallingStep ==
  ASSUME NEW a \in AppIds, NEW r \in AppState, NEW t, NEW o, NEW n, Advance(o, n), Effect(r, Head(o.plan), t, o),
         o.kind = "install", Proper(a, r), Installing(a, r, o)
  PROVE  Installing(a, t, n)
<1> DEFINE h == Head(o.plan)
           p == o.plan
           q == n.plan
<1>1. Continues(p, q, h)
  BY Still DEF Advance, OperationState
<1> HIDE DEF h, p, q
<1>2. /\ h \in {Put(x) : x \in Holdings(a)} \cup {WriteRecord("off"), Know("on"), Save("on")}
      /\ Within(q, {Put(x) : x \in Holdings(a)} \cup {WriteRecord("off"), Know("on"), Save("on")})
  BY <1>1 DEF Continues, Installing, p
<1>3. Ends(q, Save("on")) /\ (h = Save("on") <=> q = <<>>)
  BY <1>1 DEF Continues, Installing, p
<1>4. n.before.known = "none" /\ n.to = o.to /\ n.made = o.made \cup Marking(h)
  BY DEF Installing, Advance, h
<1>5. Effect(r, h, t, o) /\ o.kind = "install"
  BY DEF h
<1>6. \A x \in Pieces : In(Put(x), p) <=> h = Put(x) \/ In(Put(x), q)
  BY <1>1 DEF Continues
<1>7. /\ \A x \in Pieces : h # Drop(x)
      /\ h \notin {Files("out"), Files("in"), Files("back")}
  BY <1>2 DEF Put, Drop, WriteRecord, Know, Save, Files
<1>8. \A x \in Pieces : h = Put(x) => x \in n.made
  BY <1>4 DEF Marking, Put
<1>9. t.owns \subseteq n.made \cup {"hook", "running"}
  BY <1>4, <1>5, <1>7, <1>8 DEF Effect, Installing, AppState
<1>10. \A x \in Holdings(a) : x \in t.owns \/ In(Put(x), q)
  BY <1>5, <1>6, <1>7, Belongs DEF Effect, Installing, p
<1>11. In(Put("files"), q) \/ t.running = n.to
  BY <1>4, <1>5, <1>6, <1>7 DEF Effect, Installing, p, Pieces
<1>12. q = <<>> => t.record = "on" /\ t.known = "on" /\ t.version = n.to
  BY <1>3, <1>4, <1>5 DEF Effect, Recording, Writes, Statuses
<1>13. Template[a] = "node" => "running" \in t.owns \/ In(Put("unit"), q)
  BY <1>5, <1>6, <1>7 DEF Effect, Installing, p, Pieces
<1> QED
  BY <1>2, <1>3, <1>4, <1>9, <1>10, <1>11, <1>12, <1>13 DEF Installing, q

LEMMA WithdrawingStep ==
  ASSUME NEW p \in Seq(Steps), p # <<>>, NEW r \in AppState, NEW t, NEW o, Effect(r, Head(p), t, o), Withdrawing(r, p)
  PROVE  Withdrawing(t, Tail(p))
<1> DEFINE h == Head(p)
           q == Tail(p)
<1>1. Continues(p, q, h)
  BY Still
<1>2. Effect(r, h, t, o)
  OBVIOUS
<1> HIDE DEF h, q
<1>3. /\ h \in {Drop(x) : x \in Pieces} \cup {Know("none"), WriteRecord("none")}
      /\ Within(q, {Drop(x) : x \in Pieces} \cup {Know("none"), WriteRecord("none")})
  BY <1>1 DEF Continues, Withdrawing
<1>4. \A s : In(s, p) <=> s = h \/ In(s, q)
  BY <1>1 DEF Continues
<1>5. /\ \A x \in Pieces : h # Put(x)
      /\ h \notin {Files("out"), Files("in"), Files("back")} \cup Writes \cup {Save("none"), Know("off"), Know("on")}
  BY <1>3 DEF Put, Drop, WriteRecord, Know, Save, Files, Writes
<1>6. \A x \in t.owns : Waits(q, x)
  BY <1>2, <1>4, <1>5 DEF Effect, Withdrawing, Waits, AppState, Pieces
<1>7. t.known = "none" \/ In(Know("none"), q)
  BY <1>2, <1>4, <1>5 DEF Effect, Withdrawing, Statuses, Writes, Save
<1>8. t.record = "none" \/ In(WriteRecord("none"), q)
  BY <1>2, <1>4, <1>5 DEF Effect, Withdrawing, Statuses, Recording
<1> QED
  BY <1>3, <1>6, <1>7, <1>8 DEF Withdrawing, q

LEMMA DeletingStep ==
  ASSUME NEW a \in AppIds, NEW r \in AppState, NEW t, NEW o, NEW n, Advance(o, n), Effect(r, Head(o.plan), t, o),
         o.kind = "delete", Deleting(a, r, o)
  PROVE  Deleting(a, t, n)
<1> DEFINE h == Head(o.plan)
           p == o.plan
           q == n.plan
           S == {Drop(x) : x \in Pieces} \cup {Save("off"), Know("none"), WriteRecord("none")}
<1>1. Continues(p, q, h)
  BY Still DEF Advance, OperationState
<1>2. Effect(r, h, t, o) /\ n.before = o.before
  BY DEF Advance
<1>3. /\ h = p[1] /\ Len(p) \in Nat /\ Len(p) > 0 /\ Len(q) = Len(p) - 1
      /\ \A i \in 1..Len(q) : q[i] = p[i + 1]
  BY Later DEF Advance, OperationState
<1> HIDE DEF h, p, q
<1>4. h \in S /\ Within(q, S)
  BY <1>1 DEF Continues, Deleting, p
<1> HIDE DEF S
<1>5. /\ \A s : In(s, p) <=> s = h \/ In(s, q)
      /\ Ends(q, Know("none")) /\ (h = Know("none") <=> q = <<>>)
      /\ First(q, Save("off")) /\ ~In(Save("off"), q)
  BY <1>1 DEF Continues, Deleting, p
<1>6. /\ \A x \in Pieces : h # Put(x)
      /\ h \notin {Files("out"), Files("in"), Files("back"), Save("none"), Know("off"), Know("on"), Save("on"),
                   WriteRecord("off"), WriteRecord("on")}
  BY <1>4 DEF S, Put, Drop, WriteRecord, Know, Save, Files
<1>7. \A x \in t.owns : Waits(q, x)
  BY <1>2, <1>5, <1>6 DEF Effect, Deleting, Waits, AppState, Pieces, p
<1>8. t.record = "none" \/ In(WriteRecord("none"), q)
  <2>1. Save("off") # WriteRecord("none")
    BY DEF Save, WriteRecord
  <2>2. In(WriteRecord("none"), p) \/ (r.record = "none" /\ h # Save("off"))
    BY <1>5 DEF Deleting, p
  <2>3. h = WriteRecord("none") => t.record = "none"
    BY <1>2 DEF Effect, Statuses
  <2>4. h \notin {WriteRecord("none"), Save("off")} => t.record = r.record
    BY <1>2, <1>6 DEF Effect, Statuses, Recording, Writes
  <2> QED
    BY <1>5, <2>1, <2>2, <2>3, <2>4
<1>9. q = <<>> <=> t.known = "none"
  <2>1. r.known # "none"
    BY DEF Deleting, Advance
  <2>2. h = Know("none") => t.known = "none"
    BY <1>2 DEF Effect, Statuses
  <2>3. h = Save("off") => t.known = "off"
    BY <1>2 DEF Effect, Statuses
  <2>4. h \notin {Know("none"), Save("off")} => t.known = r.known
    BY <1>2, <1>6 DEF Effect, Statuses
  <2> QED
    BY <1>5, <2>1, <2>2, <2>3, <2>4
<1>10. ASSUME Template[a] = "bot"
       PROVE  /\ IF In(Drop("secrets"), q) THEN "secrets" \in t.owns ELSE Len(q) <= 1
              /\ \A i \in 1..Len(q) : q[i] = Drop("secrets") => i = Len(q) - 1
              /\ "files" \notin t.owns \/ (t.record # "none" /\ FilesFirst(q))
  <2>1. /\ IF In(Drop("secrets"), p) THEN "secrets" \in r.owns ELSE Len(p) <= 1
        /\ \A i \in 1..Len(p) : p[i] = Drop("secrets") => i = Len(p) - 1
    BY <1>10 DEF Deleting, p
  <2>2. \A i \in 1..Len(q) : q[i] = Drop("secrets") => i = Len(q) - 1
    <3> SUFFICES ASSUME NEW i \in 1..Len(q), q[i] = Drop("secrets") PROVE i = Len(q) - 1
      OBVIOUS
    <3>1. i + 1 \in 1..Len(p) /\ p[i + 1] = Drop("secrets")
      BY <1>3
    <3> QED
      BY <3>1, <2>1, <1>3
  <2>3. h = Drop("secrets") => Len(q) <= 1
    <3>1. 1 \in 1..Len(p) /\ p[1] = h
      BY <1>3
    <3>2. p[1] = Drop("secrets") => 1 = Len(p) - 1
      BY <3>1, <2>1
    <3> QED
      BY <3>1, <3>2, <1>3
  <2>4. In(Drop("secrets"), q) => h # Drop("secrets")
    <3> SUFFICES ASSUME NEW i \in 1..Len(q), q[i] = Drop("secrets"), h = Drop("secrets") PROVE FALSE
      BY DEF In
    <3> QED
      BY <2>1, <2>2, <1>3
  <2>5. h # Drop("secrets") /\ "secrets" \in r.owns => "secrets" \in t.owns
    BY <1>2 DEF Effect, Pieces
  <2>6. "files" \notin r.owns => "files" \notin t.owns
    BY <1>2, <1>6 DEF Effect, Pieces
  <2>7. ASSUME "files" \in r.owns, r.record # "none", FilesFirst(p), h # Drop("files")
        PROVE  t.record # "none" /\ FilesFirst(q)
    <3>1. h # WriteRecord("none")
      <4>1. 1 \in 1..Len(p) /\ p[1] = h
        BY <1>3
      <4>2. p[1] = WriteRecord("none") => \E j \in 1..(1 - 1) : p[j] = Drop("files")
        BY <4>1, <2>7 DEF FilesFirst
      <4> QED
        BY <4>1, <4>2
    <3>2. t.record # "none"
      BY <3>1, <2>7, <1>2, <1>6 DEF Effect, Recording, Writes, Statuses
    <3>3. ASSUME NEW i \in 1..Len(q), q[i] = WriteRecord("none") PROVE \E j \in 1..(i - 1) : q[j] = Drop("files")
      <4>1. i + 1 \in 1..Len(p) /\ p[i + 1] = WriteRecord("none")
        BY <3>3, <1>3
      <4>2. PICK j \in 1..i : p[j] = Drop("files")
        BY <4>1, <2>7 DEF FilesFirst
      <4>3. j # 1
        BY <4>2, <2>7, <1>3
      <4>4. j - 1 \in 1..(i - 1) /\ q[j - 1] = Drop("files")
        BY <4>2, <4>3, <1>3
      <4> QED
        BY <4>4
    <3> QED
      BY <3>2, <3>3 DEF FilesFirst
  <2>8. h = Drop("files") => "files" \notin t.owns
    BY <1>2, <1>6 DEF Effect, Pieces, Put, Drop, Files
  <2>9. "files" \notin t.owns \/ (t.record # "none" /\ FilesFirst(q))
    BY <2>6, <2>7, <2>8, <1>10 DEF Deleting, p
  <2> QED
    BY <2>1, <2>2, <2>3, <2>4, <2>5, <2>9, <1>3, <1>5
<1> QED
  BY <1>2, <1>4, <1>5, <1>7, <1>8, <1>9, <1>10 DEF Deleting, q, S

LEMMA EnablingStep ==
  ASSUME NEW a \in AppIds, NEW l, NEW w, NEW r \in AppState, NEW t, NEW o, NEW n, Advance(o, n), Effect(r, Head(o.plan), t, o),
         o.kind = "enable", Enabling(a, r, o, l, w)
  PROVE  Enabling(a, t, n, l, w)
<1> DEFINE h == Head(o.plan)
           p == o.plan
           q == n.plan
           S == {Know("on"), Put("hook"), Put("cron"), Put("running"), Save("on")}
<1>1. Continues(p, q, h)
  BY Still DEF Advance, OperationState
<1>2. Effect(r, h, t, o) /\ n.before = o.before /\ o.kind = "enable" /\ p # <<>>
  BY DEF Advance
<1> HIDE DEF h, p, q
<1>3. h \in S /\ Within(q, S)
  BY <1>1 DEF Continues, Enabling, p
<1> HIDE DEF S
<1>4. /\ \A s : In(s, p) <=> s = h \/ In(s, q)
      /\ Ends(q, Save("on")) /\ (h = Save("on") <=> q = <<>>)
  BY <1>1 DEF Continues, Enabling, p
<1>5. /\ \A x \in Pieces : h # Drop(x)
      /\ h \notin {Put("files"), Files("out"), Files("in"), Files("back")}
      /\ \A x \in Statuses : h \in {WriteRecord(x), Know(x), Save(x)} => x = "on" /\ h \in {Know("on"), Save("on")}
      /\ Recording(h) <=> h = Save("on")
  BY <1>3 DEF S, Put, Drop, WriteRecord, Know, Save, Files, Recording, Writes
<1>6. t.running = r.running /\ t.version = r.version /\ r.owns \subseteq t.owns
  <2>1. t.running = r.running
    BY <1>2, <1>5 DEF Effect
  <2>2. t.version = r.version
    BY <1>2, <1>5 DEF Effect
  <2>3. r.owns \subseteq t.owns
    BY <1>2, <1>5 DEF Effect, AppState, Pieces
  <2> QED
    BY <2>1, <2>2, <2>3
<1>7. \A x \in Needs(a) : (x \in r.owns \/ In(Put(x), p)) => (x \in t.owns \/ In(Put(x), q))
  BY <1>2, <1>4, <1>6, Needed DEF Effect
<1>8. IF h = Save("on") THEN t.record = "on" /\ t.known = "on"
      ELSE t.record = r.record /\ (t.known = "on" \/ (t.known = r.known))
  BY <1>2, <1>5 DEF Effect, Statuses
<1>9. h \notin {Save("on"), Know("on")} => t.known = r.known
  BY <1>2, <1>5 DEF Effect, Statuses
<1>10. /\ o.before.known # "none" /\ r.known # "none" /\ Served(a, r)
       /\ l \/ /\ r.running = r.version /\ Lasting(a) \subseteq r.owns
               /\ \A x \in Needs(a) : x \in r.owns \/ In(Put(x), p)
               /\ r.record = "on" => w \/ Needs(a) \subseteq r.owns
               /\ o.before.record = o.before.known
               /\ r.record = o.before.record /\ (Template[a] = "bot" \/ (r.known = o.before.known /\ ~In(Know("on"), p)))
  BY <1>2 DEF Enabling, p
<1>11. l \/ /\ t.running = t.version /\ Lasting(a) \subseteq t.owns
            /\ \A x \in Needs(a) : x \in t.owns \/ In(Put(x), q)
            /\ n.before.record = n.before.known
            /\ IF q = <<>> THEN t.record = "on" /\ t.known = "on"
               ELSE t.record = n.before.record
                    /\ (Template[a] = "bot" \/ (t.known = n.before.known /\ ~In(Know("on"), q)))
  BY <1>2, <1>4, <1>6, <1>7, <1>8, <1>9, <1>10
<1>12. "files" \in t.owns <=> "files" \in r.owns
  BY <1>2, <1>5 DEF Effect, Pieces
<1>13. n.before.known # "none" /\ t.known # "none" /\ Served(a, t)
  BY <1>2, <1>6, <1>8, <1>10, <1>12 DEF Served
<1>14. q = <<>> => \A s : ~In(s, q)
  BY DEF In
<1>15. l \/ (t.record = "on" => w \/ Needs(a) \subseteq t.owns)
  <2>1. CASE h = Save("on")
    BY <2>1, <1>4, <1>11, <1>14
  <2>2. CASE h # Save("on")
    BY <2>2, <1>6, <1>8, <1>10
  <2> QED
    BY <2>1, <2>2
<1>16. Template[a] = "bot" => ~In(Put("running"), q)
  BY <1>4 DEF Enabling, p
<1> QED
  BY <1>3, <1>4, <1>11, <1>13, <1>15, <1>16 DEF Enabling, q, S

LEMMA DisablingStep ==
  ASSUME NEW a \in AppIds, NEW l, NEW w, NEW r \in AppState, NEW t, NEW o, NEW n, Advance(o, n), Effect(r, Head(o.plan), t, o),
         o.kind = "disable", Disabling(a, r, o, l, w)
  PROVE  Disabling(a, t, n, l, w)
<1> DEFINE h == Head(o.plan)
           p == o.plan
           q == n.plan
           S == {Drop("running"), Drop("hook"), Drop("cron"), Save("off")}
<1>1. Continues(p, q, h)
  BY Still DEF Advance, OperationState
<1>2. Effect(r, h, t, o) /\ n.before = o.before /\ o.kind = "disable"
  BY DEF Advance
<1> HIDE DEF h, p, q
<1>3. h \in S /\ Within(q, S)
  BY <1>1 DEF Continues, Disabling, p
<1> HIDE DEF S
<1>4. /\ \A s : In(s, p) <=> s = h \/ In(s, q)
      /\ First(p, Save("off")) => First(q, Save("off")) /\ ~In(Save("off"), q)
      /\ First(p, Drop("running")) => First(q, Drop("running")) /\ ~In(Drop("running"), q)
  BY <1>1 DEF Continues
<1>5. /\ \A x \in Pieces : h # Put(x) /\ (h = Drop(x) => x \in {"running", "hook", "cron"})
      /\ h \notin {Put("files"), Files("out"), Files("in"), Files("back")}
      /\ \A x \in Statuses : h \in {WriteRecord(x), Know(x), Save(x)} => x = "off" /\ h = Save("off")
      /\ Recording(h) <=> h = Save("off")
      /\ h \in {Drop("hook"), Drop("cron")} => h # Save("off")
      /\ h = Save("off") \/ h = Drop("running") \/ h = Drop("hook") \/ h = Drop("cron")
  BY <1>3 DEF S, Put, Drop, WriteRecord, Know, Save, Files, Recording, Writes
<1>6. IF h = Save("off") THEN t.record = "off" /\ t.known = "off" ELSE t.record = r.record /\ t.known = r.known
  BY <1>2, <1>5 DEF Effect, Statuses
<1>7. t.running = r.running /\ t.version = r.version
  BY <1>2, <1>5 DEF Effect
<1>8. /\ \A x \in Pieces \ {"running", "hook", "cron"} : x \in t.owns <=> x \in r.owns
      /\ h \notin {Drop("hook"), Drop("cron")} => \A x \in Pieces \ {"running"} : x \in t.owns <=> x \in r.owns
  BY <1>2, <1>5 DEF Effect, Pieces
<1>9. h \in {Drop("hook"), Drop("cron")} => t.record = "off"
  BY <1>4, <1>5, <1>6 DEF Disabling, p
<1>10. In(Drop("hook"), q) \/ In(Drop("cron"), q) => First(q, Save("off")) /\ (t.record = "off" \/ In(Save("off"), q))
  BY <1>4, <1>6 DEF Disabling, p
<1>11. ASSUME ~l
       PROVE  /\ t.known = t.record /\ t.running = t.version /\ Lasting(a) \subseteq t.owns
              /\ t.record = "on" => w \/ \A x \in Needs(a) :
                   x \in t.owns \/ (x = "running" /\ In(Save("off"), q) /\ ~In(Drop("running"), q))
  <2>1. /\ r.known = r.record /\ r.running = r.version /\ Lasting(a) \subseteq r.owns
        /\ r.record = "on" => w \/ \A x \in Needs(a) :
             x \in r.owns \/ (x = "running" /\ In(Save("off"), p) /\ ~In(Drop("running"), p))
        /\ First(p, Drop("running")) /\ (In(Drop("running"), p) => In(Save("off"), p))
    BY <1>11 DEF Disabling, p
  <2>2. t.known = t.record
    BY <2>1, <1>6
  <2>3. Lasting(a) \subseteq t.owns
    BY <2>1, <1>8, Belongs DEF Lasting
  <2>4. t.record = "on" => h \notin {Drop("hook"), Drop("cron"), Save("off")} /\ r.record = "on"
    BY <1>6, <1>9
  <2>5. ASSUME t.record = "on", ~w, NEW x \in Needs(a)
        PROVE  x \in t.owns \/ (x = "running" /\ In(Save("off"), q) /\ ~In(Drop("running"), q))
    <3>1. h = Drop("running") /\ r.record = "on"
      BY <2>4, <2>5, <1>5
    <3>2. x \in r.owns \/ (x = "running" /\ In(Save("off"), p) /\ ~In(Drop("running"), p))
      BY <2>1, <2>5, <3>1
    <3>3. x # "running" => x \in t.owns
      BY <3>1, <3>2, <1>8, <2>4, <2>5, Needed
    <3>4. ~In(Drop("running"), q)
      BY <2>1, <1>4
    <3>5. In(Save("off"), q)
      BY <2>1, <2>4, <2>5, <3>1, <1>4
    <3> QED
      BY <3>3, <3>4, <3>5
  <2> QED
    BY <2>1, <2>2, <2>3, <2>5, <1>7
<1>12. Served(a, t)
  BY <1>6, <1>8 DEF Disabling, Served, Pieces
<1>13. n.before.known # "none" /\ t.known # "none"
  BY <1>2, <1>6 DEF Disabling
<1>14. First(q, Drop("running")) /\ ~In(Drop("running"), q)
  BY <1>4 DEF Disabling, p
<1> QED
  BY <1>3, <1>10, <1>11, <1>12, <1>13, <1>14 DEF Disabling, q, S

LEMMA UpdatingStep ==
  ASSUME NEW a \in AppIds, NEW l, NEW w, NEW r \in AppState, NEW t, NEW o, NEW n, Advance(o, n), Effect(r, Head(o.plan), t, o),
         o.kind = "update", Updating(a, r, o, l, w)
  PROVE  Updating(a, t, n, l, w)
<1> DEFINE h == Head(o.plan)
           p == o.plan
           q == n.plan
           status == o.before.record
           S == {Put("hook"), Save(status), Files("out"), Files("in")}
<1>1. Continues(p, q, h)
  BY Still DEF Advance, OperationState
<1>2. Effect(r, h, t, o) /\ n.before = o.before /\ o.kind = "update" /\ n.to = o.to /\ p # <<>>
  BY DEF Advance
<1>3. status \in Statuses
  BY DEF Advance, OperationState, AppState
<1>4. r.record = status /\ status # "none"
  BY DEF Updating
<1> HIDE DEF h, p, q, status
<1>5. h \in S /\ Within(q, S)
  BY <1>1 DEF Continues, Updating, p, status
<1> HIDE DEF S
<1>6. /\ \A s : In(s, p) <=> s = h \/ In(s, q)
      /\ Ends(q, Save(status)) /\ (h = Save(status) <=> q = <<>>)
      /\ First(q, Files("out")) /\ ~In(Files("out"), q)
  BY <1>1 DEF Continues, Updating, p, status
<1>7. /\ \A x \in Pieces : h # Drop(x) /\ (h = Put(x) => x = "hook")
      /\ h # Files("back")
      /\ \A x \in Statuses : h \in {WriteRecord(x), Know(x), Save(x)} => x = status /\ h = Save(status)
      /\ Recording(h) <=> h = Save(status)
      /\ h # Save(status) => \A x \in Statuses : h \notin {Know(x), Save(x)}
  BY <1>3, <1>5 DEF S, Put, Drop, WriteRecord, Know, Save, Files, Recording, Writes, Statuses
<1>8. Files("out") # Files("in")
  BY DEF Files
<1>9. /\ t.record = status
      /\ IF h = Save(status) THEN t.known = status /\ t.version = o.to ELSE t.known = r.known /\ t.version = r.version
  BY <1>2, <1>3, <1>4, <1>7 DEF Effect
<1>10. \A x \in Pieces \ {"files"} : x \in r.owns => x \in t.owns
  BY <1>2, <1>7 DEF Effect, Pieces
<1>11. /\ h = Files("in") => "files" \in t.owns /\ t.running = o.to
       /\ h \notin {Files("in"), Files("out")} => t.running = r.running /\ ("files" \in r.owns => "files" \in t.owns)
       /\ h = Files("out") => t.running = r.running
  BY <1>2, <1>7, <1>8 DEF Effect, Pieces
<1>12. ASSUME ~l
       PROVE  /\ t.known = t.record
              /\ Lasting(a) \ {"files"} \subseteq t.owns
              /\ t.record = "on" => w \/ Holdings(a) \ {"files"} \subseteq t.owns
              /\ In(Files("in"), q) \/ ("files" \in t.owns /\ t.running = o.to)
              /\ t.version = IF q = <<>> THEN o.to ELSE o.before.version
              /\ o.before.running = o.before.version
              /\ In(Files("out"), q) => In(Files("in"), q) /\ t.running = o.before.running /\ "files" \in t.owns
  <2>1. /\ r.known = r.record /\ Lasting(a) \ {"files"} \subseteq r.owns
        /\ r.record = "on" => w \/ Holdings(a) \ {"files"} \subseteq r.owns
        /\ In(Files("in"), p) \/ ("files" \in r.owns /\ r.running = o.to)
        /\ r.version = o.before.version /\ o.before.running = o.before.version
    BY <1>12, <1>2 DEF Updating, p
  <2>2. t.known = t.record
    BY <2>1, <1>4, <1>9
  <2>3. Lasting(a) \ {"files"} \subseteq t.owns
    BY <2>1, <1>10, Belongs DEF Lasting
  <2>4. t.record = "on" => w \/ Holdings(a) \ {"files"} \subseteq t.owns
    BY <2>1, <1>4, <1>9, <1>10, Belongs
  <2>5. t.version = IF q = <<>> THEN o.to ELSE o.before.version
    BY <2>1, <1>6, <1>9
  <2>6. h = Files("out") => In(Files("in"), p)
    BY <1>12, <1>6 DEF Updating, p
  <2>7. In(Files("in"), q) \/ ("files" \in t.owns /\ t.running = o.to)
    BY <2>1, <2>6, <1>6, <1>8, <1>11
  <2> QED
    BY <2>1, <2>2, <2>3, <2>4, <2>5, <2>7, <1>6
<1>13. n.before.known # "none" /\ t.known # "none" /\ Served(a, t)
  <2>1. "secrets" \in r.owns => "secrets" \in t.owns
    BY <1>10 DEF Pieces
  <2> QED
    BY <2>1, <1>2, <1>4, <1>9 DEF Updating, Served
<1> QED
  BY <1>2, <1>4, <1>5, <1>6, <1>9, <1>12, <1>13 DEF Updating, q, S, status

LEMMA UndoingStep ==
  ASSUME NEW a \in AppIds, NEW l, NEW w, NEW r \in AppState, NEW t, NEW o, NEW n, Advance(o, n), Effect(r, Head(o.plan), t, o),
         o.kind = "undo", Undoing(a, r, o, l, w)
  PROVE  Undoing(a, t, n, l, w)
<1> DEFINE h == Head(o.plan)
           p == o.plan
           q == n.plan
           known == o.before.known
           S == {Drop("hook"), Drop("cron"), Drop("running"), Put("running"), Know(known), Files("back")}
<1>1. Continues(p, q, h)
  BY Still DEF Advance, OperationState
<1>2. Effect(r, h, t, o) /\ n.before = o.before /\ o.kind = "undo" /\ p # <<>> /\ q = Tail(p)
  BY DEF Advance
<1>3. known \in Statuses
  BY DEF Advance, OperationState, AppState
<1>4. CASE known = "none"
  <2>1. Withdrawing(r, p)
    BY <1>4 DEF Undoing
  <2>2. Withdrawing(t, q)
    BY <2>1, <1>2, WithdrawingStep DEF Advance, OperationState
  <2> QED
    BY <2>2, <1>2, <1>4 DEF Undoing
<1>5. CASE known # "none"
  <2> HIDE DEF h, p, q, known
  <2>1. h \in S /\ Within(q, S)
    BY <1>1, <1>5 DEF Continues, Undoing, p, known
  <2> HIDE DEF S
  <2>2. \A s : In(s, p) <=> s = h \/ In(s, q)
    BY <1>1 DEF Continues
  <2>3. /\ \A x \in Pieces : (h = Put(x) => x = "running") /\ (h = Drop(x) => x \in {"running", "hook", "cron"})
        /\ h \notin {Put("files"), Files("out"), Files("in")}
        /\ \A x \in Statuses : h \in {WriteRecord(x), Know(x), Save(x)} => x = known /\ h = Know(known)
        /\ ~Recording(h)
    BY <2>1, <1>3 DEF S, Put, Drop, WriteRecord, Know, Save, Files, Recording, Writes, Statuses
  <2>4. t.record = r.record /\ t.version = r.version /\ t.known = (IF h = Know(known) THEN known ELSE r.known)
    <3>1. t.record = r.record /\ t.version = r.version
      BY <1>2, <2>3 DEF Effect
    <3>2. h = Know(known) => t.known = known
      BY <1>2, <1>3 DEF Effect
    <3>3. h # Know(known) => t.known = r.known
      BY <1>2, <2>3 DEF Effect
    <3> QED
      BY <3>1, <3>2, <3>3
  <2>5. IF h = Files("back") THEN t.running = o.before.running /\ "files" \in t.owns
        ELSE t.running = r.running /\ ("files" \in t.owns <=> "files" \in r.owns)
    BY <1>2, <2>3 DEF Effect, Pieces, Put, Files
  <2>6. /\ \A x \in Pieces \ {"running", "hook", "cron", "files"} : x \in t.owns <=> x \in r.owns
        /\ \A x \in {"hook", "cron"} : x \in r.owns /\ h # Drop(x) => x \in t.owns
    BY <1>2, <2>3 DEF Effect, Pieces
  <2>7. /\ r.known # "none" /\ Served(a, r) /\ (In(Files("back"), p) => r.record # "none")
        /\ l \/ Returning(a, r, o, w)
    BY <1>5 DEF Undoing, p, known
  <2>8. Served(a, t)
    BY <2>2, <2>4, <2>5, <2>6, <2>7 DEF Served, Pieces
  <2>9. ASSUME Returning(a, r, o, w) PROVE Returning(a, t, n, w)
    <3>1. t.record # "none" /\ (t.known = t.record \/ In(Know(known), q))
      BY <2>2, <2>4, <2>9 DEF Returning, p, known
    <3>2. In(Know(known), q) => known = t.record
      BY <2>2, <2>4, <2>9 DEF Returning, p, known
    <3>3. Lasting(a) \ {"files"} \subseteq t.owns
      BY <2>6, <2>9, Belongs DEF Returning, Lasting
    <3>4. /\ "files" \in t.owns \/ In(Files("back"), q)
          /\ t.running = t.version \/ In(Files("back"), q)
          /\ In(Files("back"), q) => o.before.running = t.version
      BY <2>2, <2>4, <2>5, <2>9 DEF Returning, p
    <3>5. t.record = "on" => w \/ /\ Holdings(a) \cap {"hook", "cron"} \subseteq t.owns
                                  /\ Template[a] = "node" => "running" \in t.owns \/ In(Put("running"), q)
                                  /\ ~In(Drop("hook"), q) /\ ~In(Drop("cron"), q) /\ ~In(Drop("running"), q)
      <4>1. h = Put("running") => "running" \in t.owns
        BY <1>2 DEF Effect, Pieces
      <4>2. "running" \in r.owns /\ h # Drop("running") => "running" \in t.owns
        BY <1>2, <2>3 DEF Effect, Pieces
      <4> QED
        BY <2>2, <2>4, <2>6, <2>9, <4>1, <4>2 DEF Returning, p
    <3> QED
      BY <3>1, <3>2, <3>3, <3>4, <3>5, <1>2 DEF Returning, q, known
  <2>10. t.known # "none" /\ (In(Files("back"), q) => t.record # "none")
    BY <1>5, <2>2, <2>4, <2>7
  <2>11. l \/ Returning(a, t, n, w)
    BY <2>7, <2>9
  <2> QED
    BY <2>1, <2>8, <2>10, <2>11, <1>2, <1>5 DEF Undoing, q, known, S
<1> QED
  BY <1>4, <1>5

(* A step that is done leaves the operation where it was going. *)
LEMMA UnderwayStep ==
  ASSUME NEW a \in AppIds, NEW l, NEW w, NEW r \in AppState, NEW t, NEW o, NEW n, Advance(o, n), Effect(r, Head(o.plan), t, o),
         Proper(a, r), Underway(a, r, o, l, w)
  PROVE  Underway(a, t, n, l, w)
<1>1. Template[a] = "bot" => Guarded(n.plan, t)
  BY StillGuarded DEF Underway, Advance, OperationState
<1>2. n.kind = o.kind
  BY DEF Advance
<1>3. o.kind = "install" => Installing(a, t, n)
  BY InstallingStep DEF Underway
<1>4. o.kind = "undo" => Undoing(a, t, n, l, w)
  BY UndoingStep DEF Underway
<1>5. o.kind = "delete" => Deleting(a, t, n)
  BY DeletingStep DEF Underway
<1>6. o.kind = "enable" => Enabling(a, t, n, l, w)
  BY EnablingStep DEF Underway
<1>7. o.kind = "disable" => Disabling(a, t, n, l, w)
  BY DisablingStep DEF Underway
<1>8. o.kind = "update" => Updating(a, t, n, l, w)
  BY UpdatingStep DEF Underway
<1> QED
  BY <1>1, <1>2, <1>3, <1>4, <1>5, <1>6, <1>7, <1>8 DEF Underway
-----------------------------------------------------------------------------
(* What plans are made of *)

Of(p, T) == p \in Seq(Steps) /\ \A s : In(s, p) <=> s \in T
Precedes(p, u, v) == \A i \in 1..Len(p) : p[i] = v => \E j \in 1..(i - 1) : p[j] = u

LEMMA None == Of(<<>>, {})
<1>1. <<>> \in Seq(Steps) /\ Len(<<>>) = 0
  BY EmptySeq
<1> QED
  BY <1>1 DEF Of, In

LEMMA One == ASSUME NEW s \in Steps PROVE Of(<<s>>, {s}) /\ Len(<<s>>) = 1 /\ <<s>>[1] = s
BY DEF Of, In

LEMMA Joined ==
  ASSUME NEW x \in Seq(Steps), NEW y \in Seq(Steps)
  PROVE  /\ x \o y \in Seq(Steps) /\ Len(x) \in Nat /\ Len(y) \in Nat /\ Len(x \o y) = Len(x) + Len(y)
         /\ \A i \in 1..Len(x) : (x \o y)[i] = x[i]
         /\ \A i \in (Len(x) + 1)..(Len(x) + Len(y)) : (x \o y)[i] = y[i - Len(x)]
BY ConcatProperties

LEMMA Both ==
  ASSUME NEW x, NEW y, NEW T, NEW U, Of(x, T), Of(y, U)
  PROVE  Of(x \o y, T \cup U)
<1> DEFINE z == x \o y
<1>1. /\ x \in Seq(Steps) /\ y \in Seq(Steps) /\ z \in Seq(Steps) /\ Len(x) \in Nat /\ Len(y) \in Nat
      /\ Len(z) = Len(x) + Len(y) /\ \A i \in 1..Len(x) : z[i] = x[i]
      /\ \A i \in (Len(x) + 1)..(Len(x) + Len(y)) : z[i] = y[i - Len(x)]
  BY Joined DEF Of
<1> HIDE DEF z
<1>2. ASSUME NEW s, In(s, z) PROVE In(s, x) \/ In(s, y)
  <2>1. PICK i \in 1..Len(z) : z[i] = s
    BY <1>2 DEF In
  <2>2. CASE i \in 1..Len(x)
    BY <2>1, <2>2, <1>1 DEF In
  <2>3. CASE i \in (Len(x) + 1)..Len(z)
    <3>1. i - Len(x) \in 1..Len(y) /\ y[i - Len(x)] = s
      BY <2>1, <2>3, <1>1
    <3> QED
      BY <3>1 DEF In
  <2> QED
    BY <2>1, <2>2, <2>3, <1>1
<1>3. ASSUME NEW s, In(s, x) PROVE In(s, z)
  BY <1>3, <1>1 DEF In
<1>4. ASSUME NEW s, In(s, y) PROVE In(s, z)
  <2>1. PICK i \in 1..Len(y) : y[i] = s
    BY <1>4 DEF In
  <2>2. PICK k \in (Len(x) + 1)..(Len(x) + Len(y)) : k - Len(x) = i
    <3>1. i + Len(x) \in (Len(x) + 1)..(Len(x) + Len(y)) /\ (i + Len(x)) - Len(x) = i
      BY <1>1
    <3> QED
      BY <3>1
  <2>3. k \in 1..Len(z) /\ z[k] = s
    BY <2>1, <2>2, <1>1
  <2> QED
    BY <2>3 DEF In
<1>5. Of(z, T \cup U)
  BY <1>1, <1>2, <1>3, <1>4 DEF Of
<1> QED
  BY <1>5 DEF z

LEMMA AllWithin == ASSUME NEW p, NEW T, NEW S, Of(p, T), T \subseteq S PROVE Within(p, S)
BY DEF Of, In, Within

LEMMA EndsWith ==
  ASSUME NEW x, NEW T, NEW s \in Steps, Of(x, T), s \notin T
  PROVE  Ends(x \o <<s>>, s) /\ Len(x \o <<s>>) = Len(x) + 1 /\ Len(x) \in Nat /\ x \o <<s>> # <<>>
<1>1. /\ x \in Seq(Steps) /\ <<s>> \in Seq(Steps) /\ Len(<<s>>) = 1 /\ <<s>>[1] = s
      /\ \A i \in 1..Len(x) : x[i] # s
  BY One DEF Of, In
<1>2. /\ Len(x) \in Nat /\ Len(x \o <<s>>) = Len(x) + 1
      /\ \A i \in 1..Len(x) : (x \o <<s>>)[i] = x[i]
      /\ (x \o <<s>>)[Len(x) + 1] = s
  BY <1>1, Joined
<1>3. x \o <<s>> # <<>>
  BY <1>2, EmptySeq
<1> QED
  BY <1>1, <1>2, <1>3 DEF Ends

LEMMA FirstKept ==
  ASSUME NEW x, NEW y, NEW T, NEW U, NEW s, Of(x, T), Of(y, U), First(x, s), s \notin U
  PROVE  First(x \o y, s)
<1>1. /\ Len(x) \in Nat /\ Len(y) \in Nat /\ Len(x \o y) = Len(x) + Len(y)
      /\ \A i \in 1..Len(x) : (x \o y)[i] = x[i]
      /\ \A i \in (Len(x) + 1)..(Len(x) + Len(y)) : (x \o y)[i] = y[i - Len(x)]
  BY Joined DEF Of
<1>2. \A i \in 1..Len(y) : y[i] # s
  BY DEF Of, In
<1> SUFFICES ASSUME NEW i \in 1..Len(x \o y), (x \o y)[i] = s PROVE i = 1
  BY DEF First
<1>3. CASE i \in 1..Len(x)
  BY <1>1, <1>3 DEF First
<1>4. CASE i \in (Len(x) + 1)..(Len(x) + Len(y))
  <2>1. i - Len(x) \in 1..Len(y) /\ y[i - Len(x)] = s
    BY <1>1, <1>4
  <2> QED
    BY <2>1, <1>2
<1> QED
  BY <1>1, <1>3, <1>4

LEMMA PrecedesKept ==
  ASSUME NEW x, NEW y, NEW T, NEW U, NEW u, NEW v, Of(x, T), Of(y, U), Precedes(x, u, v), u \in T \/ v \notin U
  PROVE  Precedes(x \o y, u, v)
<1>1. /\ Len(x) \in Nat /\ Len(y) \in Nat /\ Len(x \o y) = Len(x) + Len(y)
      /\ \A i \in 1..Len(x) : (x \o y)[i] = x[i]
      /\ \A i \in (Len(x) + 1)..(Len(x) + Len(y)) : (x \o y)[i] = y[i - Len(x)]
  BY Joined DEF Of
<1> SUFFICES ASSUME NEW i \in 1..Len(x \o y), (x \o y)[i] = v PROVE \E j \in 1..(i - 1) : (x \o y)[j] = u
  BY DEF Precedes
<1>2. CASE i \in 1..Len(x)
  <2>1. PICK j \in 1..(i - 1) : x[j] = u
    BY <1>1, <1>2 DEF Precedes
  <2>2. j \in 1..Len(x)
    BY <2>1, <1>1, <1>2
  <2> QED
    BY <2>1, <2>2, <1>1
<1>3. CASE i \in (Len(x) + 1)..(Len(x) + Len(y))
  <2>1. i - Len(x) \in 1..Len(y) /\ y[i - Len(x)] = v
    BY <1>1, <1>3
  <2>2. In(u, x)
    BY <2>1 DEF Of, In
  <2>3. PICK j \in 1..Len(x) : x[j] = u
    BY <2>2 DEF In
  <2>4. j \in 1..(i - 1) /\ (x \o y)[j] = u
    BY <2>3, <1>1, <1>3
  <2> QED
    BY <2>4
<1> QED
  BY <1>1, <1>2, <1>3

LEMMA AfterAbsent ==
  ASSUME NEW x, NEW y, NEW T, NEW U, NEW u, NEW v, Of(x, T), Of(y, U), Precedes(y, u, v), v \notin T
  PROVE  Precedes(x \o y, u, v)
<1> DEFINE z == x \o y
<1>1. /\ Len(x) \in Nat /\ Len(y) \in Nat /\ Len(z) = Len(x) + Len(y)
      /\ \A i \in 1..Len(x) : z[i] = x[i]
      /\ \A i \in (Len(x) + 1)..(Len(x) + Len(y)) : z[i] = y[i - Len(x)]
  BY Joined DEF Of
<1> HIDE DEF z
<1>2. ASSUME NEW i \in 1..Len(z), z[i] = v PROVE \E j \in 1..(i - 1) : z[j] = u
  <2>1. i \notin 1..Len(x)
    BY <1>1, <1>2 DEF Of, In
  <2>2. i \in (Len(x) + 1)..(Len(x) + Len(y))
    BY <2>1, <1>1
  <2>3. i - Len(x) \in 1..Len(y) /\ y[i - Len(x)] = v
    BY <2>2, <1>1, <1>2
  <2>4. PICK j \in 1..(i - Len(x) - 1) : y[j] = u
    BY <2>3 DEF Precedes
  <2>5. PICK k \in (Len(x) + 1)..(Len(x) + Len(y)) : k - Len(x) = j /\ k \in 1..(i - 1)
    <3>1. /\ j + Len(x) \in (Len(x) + 1)..(Len(x) + Len(y)) /\ (j + Len(x)) - Len(x) = j
          /\ j + Len(x) \in 1..(i - 1)
      BY <2>2, <1>1
    <3> QED
      BY <3>1
  <2> QED
    BY <2>4, <2>5, <1>1
<1>3. Precedes(z, u, v)
  BY <1>2 DEF Precedes
<1> QED
  BY <1>3 DEF z

LEMMA PrecedesAbsent == ASSUME NEW p, NEW T, NEW u, NEW v, Of(p, T), v \notin T PROVE Precedes(p, u, v)
BY DEF Of, In, Precedes

(* A plan that writes the record only as its first step, if at all, and     *)
(* drops the secrets only after the record.                                 *)
LEMMA Cautious ==
  ASSUME NEW p, NEW T, NEW r, Of(p, T), Readable(r),
         \A i \in 1..Len(p) : p[i] \in Writes => i = 1 /\ "secrets" \in r.owns,
         Precedes(p, WriteRecord("none"), Drop("secrets"))
  PROVE  Guarded(p, r)
<1>1. Len(p) \in Nat
  BY DEF Of
<1>2. SecretsFirst(p, r)
  BY <1>1 DEF SecretsFirst
<1>3. RecordFirst(p, r)
  <2> SUFFICES ASSUME NEW i \in 1..Len(p), p[i] = Drop("secrets")
               PROVE  /\ r.record = "none" \/ \E j \in 1..(i - 1) : p[j] = WriteRecord("none")
                      /\ \A j \in 1..(i - 1) : p[j] \in Writes => \E k \in j..i : p[k] = WriteRecord("none")
    BY DEF RecordFirst
  <2>1. PICK k \in 1..(i - 1) : p[k] = WriteRecord("none")
    BY DEF Precedes
  <2>2. ASSUME NEW j \in 1..(i - 1), p[j] \in Writes PROVE \E m \in j..i : p[m] = WriteRecord("none")
    <3>1. j = 1
      BY <1>1, <2>2
    <3> QED
      BY <2>1, <3>1
  <2> QED
    BY <2>1, <2>2
<1> QED
  BY <1>2, <1>3 DEF Guarded

(* What is left of an operation that has no step left. *)
LEMMA FinishRests ==
  ASSUME NEW a \in AppIds, NEW l, NEW w, NEW r \in AppState, NEW o \in OperationState, o.plan = <<>>, o.kind # "none",
         Proper(a, r), Underway(a, r, o, l, w), NEW v, w => v \/ o.kind \in {"install", "enable"}
  PROVE  AtRest(a, r, l /\ r.known # "none", v)
<1>1. \A s : ~In(s, o.plan)
  BY None DEF Of
<1>2. Template[a] = "bot" /\ r.record # "none" => "secrets" \in r.owns
  BY DEF Underway, Guarded, Readable
<1>3. CASE o.kind = "install"
  <2>1. /\ r.record = "on" /\ r.known = "on" /\ r.version = o.to /\ r.running = o.to
        /\ Holdings(a) \subseteq r.owns /\ (Template[a] = "node" => "running" \in r.owns)
    BY <1>1, <1>3 DEF Underway, Installing
  <2>2. Needs(a) \subseteq r.owns
    BY <2>1, Needed
  <2> QED
    BY <2>1, <2>2, <1>2 DEF AtRest, Whole, Served, Lasting
<1>4. CASE o.kind = "undo" /\ o.before.known = "none"
  <2>1. r.record = "none" /\ r.known = "none" /\ r.owns \subseteq {"hook", "db"}
    BY <1>1, <1>4 DEF Underway, Undoing, Withdrawing, Waits
  <2> QED
    BY <2>1 DEF AtRest
<1>5. CASE o.kind = "undo" /\ o.before.known # "none"
  <2>1. r.known # "none" /\ Served(a, r)
    BY <1>5 DEF Underway, Undoing
  <2>2. l \/ (r.known = r.record /\ r.running = r.version /\ Lasting(a) \subseteq r.owns
            /\ (r.record = "on" => w \/ (Holdings(a) \subseteq r.owns /\ (Template[a] = "node" => "running" \in r.owns))))
    BY <1>1, <1>5 DEF Underway, Undoing, Returning, Lasting
  <2> QED
    BY <1>2, <1>5, <2>1, <2>2, Needed DEF AtRest, Whole
<1>6. CASE o.kind = "delete"
  <2>1. r.known = "none" /\ r.record = "none" /\ r.owns \subseteq {"hook", "db"}
    BY <1>1, <1>6 DEF Underway, Deleting, Waits
  <2> QED
    BY <2>1 DEF AtRest
<1>7. CASE o.kind = "enable"
  <2>1. /\ r.known # "none" /\ Served(a, r)
        /\ l \/ /\ r.record = "on" /\ r.known = "on" /\ r.running = r.version /\ Needs(a) \subseteq r.owns
    BY <1>1, <1>7 DEF Underway, Enabling
  <2> QED
    BY <1>2, <2>1, Needed DEF AtRest, Whole, Lasting
<1>8. CASE o.kind = "disable"
  <2>1. /\ r.known # "none" /\ Served(a, r)
        /\ l \/ /\ r.known = r.record /\ r.running = r.version /\ Lasting(a) \subseteq r.owns
                /\ r.record = "on" => w \/ Needs(a) \subseteq r.owns
    BY <1>1, <1>8 DEF Underway, Disabling
  <2> QED
    BY <1>2, <1>8, <2>1 DEF AtRest, Whole
<1>9. CASE o.kind = "update"
  <2>1. /\ r.known # "none" /\ Served(a, r)
        /\ l \/ /\ r.known = r.record /\ r.running = r.version /\ "files" \in r.owns
                /\ Lasting(a) \ {"files"} \subseteq r.owns
                /\ r.record = "on" => w \/ Holdings(a) \ {"files"} \subseteq r.owns
        /\ Template[a] = "bot"
    BY <1>1, <1>9 DEF Underway, Updating
  <2> QED
    BY <1>2, <1>9, <2>1, Needed DEF AtRest, Whole, Lasting
<1> QED
  BY <1>3, <1>4, <1>5, <1>6, <1>7, <1>8, <1>9 DEF OperationState
-----------------------------------------------------------------------------
(* What is undone when a step fails *)

Failed(o, n) == n \in OperationState /\ n.kind = "undo" /\ n.id = o.id /\ n.before = o.before /\ n.to = o.to
(* What is left to undo after the step h failed. *)
Marked(made, h) == made \cup (IF MarkedFirst(h) THEN Marking(h) ELSE {})

LEMMA AllSteps ==
  /\ \A x \in Pieces : Put(x) \in Steps /\ Drop(x) \in Steps
  /\ \A x \in Statuses : Know(x) \in Steps /\ WriteRecord(x) \in Steps /\ Save(x) \in Steps
  /\ Files("out") \in Steps /\ Files("in") \in Steps /\ Files("back") \in Steps
BY DEF Steps, Statuses, Writes

(* All steps differ. *)
LEMMA Differ ==
  /\ \A x, y : Put(x) # Drop(y) /\ Put(x) # Know(y) /\ Put(x) # Save(y) /\ Put(x) # WriteRecord(y) /\ Put(x) # Files(y)
  /\ \A x, y : Drop(x) # Know(y) /\ Drop(x) # Save(y) /\ Drop(x) # WriteRecord(y) /\ Drop(x) # Files(y)
  /\ \A x, y : Know(x) # Save(y) /\ Know(x) # WriteRecord(y) /\ Know(x) # Files(y)
  /\ \A x, y : Save(x) # WriteRecord(y) /\ Save(x) # Files(y) /\ WriteRecord(x) # Files(y)
  /\ \A x, y : x # y => /\ Put(x) # Put(y) /\ Drop(x) # Drop(y) /\ Know(x) # Know(y)
                        /\ Save(x) # Save(y) /\ WriteRecord(x) # WriteRecord(y) /\ Files(x) # Files(y)
BY DEF Put, Drop, Know, Save, WriteRecord, Files

LEMMA CleaningUp ==
  ASSUME NEW M
  PROVE  \E T : /\ Of(CleanUp(M), T)
                /\ {WriteRecord("none"), Drop("secrets")} \subseteq T
                /\ \A x \in M \cap {"cron", "pool", "unit", "db", "files", "user"} : Drop(x) \in T
                /\ T \subseteq {Drop(x) : x \in Pieces} \cup {WriteRecord("none")}
                /\ Precedes(CleanUp(M), WriteRecord("none"), Drop("secrets"))
<1> DEFINE D(x) == IF x \in M THEN {Drop(x)} ELSE {}
           p0 == <<WriteRecord("none"), Drop("secrets")>>
           p1 == p0 \o Undone(M, "cron")
           p2 == p1 \o Undone(M, "pool")
           p3 == p2 \o Undone(M, "unit")
           p4 == p3 \o Undone(M, "db")
           p5 == p4 \o Undone(M, "files")
           p6 == p5 \o Undone(M, "user")
           T0 == {WriteRecord("none"), Drop("secrets")}
           T1 == T0 \cup D("cron")
           T2 == T1 \cup D("pool")
           T3 == T2 \cup D("unit")
           T4 == T3 \cup D("db")
           T5 == T4 \cup D("files")
           T6 == T5 \cup D("user")
<1>1. \A x \in Pieces : Of(Undone(M, x), D(x))
  BY None, One, AllSteps DEF Undone, OnlyIf
<1>2. Of(p0, T0) /\ Precedes(p0, WriteRecord("none"), Drop("secrets"))
  <2>1. WriteRecord("none") \in Steps /\ Drop("secrets") \in Steps /\ WriteRecord("none") # Drop("secrets")
    BY AllSteps DEF Pieces, Statuses, WriteRecord, Drop
  <2> QED
    BY <2>1 DEF Of, In, Precedes
<1> HIDE DEF D, p0
<1>3. Of(p1, T1) /\ Precedes(p1, WriteRecord("none"), Drop("secrets"))
  BY <1>1, <1>2, Both, PrecedesKept DEF Pieces
<1>4. Of(p2, T2) /\ Precedes(p2, WriteRecord("none"), Drop("secrets"))
  <2> HIDE DEF p1
  <2> QED
    BY <1>1, <1>3, Both, PrecedesKept DEF Pieces
<1>5. Of(p3, T3) /\ Precedes(p3, WriteRecord("none"), Drop("secrets"))
  <2> HIDE DEF p2
  <2> QED
    BY <1>1, <1>4, Both, PrecedesKept DEF Pieces
<1>6. Of(p4, T4) /\ Precedes(p4, WriteRecord("none"), Drop("secrets"))
  <2> HIDE DEF p3
  <2> QED
    BY <1>1, <1>5, Both, PrecedesKept DEF Pieces
<1>7. Of(p5, T5) /\ Precedes(p5, WriteRecord("none"), Drop("secrets"))
  <2> HIDE DEF p4
  <2> QED
    BY <1>1, <1>6, Both, PrecedesKept DEF Pieces
<1>8. Of(p6, T6) /\ Precedes(p6, WriteRecord("none"), Drop("secrets"))
  <2> HIDE DEF p5
  <2> QED
    BY <1>1, <1>7, Both, PrecedesKept DEF Pieces
<1>9. p6 = CleanUp(M)
  BY DEF CleanUp, p0
<1>10. /\ T0 \subseteq T6
       /\ \A x \in M \cap {"cron", "pool", "unit", "db", "files", "user"} : Drop(x) \in T6
       /\ T6 \subseteq {Drop(x) : x \in Pieces} \cup {WriteRecord("none")}
  BY DEF D, Pieces
<1> HIDE DEF p6, T6
<1> QED
  BY <1>8, <1>9, <1>10

LEMMA InstallFails ==
  ASSUME AppTypes, operation.kind = "install", operation.plan # <<>>,
         NEW a \in AppIds, a = operation.id, NEW l, NEW w, NEW r \in AppState, NEW t \in AppState, NEW h, h = Head(operation.plan),
         Proper(a, r), Proper(a, t), Underway(a, r, operation, l, w),
         t = r \/ (t = Done(r, h) /\ MarkedFirst(h)),
         NEW n, Failed(operation, n), n.plan = Undo(h, Marked(operation.made, h))
  PROVE  Underway(a, t, n, l, w)
<1> DEFINE M == Marked(operation.made, h)
           S == {Drop(x) : x \in Pieces} \cup {Know("none"), WriteRecord("none")}
           first == IF h = Save("on") /\ Template[a] = "bot" THEN <<Drop("hook")>> ELSE <<>>
<1>1. Installing(a, r, operation)
  BY DEF Underway
<1>2. operation \in OperationState /\ operation.before.known = "none" /\ n.before = operation.before
  BY <1>1 DEF AppTypes, Installing, Failed
<1>3. h \in Steps
  BY <1>2, Later DEF OperationState
<1>4. t.record = r.record /\ t.owns \subseteq M \cup {"hook", "running"} /\ (r.owns \subseteq t.owns)
  <2>1. r.owns \subseteq operation.made \cup {"hook", "running"}
    BY <1>1 DEF Installing
  <2>2. CASE t = r
    BY <2>1, <2>2 DEF Marked
  <2>3. CASE t = Done(r, h) /\ MarkedFirst(h)
    <3>1. PICK x \in {"pool", "db"} : h = Put(x)
      BY <2>3 DEF MarkedFirst
    <3>2. Effect(r, h, t, operation)
      BY <1>3, <2>3, Effects
    <3>3. Marking(h) = {x}
      BY <3>1 DEF Marking, Put
    <3>4. /\ h \notin {Files("out"), Files("in"), Files("back"), Put("unit")} /\ \A y \in Pieces : h # Drop(y) /\ (h = Put(y) => y = x)
          /\ ~Recording(h)
      BY <3>1 DEF Put, Files, Drop, Recording, Writes, WriteRecord, Save
    <3>5. t.owns \subseteq r.owns \cup {x} /\ t.record = r.record /\ r.owns \subseteq t.owns
      BY <3>2, <3>4 DEF Effect, AppState, Pieces
    <3>6. M = operation.made \cup {x}
      BY <2>3, <3>3 DEF Marked
    <3> HIDE DEF M
    <3> QED
      BY <2>1, <3>5, <3>6
  <2> QED
    BY <2>2, <2>3
<1>5. n.plan = first \o <<Know("none")>> \o CleanUp(M)
  BY <1>2 DEF Undo
<1>6. PICK T : /\ Of(CleanUp(M), T)
               /\ {WriteRecord("none"), Drop("secrets")} \subseteq T
               /\ \A x \in M \cap {"cron", "pool", "unit", "db", "files", "user"} : Drop(x) \in T
               /\ T \subseteq {Drop(x) : x \in Pieces} \cup {WriteRecord("none")}
               /\ Precedes(CleanUp(M), WriteRecord("none"), Drop("secrets"))
  BY CleaningUp
<1>7. PICK U \in SUBSET {Drop("hook")} : Of(first, U)
  BY None, One, AllSteps DEF Pieces
<1>8. Of(<<Know("none")>>, {Know("none")})
  BY One, AllSteps DEF Statuses
<1> DEFINE front == first \o <<Know("none")>>
           V == U \cup {Know("none")}
<1>9. Of(front, V)
  BY <1>7, <1>8, Both
<1> HIDE DEF M, first
<1>16. n.plan = front \o CleanUp(M)
  BY <1>5
<1> HIDE DEF front
<1> HIDE DEF V
<1>17. Of(front \o CleanUp(M), V \cup T)
  BY <1>6, <1>9, Both
<1>10. Of(n.plan, V \cup T)
  BY <1>16, <1>17
<1>11. V \cup T \subseteq S
  BY <1>6 DEF Pieces, V
<1>12. Precedes(n.plan, WriteRecord("none"), Drop("secrets"))
  <2>1. Drop("secrets") \notin V
    BY DEF Drop, Know, V
  <2>2. Precedes(front \o CleanUp(M), WriteRecord("none"), Drop("secrets"))
    BY <2>1, <1>6, <1>9, AfterAbsent
  <2> QED
    BY <2>2, <1>16
<1>13. ASSUME NEW x \in t.owns PROVE Waits(n.plan, x)
  <2>1. CASE x \in {"hook", "db"}
    BY <2>1 DEF Waits
  <2>2. CASE x = "running"
    <3>1. "unit" \in M
      BY <2>2, <1>4, <1>13 DEF Proper
    <3> QED
      BY <2>2, <3>1, <1>6, <1>10 DEF Waits, Of
  <2>3. CASE x \in {"cron", "pool", "unit", "files", "user", "secrets"}
    <3>1. x \in M
      BY <2>3, <1>4, <1>13
    <3> QED
      BY <2>3, <3>1, <1>6, <1>10 DEF Waits, Of
  <2> QED
    BY <2>1, <2>2, <2>3 DEF AppState, Pieces
<1>14. Withdrawing(t, n.plan)
  <2>1. Within(n.plan, S)
    BY <1>10, <1>11, AllWithin
  <2>2. In(Know("none"), n.plan) /\ In(WriteRecord("none"), n.plan)
    BY <1>6, <1>10 DEF Of, V
  <2> QED
    BY <2>1, <2>2, <1>13 DEF Withdrawing
<1>15. ASSUME Template[a] = "bot" PROVE Guarded(n.plan, t)
  <2>1. Readable(t)
    BY <1>4, <1>15 DEF Underway, Guarded, Readable
  <2>2. \A i \in 1..Len(n.plan) : n.plan[i] \notin Writes
    <3>1. Writes \cap S = {}
      BY DEF Writes, Drop, Know, WriteRecord, Save
    <3> HIDE DEF S
    <3> QED
      BY <3>1, <1>10, <1>11 DEF Of, In
  <2> QED
    BY <2>1, <2>2, <1>10, <1>12, Cautious
<1> QED
  BY <1>2, <1>14, <1>15 DEF Underway, Undoing, Failed

(* What a step that failed may have done all the same. *)
LEMMA LateEffect ==
  ASSUME NEW h \in Steps, HalfDone(h)
  PROVE  /\ ~Recording(h) /\ (\A x \in Statuses : h \notin {Know(x), Save(x)})
         /\ h \notin {Put("files"), Put("secrets"), Put("cron"), Drop("secrets"), Drop("cron"), Files("out"), Files("back")}
BY DEF HalfDone, Commanded, Recording, Writes, Put, Drop, WriteRecord, Know, Save, Files

LEMMA UnguardedPlan ==
  ASSUME NEW p, NEW T, NEW r, Of(p, T), Readable(r), T \cap (Writes \cup {Drop("secrets")}) = {}
  PROVE  Guarded(p, r)
<1>1. \A i \in 1..Len(p) : p[i] \notin Writes /\ p[i] # Drop("secrets")
  BY DEF Of, In
<1> QED
  BY <1>1, Cautious DEF Precedes

LEMMA EnableFails ==
  ASSUME AppTypes, operation.kind = "enable", operation.plan # <<>>,
         NEW a \in AppIds, a = operation.id, NEW l, NEW w, NEW r \in AppState, NEW t \in AppState, NEW h, h = Head(operation.plan),
         Underway(a, r, operation, l, w), t = r \/ (t = Done(r, h) /\ HalfDone(h)), Fallible(h),
         NEW n, NEW made, Failed(operation, n), n.plan = Undo(h, made),
         NEW v, w => v, operation.before.record = "on" /\ h \in {Put("cron"), Save("on")} => v
  PROVE  Underway(a, t, n, l, v)
<1> DEFINE known == operation.before.known
           p == operation.plan
           back == <<Know(known)>>
           S == {Drop("hook"), Drop("cron"), Drop("running"), Know(known)}
<1>1. Enabling(a, r, operation, l, w)
  BY DEF Underway
<1>2. /\ operation \in OperationState /\ known # "none" /\ n.before = operation.before /\ known \in Statuses
      /\ operation.before.record \in Statuses
  BY <1>1 DEF AppTypes, Enabling, Failed, OperationState, AppState
<1>3. h \in Steps /\ Continues(p, Tail(p), h)
  BY <1>2, Later, Still DEF OperationState
<1>4. h \in {Know("on"), Put("hook"), Put("cron"), Put("running"), Save("on")} /\ In(h, p)
  BY <1>1, <1>3 DEF Enabling, Continues
<1>5. t.record = r.record /\ t.known = r.known /\ t.version = r.version /\ t.running = r.running
  <2>1. CASE t = r
    BY <2>1
  <2>2. CASE t = Done(r, h) /\ HalfDone(h)
    <3>1. Effect(r, h, t, operation)
      BY <1>3, <2>2, Effects
    <3>2. h \notin {Files("in"), Files("back"), Put("files")}
      BY <1>4 DEF Put, Files, Know, Save
    <3> QED
      BY <3>1, <3>2, <2>2, <1>3, LateEffect DEF Effect
  <2> QED
    BY <2>1, <2>2
<1>6. \A x \in Pieces : (x \in r.owns => x \in t.owns) /\ (x \in {"files", "secrets"} /\ x \in t.owns => x \in r.owns)
  <2>1. CASE t = r
    BY <2>1
  <2>2. CASE t = Done(r, h) /\ HalfDone(h)
    <3>1. Effect(r, h, t, operation)
      BY <1>3, <2>2, Effects
    <3>2. /\ h \notin {Files("in"), Files("back"), Files("out"), Put("files"), Put("secrets"), Drop("unit")}
          /\ \A x \in Pieces : h # Drop(x)
      BY <1>4 DEF Put, Files, Know, Save, Drop
    <3> QED
      BY <3>1, <3>2 DEF Effect
  <2> QED
    BY <2>1, <2>2
<1>7. PICK T : Of(n.plan, T) /\ T \subseteq S /\ (Template[a] = "bot" => Know(known) \in T)
  <2>1. /\ Of(back, {Know(known)}) /\ Of(<<Drop("hook")>>, {Drop("hook")}) /\ Of(<<Drop("running")>>, {Drop("running")})
        /\ Of(<<>>, {})
    BY <1>2, One, None, AllSteps DEF Pieces
  <2>2. Of(<<Drop("hook")>> \o back, {Drop("hook")} \cup {Know(known)})
    BY <2>1, Both
  <2>3. Of(<<Drop("cron"), Drop("hook")>>, {Drop("cron"), Drop("hook")})
    BY AllSteps DEF Of, In, Pieces
  <2>4. Of(back \o <<Drop("cron"), Drop("hook")>>, {Know(known)} \cup {Drop("cron"), Drop("hook")})
    BY <2>1, <2>3, Both
  <2>5. CASE Template[a] = "bot"
    <3>1. n.plan \in {back, <<Drop("hook")>> \o back, back \o <<Drop("cron"), Drop("hook")>>}
      BY <2>5 DEF Undo
    <3> HIDE DEF back, known
    <3> QED
      BY <3>1, <2>1, <2>2, <2>4
  <2>6. CASE Template[a] # "bot"
    <3>1. n.plan \in {<<>>, <<Drop("running")>>}
      BY <2>6 DEF Undo
    <3> QED
      BY <3>1, <2>1, <2>6
  <2> QED
    BY <2>5, <2>6
<1> HIDE DEF known, p
<1>8. /\ Files("back") \notin S /\ S \cap (Writes \cup {Drop("secrets")}) = {}
      /\ \A x : Know(x) \in S => x = known
  BY DEF Files, Writes, Drop, Know, WriteRecord, Save
<1> HIDE DEF S
<1>9. /\ ~In(Files("back"), n.plan) /\ (Template[a] = "bot" => In(Know(known), n.plan))
  BY <1>7, <1>8 DEF Of
<1>10. Within(n.plan, S)
  BY <1>7, AllWithin
<1>11. /\ t.known # "none" /\ Served(a, t)
  BY <1>1, <1>5, <1>6 DEF Enabling, Served, Pieces
<1>12. ASSUME ~l PROVE Returning(a, t, n, v)
  <2>1. /\ r.running = r.version /\ Lasting(a) \subseteq r.owns /\ operation.before.record = known
        /\ r.record = known /\ (Template[a] = "bot" \/ r.known = known)
        /\ r.record = "on" => w \/ Needs(a) \subseteq r.owns
    BY <1>1, <1>4, <1>12, None DEF Enabling, known, p, Of
  <2>2. Lasting(a) \subseteq t.owns
    BY <2>1, <1>6, Belongs DEF Lasting
  <2>3. t.record # "none"
    BY <2>1, <1>2, <1>5
  <2>4. "files" \in t.owns
    BY <2>2, Belongs DEF Lasting
  <2>5. ASSUME t.record = "on", ~v
        PROVE  /\ Holdings(a) \cap {"hook", "cron"} \subseteq t.owns
               /\ Template[a] = "node" => "running" \in t.owns
               /\ ~In(Drop("hook"), n.plan) /\ ~In(Drop("cron"), n.plan) /\ ~In(Drop("running"), n.plan)
    <3>1. Needs(a) \subseteq t.owns
      BY <2>1, <2>5, <1>5, <1>6, Needed
    <3>2. h \in {Put("hook"), Put("running")}
      <4>1. h # Know("on")
        BY DEF Fallible, Know
      <4> QED
        BY <4>1, <2>1, <2>5, <1>4, <1>5
    <3>3. n.plan \in {<<Know(known)>>, <<>>}
      <4>1. h \notin {Put("cron"), Save("on")} /\ (h = Put("hook") \/ h # Put("hook"))
        BY <3>2, Differ
      <4>2. h = Put("hook") => n.plan \in {<<Know(known)>>, <<>>}
        BY Differ DEF Undo, known
      <4>3. Template[a] = "bot" => h # Put("running")
        BY <1>1, <1>4 DEF Enabling, p
      <4> QED
        BY <3>2, <4>1, <4>2, <4>3 DEF Undo, known
    <3>4. Of(<<Know(known)>>, {Know(known)}) /\ Of(<<>>, {})
      BY <1>2, One, None, AllSteps
    <3>5. Know(known) \notin {Drop("hook"), Drop("cron"), Drop("running")}
      BY Differ
    <3> QED
      BY <3>1, <3>3, <3>4, <3>5, Needed DEF Of
  <2> QED
    BY <2>1, <2>2, <2>3, <2>4, <2>5, <1>2, <1>5, <1>9 DEF Returning, known
<1>13. Template[a] = "bot" => Guarded(n.plan, t)
  <2>1. Template[a] = "bot" => Readable(t)
    BY <1>5, <1>6 DEF Underway, Guarded, Readable, Pieces
  <2> QED
    BY <2>1, <1>7, <1>8, UnguardedPlan
<1>14. Within(n.plan, {Drop("hook"), Drop("cron"), Drop("running"), Put("running"), Know(known), Files("back")})
  BY <1>10 DEF Within, S
<1> QED
  BY <1>2, <1>9, <1>11, <1>12, <1>13, <1>14 DEF Underway, Undoing, Failed, known

LEMMA DisableFails ==
  ASSUME AppTypes, operation.kind = "disable", operation.plan # <<>>,
         NEW a \in AppIds, a = operation.id, NEW l, NEW w, NEW r \in AppState, NEW t \in AppState, NEW h, h = Head(operation.plan),
         Underway(a, r, operation, l, w), t = r \/ (t = Done(r, h) /\ HalfDone(h)), Fallible(h),
         NEW n, NEW made, Failed(operation, n), n.plan = Undo(h, made),
         NEW v, w => v, t # r /\ h = Drop("running") => v
  PROVE  Underway(a, t, n, l, v)
<1> DEFINE p == operation.plan
           late == [operation EXCEPT !.plan = Tail(@), !.made = @ \cup Marking(h)]
<1>1. Disabling(a, r, operation, l, w)
  BY DEF Underway
<1>2. /\ operation \in OperationState /\ n.before = operation.before /\ operation.before.known # "none"
  BY <1>1 DEF AppTypes, Disabling, Failed
<1>3. h \in Steps /\ Continues(p, Tail(p), h)
  BY <1>2, Later, Still DEF OperationState
<1>4. h \in {Drop("running"), Drop("hook"), Drop("cron"), Save("off")} /\ In(h, p)
  BY <1>1, <1>3 DEF Disabling, Continues
<1>5. Marking(h) = {} /\ Tail(p) \in Seq(Steps)
  BY <1>3, <1>4 DEF Marking, Drop, Save, Continues
<1>6. Disabling(a, t, operation, l, w) \/ Disabling(a, t, late, l, w)
  <2>1. CASE t = r
    BY <2>1, <1>1
  <2>2. CASE t = Done(r, h)
    <3>1. Effect(r, h, t, operation)
      BY <1>3, <2>2, Effects
    <3>2. Advance(operation, late)
      BY <1>2, <1>5 DEF Advance, OperationState
    <3> HIDE DEF late
    <3> QED
      BY <3>1, <3>2, <1>1, DisablingStep
  <2> QED
    BY <2>1, <2>2
<1>7. t.known # "none" /\ Served(a, t)
      /\ (l \/ (t.known = t.record /\ t.running = t.version /\ Lasting(a) \subseteq t.owns))
  BY <1>6 DEF Disabling
<1>8. PICK T : Of(n.plan, T) /\ T \subseteq {Put("running")}
  <2>1. n.plan \in {<<>>, <<Put("running")>>}
    BY DEF Undo
  <2>2. Of(<<>>, {}) /\ Of(<<Put("running")>>, {Put("running")})
    BY One, None, AllSteps DEF Pieces
  <2> QED
    BY <2>1, <2>2
<1>9. /\ Within(n.plan, {Drop("hook"), Drop("cron"), Drop("running"), Put("running"), Know(operation.before.known), Files("back")})
      /\ ~In(Files("back"), n.plan) /\ ~In(Know(operation.before.known), n.plan)
      /\ ~In(Drop("hook"), n.plan) /\ ~In(Drop("cron"), n.plan) /\ ~In(Drop("running"), n.plan)
  <2>1. /\ Files("back") # Put("running") /\ Know(operation.before.known) # Put("running")
        /\ Drop("hook") # Put("running") /\ Drop("cron") # Put("running") /\ Drop("running") # Put("running")
    BY DEF Files, Put, Know, Drop
  <2> DEFINE S == {Drop("hook"), Drop("cron"), Drop("running"), Put("running"), Know(operation.before.known), Files("back")}
  <2>2. T \subseteq S
    BY <1>8
  <2> HIDE DEF S
  <2>3. Within(n.plan, S)
    BY <2>2, <1>8, AllWithin
  <2>4. \A s : In(s, n.plan) => s = Put("running")
    BY <1>8 DEF Of
  <2> QED
    BY <2>1, <2>3, <2>4 DEF S
<1>10. ASSUME ~l, t.record = "on", ~v
       PROVE  /\ Holdings(a) \cap {"hook", "cron"} \subseteq t.owns
              /\ Template[a] = "node" => "running" \in t.owns \/ In(Put("running"), n.plan)
  <2>1. /\ r.record = "on" => \A q \in Needs(a) :
             q \in r.owns \/ (q = "running" /\ In(Save("off"), p) /\ ~In(Drop("running"), p))
        /\ (In(Drop("hook"), p) \/ In(Drop("cron"), p)) => First(p, Save("off")) /\ (r.record = "off" \/ In(Save("off"), p))
    BY <1>1, <1>10 DEF Disabling, p
  <2>2. h \in {Drop("hook"), Drop("cron")} => r.record = "off"
    <3> SUFFICES ASSUME h \in {Drop("hook"), Drop("cron")}, r.record # "off" PROVE FALSE
      OBVIOUS
    <3>1. First(p, Save("off")) /\ In(Save("off"), p)
      BY <2>1, <1>4
    <3>2. h = Save("off")
      <4>1. PICK i \in 1..Len(p) : p[i] = Save("off")
        BY <3>1 DEF In
      <4>2. p[1] = Save("off")
        BY <3>1, <4>1 DEF First
      <4>3. h = p[1]
        BY <1>2, Later DEF OperationState
      <4> QED
        BY <4>2, <4>3
    <3> QED
      BY <3>2, Differ
  <2>3. t = r
    <3>1. CASE t = Done(r, h) /\ HalfDone(h) /\ t # r
      <4>1. Effect(r, h, t, operation)
        BY <1>3, <3>1, Effects
      <4>2. t.record = r.record
        BY <4>1, <3>1, <1>3, LateEffect DEF Effect
      <4>3. h # Save("off")
        BY <3>1, <1>3, LateEffect DEF Recording, Writes
      <4>4. h = Drop("running")
        BY <1>4, <1>10, <2>2, <4>2, <4>3
      <4> QED
        BY <3>1, <4>4, <1>10
    <3> QED
      BY <3>1
  <2>4. h \in {Save("off"), Drop("running")}
    BY <1>4, <1>10, <2>2, <2>3
  <2>5. CASE "running" \notin r.owns /\ Template[a] = "node"
    <3>1. h = Save("off")
      BY <2>1, <2>3, <2>4, <2>5, <1>4, <1>10, Needed
    <3>2. n.plan = <<Put("running")>>
      BY <3>1, <2>5 DEF Undo
    <3>3. In(Put("running"), n.plan)
      <4>1. Put("running") \in Steps
        BY AllSteps DEF Pieces
      <4>2. Of(<<Put("running")>>, {Put("running")})
        BY <4>1, One
      <4> QED
        BY <3>2, <4>2 DEF Of
    <3> QED
      BY <3>3, <2>1, <2>3, <1>10, Needed
  <2>6. CASE ~("running" \notin r.owns /\ Template[a] = "node")
    BY <2>1, <2>3, <2>6, <1>10, Needed
  <2> QED
    BY <2>5, <2>6
<1>12. l \/ Returning(a, t, n, v)
  <2>1. t.record # "none" \/ l
    BY <1>7
  <2> QED
    BY <1>2, <1>7, <1>9, <1>10, Belongs DEF Returning, Lasting
<1>11. Template[a] = "bot" => Guarded(n.plan, t)
  <2>1. Template[a] = "bot" => Readable(t)
    BY <1>7 DEF Served, Readable
  <2>2. Put("running") \notin Writes \cup {Drop("secrets")}
    BY DEF Put, Writes, Drop, WriteRecord, Save
  <2> QED
    BY <2>1, <2>2, <1>8, UnguardedPlan
<1> QED
  BY <1>2, <1>7, <1>9, <1>11, <1>12 DEF Underway, Undoing, Failed

LEMMA UpdateFails ==
  ASSUME AppTypes, operation.kind = "update", operation.plan # <<>>,
         NEW a \in AppIds, a = operation.id, NEW l, NEW w, NEW r \in AppState, NEW t \in AppState, NEW h, h = Head(operation.plan),
         Underway(a, r, operation, l, w), t = r \/ (t = Done(r, h) /\ HalfDone(h)), Fallible(h),
         NEW n, NEW made, Failed(operation, n), n.plan = Undo(h, made)
  PROVE  Underway(a, t, n, l, w)
<1> DEFINE p == operation.plan
           status == operation.before.record
<1>1. Updating(a, r, operation, l, w)
  BY DEF Underway
<1>2. /\ operation \in OperationState /\ n.before = operation.before /\ operation.before.known # "none" /\ status \in Statuses
  BY <1>1 DEF AppTypes, Updating, Failed, OperationState, AppState
<1>3. h \in Steps /\ Continues(p, Tail(p), h)
  BY <1>2, Later, Still DEF OperationState
<1>4. h \in {Put("hook"), Save(status), Files("out"), Files("in")} /\ In(h, p)
  BY <1>1, <1>3 DEF Updating, Continues
<1>5. /\ t.record = r.record /\ t.known = r.known /\ t.version = r.version /\ (r.owns \subseteq t.owns)
      /\ h = Files("out") => t = r
  <2>1. CASE t = r
    BY <2>1
  <2>2. CASE t = Done(r, h) /\ HalfDone(h)
    <3>1. Effect(r, h, t, operation)
      BY <1>3, <2>2, Effects
    <3>2. \A x \in Pieces : h # Drop(x)
      BY <1>4 DEF Put, Files, Save, Drop
    <3> QED
      BY <3>1, <3>2, <2>2, <1>3, LateEffect DEF Effect, AppState, Pieces
  <2> QED
    BY <2>1, <2>2
<1>6. n.plan = IF h = Files("out") THEN <<>> ELSE <<Files("back")>>
  BY DEF Undo
<1>7. Of(<<>>, {}) /\ Of(<<Files("back")>>, {Files("back")})
  BY One, None, AllSteps
<1>8. PICK T : Of(n.plan, T) /\ T = IF h = Files("out") THEN {} ELSE {Files("back")}
  BY <1>6, <1>7
<1>9. /\ r.known # "none" /\ Served(a, r) /\ Template[a] = "bot" /\ r.record = status /\ status # "none"
      /\ l \/ /\ r.known = r.record /\ Lasting(a) \ {"files"} \subseteq r.owns
              /\ r.record = "on" => w \/ Holdings(a) \ {"files"} \subseteq r.owns
              /\ r.version = operation.before.version /\ operation.before.running = operation.before.version
              /\ h = Files("out") => r.running = operation.before.running /\ "files" \in r.owns
  BY <1>1, <1>4 DEF Updating
<1>10. /\ \A x : Know(x) # Files("back")
       /\ Drop("hook") # Files("back") /\ Drop("cron") # Files("back") /\ Drop("running") # Files("back")
       /\ Files("back") \notin Writes \cup {Drop("secrets")}
  BY DEF Files, Know, Drop, Writes, WriteRecord, Save
<1> HIDE DEF p, status
<1>11. /\ Within(n.plan, {Drop("hook"), Drop("cron"), Drop("running"), Put("running"), Know(operation.before.known), Files("back")})
       /\ ~In(Know(operation.before.known), n.plan) /\ ~In(Drop("hook"), n.plan) /\ ~In(Drop("cron"), n.plan)
       /\ ~In(Drop("running"), n.plan)
       /\ In(Files("back"), n.plan) <=> h # Files("out")
  <2> DEFINE S == {Drop("hook"), Drop("cron"), Drop("running"), Put("running"), Know(operation.before.known), Files("back")}
  <2>1. T \subseteq S
    BY <1>8
  <2> HIDE DEF S
  <2>2. Within(n.plan, S)
    BY <2>1, <1>8, AllWithin
  <2>3. \A s : In(s, n.plan) <=> s = Files("back") /\ h # Files("out")
    BY <1>8 DEF Of
  <2> QED
    BY <2>2, <2>3, <1>10 DEF S
<1>12. Served(a, t) /\ t.record # "none" /\ t.known # "none"
  BY <1>5, <1>9 DEF Served
<1>13. ASSUME ~l PROVE Returning(a, t, n, w)
  <2>1. t.known = t.record /\ Lasting(a) \ {"files"} \subseteq t.owns
    BY <1>5, <1>9, <1>13
  <2>2. "files" \in t.owns \/ In(Files("back"), n.plan)
    BY <1>5, <1>9, <1>11, <1>13
  <2>3. t.running = t.version \/ In(Files("back"), n.plan)
    BY <1>5, <1>9, <1>11, <1>13
  <2>4. n.before.running = t.version
    BY <1>2, <1>5, <1>9, <1>13
  <2>5. t.record = "on" => w \/ Holdings(a) \cap {"hook", "cron"} \subseteq t.owns
    BY <1>5, <1>9, <1>13
  <2> QED
    BY <2>1, <2>2, <2>3, <2>4, <2>5, <1>2, <1>9, <1>11, <1>12 DEF Returning
<1>14. Template[a] = "bot" => Guarded(n.plan, t)
  <2>1. Template[a] = "bot" => Readable(t)
    BY <1>12 DEF Served, Readable
  <2> QED
    BY <2>1, <1>8, <1>10, UnguardedPlan
<1> QED
  BY <1>2, <1>11, <1>12, <1>13, <1>14 DEF Underway, Undoing, Failed

LEMMA DeleteFails ==
  ASSUME AppTypes, operation.kind = "delete", operation.plan # <<>>,
         NEW a \in AppIds, a = operation.id, NEW l, NEW w, NEW r \in AppState, NEW t \in AppState, NEW h, h = Head(operation.plan),
         Underway(a, r, operation, l, w), t = r \/ (t = Done(r, h) /\ HalfDone(h)), Fallible(h),
         NEW n, NEW made, Failed(operation, n), n.plan = Undo(h, made), NEW S, a \in S
  PROVE  Underway(a, t, n, a \in S, w)
<1> DEFINE p == operation.plan
<1>1. Deleting(a, r, operation)
  BY DEF Underway
<1>2. /\ operation \in OperationState /\ n.before = operation.before /\ operation.before.known # "none"
  BY <1>1 DEF AppTypes, Deleting, Failed
<1>3. h \in Steps /\ h = p[1] /\ Len(p) \in Nat /\ Len(p) > 0
  BY <1>2, Later DEF OperationState
<1>4. n.plan = <<>>
  BY DEF Undo
<1>5. ASSUME Template[a] = "bot" PROVE "secrets" \in r.owns
  <2>1. h # Know("none")
    BY DEF Fallible, Know
  <2>2. Len(p) # 1
    BY <2>1, <1>1, <1>3 DEF Deleting, Ends
  <2>3. IF In(Drop("secrets"), p) THEN "secrets" \in r.owns ELSE Len(p) <= 1
    BY <1>1, <1>5 DEF Deleting
  <2>4. \A k \in Nat : k > 0 /\ k <= 1 => k = 1
    OBVIOUS
  <2>5. ~(Len(p) <= 1)
    BY <2>2, <2>4, <1>3, Zenon
  <2> QED
    BY <2>3, <2>5
<1>6. Template[a] = "bot" => "files" \notin r.owns \/ r.record # "none"
  BY <1>1 DEF Deleting
<1>7. /\ t.record = r.record /\ t.known = r.known
      /\ "secrets" \in r.owns => "secrets" \in t.owns
      /\ "files" \in t.owns => "files" \in r.owns
  <2>1. CASE t = r
    BY <2>1
  <2>2. CASE t = Done(r, h) /\ HalfDone(h)
    <3>1. Effect(r, h, t, operation)
      BY <1>3, <2>2, Effects
    <3>2. h \notin {Put("files"), Files("in"), Files("back"), Put("secrets")}
      <4>1. h \in {Drop(x) : x \in Pieces} \cup {Save("off"), Know("none"), WriteRecord("none")}
        BY <1>1, <1>3 DEF Deleting, Within
      <4> QED
        BY <4>1 DEF Drop, Save, Know, WriteRecord, Put, Files
    <3> QED
      BY <3>1, <3>2, <2>2, <1>3, LateEffect DEF Effect, Pieces
  <2> QED
    BY <2>1, <2>2
<1>8. t.known # "none"
  BY <1>1, <1>7 DEF Deleting
<1>9. Served(a, t)
  BY <1>5, <1>6, <1>7 DEF Served
<1>10. Within(n.plan, {Drop("hook"), Drop("cron"), Drop("running"), Put("running"), Know(operation.before.known), Files("back")})
       /\ ~In(Files("back"), n.plan)
  BY <1>4, None DEF Of, Within
<1>11. Template[a] = "bot" => Guarded(n.plan, t)
  BY <1>4, <1>9, None, UnguardedPlan DEF Served, Readable
<1> QED
  BY <1>2, <1>8, <1>9, <1>10, <1>11 DEF Underway, Undoing, Failed

(* A deletion goes on when the webhook cannot be taken back. *)
LEMMA HookStays ==
  ASSUME AppTypes, operation.kind = "delete", operation.plan # <<>>,
         NEW a \in AppIds, a = operation.id, NEW l, NEW w, NEW m, NEW r \in AppState, NEW t \in AppState,
         Head(operation.plan) = Drop("hook"), Proper(a, r),
         Underway(a, r, operation, l, w), t = r \/ t = Done(r, Drop("hook")),
         NEW n, Advance(operation, n)
  PROVE  Underway(a, t, n, m, w)
<1> DEFINE u == Done(r, Drop("hook"))
<1>1. Effect(r, Drop("hook"), u, operation)
  BY Effects, AllSteps DEF Pieces
<1> HIDE DEF u
<1>2. Underway(a, u, n, l, w)
  BY <1>1, UnderwayStep
<1>3. /\ t.record = u.record /\ t.known = u.known
      /\ \A x \in Pieces \ {"hook"} : x \in t.owns <=> x \in u.owns
  <2>1. CASE t = r
    BY <2>1, <1>1 DEF Effect, Recording, Writes, Drop, WriteRecord, Know, Save, Put, Files, Pieces, Statuses
  <2>2. CASE t = u
    BY <2>2
  <2> QED
    BY <2>1, <2>2 DEF u
<1>4. n.kind = "delete" /\ Deleting(a, u, n)
  BY <1>2 DEF Advance, Underway
<1>5. Deleting(a, t, n)
  BY <1>3, <1>4 DEF Deleting, Waits, AppState, Pieces
<1>6. Template[a] = "bot" => Guarded(n.plan, t)
  BY <1>2, <1>3 DEF Underway, Guarded, Readable, SecretsFirst, RecordFirst, Pieces
<1> QED
  BY <1>4, <1>5, <1>6 DEF Underway
-----------------------------------------------------------------------------
(* The plans operations begin with *)

(* What an operation is when it begins. *)
Begun(a, r, n) == n.id = a /\ n.before = r /\ n.made = {} /\ n.to \in Nat

LEMMA Steady ==
  ASSUME NEW p, NEW T, NEW r, Of(p, T), "secrets" \in r.owns, Drop("secrets") \notin T
  PROVE  Guarded(p, r)
<1>1. \A i \in 1..Len(p) : p[i] # Drop("secrets")
  BY DEF Of, In
<1>2. Len(p) \in Nat
  BY DEF Of
<1> QED
  BY <1>1, <1>2 DEF Guarded, Readable, SecretsFirst, RecordFirst

LEMMA Four ==
  ASSUME NEW s \in Steps, NEW t \in Steps, NEW u \in Steps, NEW v \in Steps, v \notin {s, t, u}
  PROVE  Of(<<s, t, u, v>>, {s, t, u, v}) /\ Ends(<<s, t, u, v>>, v) /\ <<s, t, u, v>> # <<>>
<1> DEFINE p == <<s, t, u, v>>
<1>1. p \in Seq(Steps) /\ Len(p) = 4 /\ p[1] = s /\ p[2] = t /\ p[3] = u /\ p[4] = v /\ p # <<>>
  OBVIOUS
<1> HIDE DEF p
<1>2. \A i \in 1..Len(p) : i \in {1, 2, 3, 4}
  BY <1>1
<1>3. Of(p, {s, t, u, v}) /\ Ends(p, v)
  BY <1>1, <1>2 DEF Of, In, Ends
<1> QED
  BY <1>1, <1>3 DEF p

LEMMA Three ==
  ASSUME NEW s \in Steps, NEW t \in Steps, NEW u \in Steps
  PROVE  /\ Of(<<s, t, u>>, {s, t, u}) /\ <<s, t, u>> # <<>>
         /\ u \notin {s, t} => Ends(<<s, t, u>>, u)
         /\ s \notin {t, u} => First(<<s, t, u>>, s)
<1> DEFINE p == <<s, t, u>>
<1>1. p \in Seq(Steps) /\ Len(p) = 3 /\ p[1] = s /\ p[2] = t /\ p[3] = u /\ p # <<>>
  OBVIOUS
<1> HIDE DEF p
<1>2. \A i \in 1..Len(p) : i \in {1, 2, 3}
  BY <1>1
<1>3. Of(p, {s, t, u}) /\ (u \notin {s, t} => Ends(p, u)) /\ (s \notin {t, u} => First(p, s))
  BY <1>1, <1>2 DEF Of, In, Ends, First
<1> QED
  BY <1>1, <1>3 DEF p

LEMMA Two ==
  ASSUME NEW s \in Steps, NEW t \in Steps, s # t
  PROVE  Of(<<s, t>>, {s, t}) /\ Ends(<<s, t>>, t) /\ <<s, t>> # <<>>
<1> DEFINE p == <<s, t>>
<1>1. p \in Seq(Steps) /\ Len(p) = 2 /\ p[1] = s /\ p[2] = t /\ p # <<>>
  OBVIOUS
<1> HIDE DEF p
<1>2. \A i \in 1..Len(p) : i \in {1, 2}
  BY <1>1
<1>3. Of(p, {s, t}) /\ Ends(p, t)
  BY <1>1, <1>2 DEF Of, In, Ends
<1> QED
  BY <1>1, <1>3 DEF p

LEMMA Alone == ASSUME NEW s \in Steps PROVE Of(<<s>>, {s}) /\ Ends(<<s>>, s) /\ <<s>> # <<>>
BY One DEF Ends

LEMMA EnableBegins ==
  ASSUME NEW a \in AppIds, NEW l, NEW w, NEW r \in AppState, r.known # "none", Template[a] = "bot" => "secrets" \in r.owns,
         NEW n, Begun(a, r, n), n.kind = "enable", n.plan = EnablePlan(a)
  PROVE  Sound(a, n.plan) /\ (AtRest(a, r, l, w) => Underway(a, r, n, l, w))
<1> DEFINE p == n.plan
           S == {Know("on"), Put("hook"), Put("cron"), Put("running"), Save("on")}
<1>1. S \subseteq Steps
  BY AllSteps DEF Pieces, Statuses
<1>2. Template[a] \in {"static", "php", "node", "bot"}
  BY AppAssumption
<1>3. PICK T : /\ Of(p, T) /\ Ends(p, Save("on")) /\ p # <<>> /\ T \subseteq S
               /\ \A q \in Pieces : Put(q) \in T => q \in Holdings(a) \cup {"running"}
               /\ IF Template[a] = "bot" THEN {Put("hook"), Put("cron")} \subseteq T ELSE Know("on") \notin T
               /\ Template[a] = "node" => Put("running") \in T
               /\ Template[a] = "bot" => Put("running") \notin T
  <2>1. CASE Template[a] = "bot"
    <3>1. p = <<Know("on"), Put("hook"), Put("cron"), Save("on")>>
      BY <2>1 DEF EnablePlan
    <3>2. Of(p, {Know("on"), Put("hook"), Put("cron"), Save("on")}) /\ Ends(p, Save("on")) /\ p # <<>>
      BY <3>1, <1>1, Four, Differ
    <3>3. {"hook", "cron"} \subseteq Holdings(a)
      BY <2>1, Belongs DEF Pieces
    <3>4. \A q \in Pieces : Put(q) \in {Know("on"), Put("hook"), Put("cron"), Save("on")} => q \in {"hook", "cron"}
      BY Differ
    <3>5. Put("running") \notin {Know("on"), Put("hook"), Put("cron"), Save("on")}
      BY Differ
    <3> QED
      BY <2>1, <3>2, <3>3, <3>4, <3>5
  <2>2. CASE Template[a] = "node"
    <3>1. p = <<Put("running"), Save("on")>>
      BY <2>2 DEF EnablePlan
    <3>2. Of(p, {Put("running"), Save("on")}) /\ Ends(p, Save("on")) /\ p # <<>>
      BY <3>1, <1>1, Two, Differ
    <3>3. \A q \in Pieces : Put(q) \in {Put("running"), Save("on")} => q = "running"
      BY Differ
    <3>4. Know("on") \notin {Put("running"), Save("on")}
      BY Differ
    <3> QED
      BY <2>2, <3>2, <3>3, <3>4
  <2>3. CASE Template[a] \in {"static", "php"}
    <3>1. p = <<Save("on")>>
      BY <2>3 DEF EnablePlan
    <3>2. Of(p, {Save("on")}) /\ Ends(p, Save("on")) /\ p # <<>>
      BY <3>1, <1>1, Alone
    <3>3. Know("on") # Save("on") /\ \A q \in Pieces : Put(q) # Save("on")
      BY Differ
    <3> QED
      BY <2>3, <3>2, <3>3
  <2> QED
    BY <1>2, <2>1, <2>2, <2>3
<1> HIDE DEF p
<1>4. Within(p, S)
  BY <1>3, AllWithin
<1>5. Template[a] = "bot" => Guarded(p, r)
  BY <1>3, Steady, Differ
<1>6. AtRest(a, r, l, w) => Served(a, r) /\ (l \/ (r.known = r.record /\ Whole(a, r, w)))
  BY DEF AtRest
<1>7. ASSUME AtRest(a, r, l, w), ~l, NEW q \in Needs(a) PROVE q \in r.owns \/ In(Put(q), p)
  <2>1. CASE q \in {"hook", "cron"}
    <3>1. Template[a] = "bot"
      BY <2>1, <1>7, Belongs, Needed
    <3> QED
      BY <1>3, <2>1, <3>1 DEF Of
  <2>2. CASE q = "running"
    BY <1>3, <2>2, Needed DEF Of
  <2> QED
    BY <2>1, <2>2, <1>6, <1>7, Needed DEF Whole, Lasting
<1>8. /\ Template[a] = "bot" \/ ~In(Know("on"), p)
      /\ Template[a] = "bot" => ~In(Put("running"), p)
  BY <1>3 DEF Of
<1>9. AtRest(a, r, l, w) => Enabling(a, r, n, l, w)
  BY <1>3, <1>4, <1>6, <1>7, <1>8 DEF Enabling, Begun, Whole, p
<1>10. Sound(a, p)
  BY <1>3 DEF Of, Sound
<1> QED
  BY <1>5, <1>9, <1>10 DEF Underway, p

LEMMA DisableBegins ==
  ASSUME NEW a \in AppIds, NEW l, NEW w, NEW r \in AppState, r.known # "none",
         NEW n, Begun(a, r, n), n.kind = "disable", n.plan = DisablePlan(a)
  PROVE  Sound(a, n.plan) /\ (AtRest(a, r, l, w) => Underway(a, r, n, l, w))
<1> DEFINE p == n.plan
           S == {Drop("running"), Drop("hook"), Drop("cron"), Save("off")}
<1>1. S \subseteq Steps
  BY AllSteps DEF Pieces, Statuses
<1>2. Template[a] \in {"static", "php", "node", "bot"}
  BY AppAssumption
<1>3. PICK T : /\ Of(p, T) /\ T \subseteq S
               /\ (In(Drop("hook"), p) \/ In(Drop("cron"), p)) => First(p, Save("off")) /\ In(Save("off"), p)
               /\ First(p, Drop("running")) /\ (In(Drop("running"), p) => In(Save("off"), p) /\ Template[a] = "node")
  <2>1. CASE Template[a] = "bot"
    <3>1. p = <<Save("off"), Drop("cron"), Drop("hook")>>
      BY <2>1 DEF DisablePlan
    <3>2. Of(p, {Save("off"), Drop("cron"), Drop("hook")}) /\ First(p, Save("off"))
      BY <3>1, <1>1, Three, Differ
    <3>3. ~In(Drop("running"), p)
      BY <3>2, Differ DEF Of
    <3>4. First(p, Drop("running"))
      BY <3>3 DEF In, First
    <3> QED
      BY <3>2, <3>3, <3>4 DEF Of
  <2>2. CASE Template[a] = "node"
    <3>1. p = <<Drop("running"), Save("off")>>
      BY <2>2 DEF DisablePlan
    <3>2. Of(p, {Drop("running"), Save("off")})
      BY <3>1, <1>1, Two, Differ
    <3>3. ~In(Drop("hook"), p) /\ ~In(Drop("cron"), p)
      <4>1. {Drop("hook"), Drop("cron")} \cap {Drop("running"), Save("off")} = {}
        BY DEF Drop, Save
      <4> QED
        BY <3>2, <4>1 DEF Of
    <3>4. First(p, Drop("running"))
      <4>1. p[1] = Drop("running") /\ p[2] = Save("off") /\ Len(p) = 2
        BY <3>1
      <4>2. \A i \in 1..Len(p) : i \in {1, 2}
        BY <4>1
      <4> HIDE DEF p
      <4> QED
        BY <4>1, <4>2, Differ DEF First
    <3> QED
      BY <2>2, <3>2, <3>3, <3>4 DEF Of
  <2>3. CASE Template[a] \in {"static", "php"}
    <3>1. p = <<Save("off")>>
      BY <2>3 DEF DisablePlan
    <3>2. Of(p, {Save("off")})
      BY <3>1, <1>1, Alone
    <3>3. ~In(Drop("hook"), p) /\ ~In(Drop("cron"), p) /\ ~In(Drop("running"), p)
      BY <3>2, Differ DEF Of
    <3>4. First(p, Drop("running"))
      BY <3>3 DEF In, First
    <3> QED
      BY <3>2, <3>3, <3>4
  <2> QED
    BY <1>2, <2>1, <2>2, <2>3
<1> HIDE DEF p
<1>4. Within(p, S)
  BY <1>3, AllWithin
<1>5. AtRest(a, r, l, w) => Served(a, r) /\ (l \/ (r.known = r.record /\ Whole(a, r, w)))
  BY DEF AtRest
<1>6. AtRest(a, r, l, w) /\ Template[a] = "bot" => Guarded(p, r)
  BY <1>3, <1>5, Steady, Differ DEF Served
<1>9. ASSUME AtRest(a, r, l, w), ~l
      PROVE  /\ r.known = r.record /\ r.running = r.version /\ Lasting(a) \subseteq r.owns
             /\ r.record = "on" => w \/ Needs(a) \subseteq r.owns
  BY <1>5, <1>9 DEF Whole
<1>7. AtRest(a, r, l, w) => Disabling(a, r, n, l, w)
  BY <1>3, <1>4, <1>5, <1>9 DEF Disabling, Begun, p
<1>8. Sound(a, p)
  BY <1>3, Differ DEF Of, Sound
<1> QED
  BY <1>6, <1>7, <1>8 DEF Underway, p

LEMMA Spliced ==
  ASSUME NEW s \in Steps, NEW t \in Steps, NEW u \in Steps, NEW v \in Steps
  PROVE  <<s, t>> \o <<u>> \o <<v>> = <<s, t, u, v>> /\ <<s, t>> \o <<>> \o <<v>> = <<s, t, v>>
<1>1. <<s, t>> \in Seq(Steps) /\ <<s, t, u>> \in Seq(Steps)
  OBVIOUS
<1>2. /\ Append(<<s, t>>, u) = <<s, t, u>> /\ Append(<<s, t>>, v) = <<s, t, v>>
      /\ Append(<<s, t, u>>, v) = <<s, t, u, v>>
  <2>1. ASSUME NEW x \in Steps PROVE Append(<<s, t>>, x) = <<s, t, x>>
    <3> DEFINE y == Append(<<s, t>>, x)
               z == <<s, t, x>>
    <3>1. /\ y \in Seq(Steps) /\ Len(y) = 3 /\ y[1] = s /\ y[2] = t /\ y[3] = x
          /\ z \in Seq(Steps) /\ Len(z) = 3 /\ z[1] = s /\ z[2] = t /\ z[3] = x
      OBVIOUS
    <3> HIDE DEF y, z
    <3>2. \A i \in 1..Len(y) : i \in {1, 2, 3}
      BY <3>1
    <3>3. y = z
      BY <3>1, <3>2, SeqEqual
    <3> QED
      BY <3>3 DEF y, z
  <2>2. Append(<<s, t, u>>, v) = <<s, t, u, v>>
    <3> DEFINE y == Append(<<s, t, u>>, v)
               z == <<s, t, u, v>>
    <3>1. /\ y \in Seq(Steps) /\ Len(y) = 4 /\ y[1] = s /\ y[2] = t /\ y[3] = u /\ y[4] = v
          /\ z \in Seq(Steps) /\ Len(z) = 4 /\ z[1] = s /\ z[2] = t /\ z[3] = u /\ z[4] = v
      OBVIOUS
    <3> HIDE DEF y, z
    <3>2. \A i \in 1..Len(y) : i \in {1, 2, 3, 4}
      BY <3>1
    <3>3. y = z
      BY <3>1, <3>2, SeqEqual
    <3> QED
      BY <3>3 DEF y, z
  <2> QED
    BY <2>1, <2>2
<1>3. <<s, t>> \o <<u>> = <<s, t, u>> /\ <<s, t>> \o <<v>> = <<s, t, v>> /\ <<s, t>> \o <<>> = <<s, t>>
  BY <1>1, <1>2, AppendIsConcat, ConcatEmptySeq, Zenon
<1>4. <<s, t, u>> \o <<v>> = <<s, t, u, v>>
  BY <1>1, <1>2, AppendIsConcat, Zenon
<1> QED
  BY <1>3, <1>4, Zenon

LEMMA UpdateBegins ==
  ASSUME AppTypes, NEW a \in AppIds, Template[a] = "bot", NEW l, NEW w, NEW r \in AppState, r = app[a], r.known # "none",
         {"files", "secrets"} \subseteq r.owns,
         NEW n, Begun(a, r, n), n.kind = "update", n.plan = UpdatePlan(a)
  PROVE  Sound(a, n.plan) /\ (AtRest(a, r, l, w) => Underway(a, r, n, l, w))
<1> DEFINE p == n.plan
           S == {Put("hook"), Save(r.record), Files("out"), Files("in")}
<1>1. AtRest(a, r, l, w) => Served(a, r) /\ r.record # "none" /\ (l \/ (r.known = r.record /\ Whole(a, r, w)))
  BY DEF AtRest, Served
<1>2. r.record \in Statuses
  BY DEF AppState
<1>3. S \subseteq Steps
  BY <1>2, AllSteps DEF Pieces
<1>4. /\ Of(p, IF r.record = "on" THEN S ELSE {Files("out"), Files("in"), Save(r.record)})
      /\ Ends(p, Save(r.record)) /\ First(p, Files("out")) /\ p # <<>>
  <2>1. CASE r.record = "on"
    <3>1. p = <<Files("out"), Files("in")>> \o <<Put("hook")>> \o <<Save(r.record)>>
      BY <2>1 DEF UpdatePlan
    <3>2. p = <<Files("out"), Files("in"), Put("hook"), Save(r.record)>>
      BY <3>1, <1>3, Spliced
    <3>3. Of(p, {Files("out"), Files("in"), Put("hook"), Save(r.record)}) /\ Ends(p, Save(r.record)) /\ p # <<>>
      BY <3>2, <1>3, Four, Differ
    <3>4. First(p, Files("out"))
      <4>1. p[1] = Files("out") /\ p[2] = Files("in") /\ p[3] = Put("hook") /\ p[4] = Save(r.record) /\ Len(p) = 4
        BY <3>2
      <4>2. \A i \in 1..Len(p) : i \in {1, 2, 3, 4}
        BY <4>1
      <4> HIDE DEF p
      <4> QED
        BY <4>1, <4>2, Differ DEF First
    <3> QED
      BY <2>1, <3>3, <3>4
  <2>2. CASE r.record # "on"
    <3>1. p = <<Files("out"), Files("in")>> \o <<>> \o <<Save(r.record)>>
      BY <2>2 DEF UpdatePlan
    <3>2. p = <<Files("out"), Files("in"), Save(r.record)>>
      BY <3>1, <1>3, Spliced
    <3> QED
      BY <2>2, <3>2, <1>3, Three, Differ
  <2> QED
    BY <2>1, <2>2
<1> HIDE DEF p
<1>5. Within(p, S)
  BY <1>4, AllWithin
<1>6. Guarded(p, r)
  BY <1>4, Steady, Differ
<1>7. In(Files("in"), p)
  BY <1>4 DEF Of
<1>8. AtRest(a, r, l, w) => Updating(a, r, n, l, w)
  BY <1>1, <1>2, <1>4, <1>5, <1>7, Needed DEF Updating, Begun, p, Whole
<1>9. Sound(a, p)
  <2>1. \A q \in Pieces : In(Put(q), p) => q = "hook"
    BY <1>4, Differ DEF Of
  <2> QED
    BY <1>4, <2>1, Belongs DEF Of, Sound, Pieces
<1> QED
  BY <1>6, <1>8, <1>9 DEF Underway, p

(* A deletion drops all an application may own, the hook and the cron file  *)
(* first, the files before the record and the record before the secrets.   *)
LEMMA DeletionPlan ==
  ASSUME NEW a \in AppIds, NEW keep
  PROVE  LET p == DeletePlan(a, keep) IN
         /\ p \in Seq(Steps) /\ p # <<>>
         /\ Within(p, {Drop(q) : q \in Pieces} \cup {Save("off"), Know("none"), WriteRecord("none")})
         /\ \A q \in Holdings(a) : q = "db" \/ In(Drop(q), p)
         /\ In(WriteRecord("none"), p) /\ First(p, Save("off")) /\ Ends(p, Know("none"))
         /\ FilesFirst(p) /\ Precedes(p, WriteRecord("none"), Drop("secrets"))
         /\ \A i \in 1..Len(p) : p[i] = Drop("secrets") => i = Len(p) - 1
<1> DEFINE D(x) == IF x \in Holdings(a) THEN {Drop(x)} ELSE {}
           E(x) == IF keep THEN {} ELSE D(x)
           A == {Drop(x) : x \in Pieces \ {"secrets"}}
           p0 == <<Save("off")>>
           p1 == p0 \o Leave(a, "hook")
           p2 == p1 \o Leave(a, "cron")
           p3 == p2 \o Leave(a, "pool")
           p4 == p3 \o Leave(a, "unit")
           p5 == p4 \o (IF keep THEN <<>> ELSE Leave(a, "db"))
           p6 == p5 \o Leave(a, "files")
           p7 == p6 \o Leave(a, "user")
           p8 == p7 \o <<WriteRecord("none")>>
           p9 == p8 \o Leave(a, "secrets")
           p == p9 \o <<Know("none")>>
           T0 == {Save("off")}
           T7 == T0 \cup D("hook") \cup D("cron") \cup D("pool") \cup D("unit") \cup E("db") \cup D("files") \cup D("user")
           T8 == T7 \cup {WriteRecord("none")}
           T9 == T8 \cup D("secrets")
           T == T9 \cup {Know("none")}
<1>1. /\ \A x \in Pieces : Of(Leave(a, x), D(x))
      /\ Of(IF keep THEN <<>> ELSE Leave(a, "db"), E("db"))
  <2>1. \A x \in Pieces : Of(Leave(a, x), D(x))
    BY None, One, AllSteps DEF Leave, OnlyIf
  <2>2. CASE keep
    BY <2>1, <2>2, None
  <2>3. CASE ~keep
    BY <2>1, <2>3 DEF Pieces
  <2> QED
    BY <2>1, <2>2, <2>3
<1>2. {Save("off"), WriteRecord("none"), Know("none")} \subseteq Steps
  BY AllSteps DEF Statuses
<1>3. \A x \in Pieces : Save("off") \notin D(x) /\ Save("off") \notin E(x)
  BY Differ
<1>4. Of(p0, T0) /\ First(p0, Save("off"))
  BY <1>2, One DEF First
<1>5. p = DeletePlan(a, keep)
  BY DEF DeletePlan
<1>6. Of(p7, T7) /\ First(p7, Save("off"))
  <2> HIDE DEF D, E, p0, T0
  <2>1. Of(p1, T0 \cup D("hook")) /\ First(p1, Save("off"))
    BY <1>1, <1>3, <1>4, Both, FirstKept DEF Pieces
  <2> HIDE DEF p1
  <2>2. Of(p2, T0 \cup D("hook") \cup D("cron")) /\ First(p2, Save("off"))
    BY <1>1, <1>3, <2>1, Both, FirstKept DEF Pieces
  <2> HIDE DEF p2
  <2>3. Of(p3, T0 \cup D("hook") \cup D("cron") \cup D("pool")) /\ First(p3, Save("off"))
    BY <1>1, <1>3, <2>2, Both, FirstKept DEF Pieces
  <2> HIDE DEF p3
  <2>4. Of(p4, T0 \cup D("hook") \cup D("cron") \cup D("pool") \cup D("unit")) /\ First(p4, Save("off"))
    BY <1>1, <1>3, <2>3, Both, FirstKept DEF Pieces
  <2> HIDE DEF p4
  <2>5. Of(p5, T0 \cup D("hook") \cup D("cron") \cup D("pool") \cup D("unit") \cup E("db")) /\ First(p5, Save("off"))
    BY <1>1, <1>3, <2>4, Both, FirstKept DEF Pieces
  <2> HIDE DEF p5
  <2>6. Of(p6, T0 \cup D("hook") \cup D("cron") \cup D("pool") \cup D("unit") \cup E("db") \cup D("files")) /\ First(p6, Save("off"))
    BY <1>1, <1>3, <2>5, Both, FirstKept DEF Pieces
  <2> HIDE DEF p6
  <2> QED
    BY <1>1, <1>3, <2>6, Both, FirstKept DEF Pieces
<1>7. /\ WriteRecord("none") \notin T7 /\ Drop("secrets") \notin T8 /\ Know("none") \notin T9
      /\ Save("off") \notin {WriteRecord("none"), Know("none")} /\ Know("none") # Drop("secrets") /\ WriteRecord("none") # Know("none")
      /\ Drop("secrets") # WriteRecord("none")
  BY DEF Drop, Save, Know, WriteRecord
<1>8. /\ Drop("files") \in T7 /\ WriteRecord("none") \in T8 /\ T9 \cap {WriteRecord("none")} = {WriteRecord("none")}
      /\ T \subseteq {Drop(q) : q \in Pieces} \cup {Save("off"), Know("none"), WriteRecord("none")}
      /\ \A q \in Holdings(a) : q = "db" \/ Drop(q) \in T
      /\ T8 \subseteq T9
  BY Belongs DEF Pieces
<1>9. D("secrets") \subseteq {Drop("secrets")} /\ "secrets" \in Pieces
  BY DEF Pieces
<1> HIDE DEF D, E, p7, T7, p0, T0, p1, p2, p3, p4, p5, p6
<1>10. /\ Of(p8, T8) /\ First(p8, Save("off")) /\ Precedes(p8, Drop("files"), WriteRecord("none"))
       /\ Precedes(p8, WriteRecord("none"), Drop("secrets"))
  <2>1. Of(<<WriteRecord("none")>>, {WriteRecord("none")})
    BY <1>2, One
  <2>2. Of(p8, T8) /\ First(p8, Save("off"))
    BY <1>6, <1>7, <2>1, Both, FirstKept
  <2>3. Precedes(p8, Drop("files"), WriteRecord("none"))
    BY <1>6, <1>7, <1>8, <2>1, PrecedesAbsent, PrecedesKept
  <2> HIDE DEF p8, T8
  <2> QED
    BY <2>2, <2>3, <1>7, PrecedesAbsent
<1> HIDE DEF p8, T8
<1>11. /\ Of(p9, T9) /\ First(p9, Save("off")) /\ Precedes(p9, Drop("files"), WriteRecord("none"))
       /\ Precedes(p9, WriteRecord("none"), Drop("secrets"))
       /\ \A i \in 1..Len(p9) : p9[i] = Drop("secrets") => i = Len(p9)
  <2>1. Of(Leave(a, "secrets"), D("secrets"))
    BY <1>1, <1>9
  <2>2. Of(p9, T9)
    BY <1>10, <2>1, Both
  <2>3. First(p9, Save("off"))
    BY <1>3, <1>9, <1>10, <2>1, FirstKept
  <2>4. WriteRecord("none") \notin D("secrets")
    BY <1>7, <1>9
  <2>5. Precedes(p9, Drop("files"), WriteRecord("none"))
    BY <1>10, <2>1, <2>4, PrecedesKept
  <2>6. Precedes(p9, WriteRecord("none"), Drop("secrets"))
    BY <1>8, <1>10, <2>1, PrecedesKept
  <2>7. CASE "secrets" \in Holdings(a)
    <3>1. p9 = p8 \o <<Drop("secrets")>>
      BY <2>7 DEF Leave, OnlyIf
    <3>2. Ends(p9, Drop("secrets"))
      BY <3>1, <1>7, <1>9, <1>10, AllSteps, EndsWith
    <3> QED
      BY <3>2, <2>2, <2>3, <2>5, <2>6 DEF Ends
  <2>8. CASE "secrets" \notin Holdings(a)
    <3>1. Drop("secrets") \notin T9
      BY <2>8, <1>7 DEF D
    <3> QED
      BY <3>1, <2>2, <2>3, <2>5, <2>6 DEF Of, In
  <2> QED
    BY <2>7, <2>8
<1> HIDE DEF p9, T9
<1>12. /\ Of(p, T) /\ First(p, Save("off")) /\ Precedes(p, Drop("files"), WriteRecord("none"))
       /\ Precedes(p, WriteRecord("none"), Drop("secrets"))
       /\ Ends(p, Know("none")) /\ p # <<>> /\ Len(p9) \in Nat /\ Len(p) = Len(p9) + 1
  <2>1. Of(<<Know("none")>>, {Know("none")})
    BY <1>2, One
  <2>2. Of(p, T) /\ First(p, Save("off"))
    BY <1>7, <1>11, <2>1, Both, FirstKept
  <2>3. Precedes(p, Drop("files"), WriteRecord("none"))
    BY <1>7, <1>11, <2>1, PrecedesKept
  <2>4. Precedes(p, WriteRecord("none"), Drop("secrets"))
    BY <1>7, <1>11, <2>1, PrecedesKept
  <2>5. Ends(p, Know("none")) /\ p # <<>> /\ Len(p9) \in Nat /\ Len(p) = Len(p9) + 1
    BY <1>2, <1>7, <1>11, EndsWith
  <2> QED
    BY <2>2, <2>3, <2>4, <2>5
<1>13. \A i \in 1..Len(p) : p[i] = Drop("secrets") => i = Len(p) - 1
  <2>1. \A i \in 1..Len(p9) : p[i] = p9[i]
    BY <1>2, <1>11, One, Joined DEF Of
  <2>2. \A i \in 1..Len(p) : p[i] = Know("none") <=> i = Len(p)
    BY <1>12 DEF Ends
  <2> HIDE DEF p
  <2>3. ASSUME NEW i \in 1..Len(p), p[i] = Drop("secrets") PROVE i = Len(p) - 1
    <3>1. i # Len(p)
      BY <2>2, <2>3, <1>7
    <3>2. i \in 1..Len(p9)
      BY <3>1, <1>12
    <3> QED
      BY <3>2, <2>1, <2>3, <1>11, <1>12
  <2> QED
    BY <2>3
<1> HIDE DEF p, T
<1>14. In(WriteRecord("none"), p) /\ \A q \in Holdings(a) : q = "db" \/ In(Drop(q), p)
  BY <1>8, <1>12 DEF Of, T
<1>15. Within(p, {Drop(q) : q \in Pieces} \cup {Save("off"), Know("none"), WriteRecord("none")})
  BY <1>8, <1>12, AllWithin
<1>16. FilesFirst(p) /\ p \in Seq(Steps)
  BY <1>12 DEF FilesFirst, Precedes, Of
<1> QED
  BY <1>5, <1>12, <1>13, <1>14, <1>15, <1>16

LEMMA DeleteBegins ==
  ASSUME NEW a \in AppIds, NEW l, NEW w, NEW r \in AppState, Proper(a, r), r.known # "none",
         NEW n, NEW keep, Begun(a, r, n), n.kind = "delete", n.plan = DeletePlan(a, keep)
  PROVE  Sound(a, n.plan) /\ (AtRest(a, r, l, w) => Underway(a, r, n, l, w))
<1> DEFINE p == n.plan
           S == {Drop(q) : q \in Pieces} \cup {Save("off"), Know("none"), WriteRecord("none")}
<1>1. /\ p \in Seq(Steps) /\ p # <<>> /\ Within(p, S)
      /\ \A q \in Holdings(a) : q = "db" \/ In(Drop(q), p)
      /\ In(WriteRecord("none"), p) /\ First(p, Save("off")) /\ Ends(p, Know("none"))
      /\ FilesFirst(p) /\ Precedes(p, WriteRecord("none"), Drop("secrets"))
      /\ \A i \in 1..Len(p) : p[i] = Drop("secrets") => i = Len(p) - 1
  BY DeletionPlan
<1> HIDE DEF p
<1>2. AtRest(a, r, l, w) => Served(a, r)
  BY DEF AtRest
<1>3. \A q \in r.owns : Waits(p, q)
  <2> SUFFICES ASSUME NEW q \in r.owns PROVE Waits(p, q)
    OBVIOUS
  <2>1. CASE q = "running"
    <3>1. "unit" \in Holdings(a)
      BY <2>1 DEF Proper
    <3> QED
      BY <2>1, <3>1, <1>1 DEF Waits
  <2>2. CASE q # "running"
    BY <2>2, <1>1 DEF Proper, Waits
  <2> QED
    BY <2>1, <2>2
<1>4. Template[a] = "bot" => In(Drop("secrets"), p)
  BY <1>1, Belongs DEF Pieces
<1>5. AtRest(a, r, l, w) => Deleting(a, r, n)
  BY <1>1, <1>2, <1>3, <1>4 DEF Deleting, Begun, p, Served
<1>6. AtRest(a, r, l, w) /\ Template[a] = "bot" => Guarded(p, r)
  <2> SUFFICES ASSUME AtRest(a, r, l, w), Template[a] = "bot" PROVE Guarded(p, r)
    OBVIOUS
  <2>1. "secrets" \in r.owns
    BY <1>2 DEF Served
  <2>2. \A i \in 1..Len(p) : p[i] \in Writes => i = 1
    BY <1>1, Differ DEF Within, Writes, First
  <2>3. Of(p, {p[i] : i \in 1..Len(p)})
    BY <1>1 DEF Of, In
  <2> QED
    BY <1>1, <2>1, <2>2, <2>3, Cautious DEF Readable
<1>7. Sound(a, p)
  <2>1. \A q \in Pieces : Put(q) \notin S
    BY DEF Put, Drop, Save, Know, WriteRecord
  <2> HIDE DEF S
  <2>2. \A q \in Pieces : ~In(Put(q), p)
    BY <1>1, <2>1 DEF Within, In
  <2> QED
    BY <1>1, <2>2 DEF Sound
<1> QED
  BY <1>5, <1>6, <1>7 DEF Underway, p

LEMMA ArchivePlan ==
  ASSUME NEW a \in AppIds, Template[a] # "bot"
  PROVE  /\ Of(InstallArchive(a), {Put(q) : q \in Holdings(a)} \cup {Save("on")})
         /\ Ends(InstallArchive(a), Save("on")) /\ InstallArchive(a) # <<>>
<1> DEFINE D(x) == IF x \in Holdings(a) THEN {Put(x)} ELSE {}
           p0 == OnlyIf("user" \in Holdings(a), Put("user"))
           p1 == p0 \o <<Put("files")>>
           p2 == p1 \o OnlyIf("pool" \in Holdings(a), Put("pool"))
           p3 == p2 \o OnlyIf("unit" \in Holdings(a), Put("unit"))
           p4 == p3 \o OnlyIf("db" \in Holdings(a), Put("db"))
           p5 == p4 \o <<Save("on")>>
           T1 == D("user") \cup {Put("files")}
           T4 == T1 \cup D("pool") \cup D("unit") \cup D("db")
<1>1. \A x \in Pieces : Of(OnlyIf(x \in Holdings(a), Put(x)), D(x))
  BY None, One, AllSteps DEF OnlyIf
<1>2. Of(p4, T4)
  <2>1. Of(p0, D("user"))
    BY <1>1 DEF Pieces
  <2>2. Of(<<Put("files")>>, {Put("files")})
    BY One, AllSteps DEF Pieces
  <2> HIDE DEF D, p0
  <2>3. Of(p1, T1)
    BY <2>1, <2>2, Both
  <2> HIDE DEF p1, T1
  <2>4. Of(p2, T1 \cup D("pool"))
    BY <1>1, <2>3, Both DEF Pieces
  <2> HIDE DEF p2
  <2>5. Of(p3, T1 \cup D("pool") \cup D("unit"))
    BY <1>1, <2>4, Both DEF Pieces
  <2> HIDE DEF p3
  <2> QED
    BY <1>1, <2>5, Both DEF Pieces
<1>3. T4 = {Put(q) : q \in Holdings(a)}
  <2>1. Holdings(a) \subseteq {"user", "files", "pool", "unit", "db"} /\ "files" \in Holdings(a)
    BY Belongs DEF Pieces
  <2> QED
    BY <2>1
<1>4. p5 = InstallArchive(a)
  BY DEF InstallArchive
<1>5. Save("on") \in Steps /\ Save("on") \notin {Put(q) : q \in Holdings(a)}
  BY AllSteps, Differ DEF Statuses
<1> HIDE DEF p4, T4
<1>6. Of(p5, {Put(q) : q \in Holdings(a)} \cup {Save("on")})
  BY <1>2, <1>3, <1>5, One, Both
<1>7. Ends(p5, Save("on")) /\ p5 # <<>>
  BY <1>2, <1>3, <1>5, EndsWith
<1> QED
  BY <1>4, <1>6, <1>7

LEMMA BotPlan ==
  ASSUME NEW a \in AppIds, Template[a] = "bot", NEW r, r.record = "none"
  PROVE  LET p == InstallPlan(a) IN
         /\ Of(p, {Put(q) : q \in Holdings(a)} \cup {WriteRecord("off"), Know("on"), Save("on")})
         /\ Ends(p, Save("on")) /\ p # <<>> /\ Guarded(p, r)
<1> DEFINE p == <<Put("user"), Put("files"), Put("db"), Put("pool"), Put("cron"), Put("secrets"),
                  WriteRecord("off"), Know("on"), Put("hook"), Save("on")>>
           T == {Put(q) : q \in Holdings(a)} \cup {WriteRecord("off"), Know("on"), Save("on")}
<1>1. p = InstallPlan(a)
  BY DEF InstallPlan
<1>2. T = {Put("user"), Put("files"), Put("db"), Put("pool"), Put("cron"), Put("secrets"), Put("hook"),
           WriteRecord("off"), Know("on"), Save("on")}
  BY Belongs DEF Pieces
<1>3. T \subseteq Steps
  BY <1>2, AllSteps DEF Pieces, Statuses
<1>4. /\ p \in Seq(Steps) /\ Len(p) = 10 /\ p # <<>>
      /\ p[1] = Put("user") /\ p[2] = Put("files") /\ p[3] = Put("db") /\ p[4] = Put("pool") /\ p[5] = Put("cron")
      /\ p[6] = Put("secrets") /\ p[7] = WriteRecord("off") /\ p[8] = Know("on") /\ p[9] = Put("hook") /\ p[10] = Save("on")
  BY <1>2, <1>3
<1> HIDE DEF p, T
<1>5. \A i \in 1..Len(p) : i \in {1, 2, 3, 4, 5, 6, 7, 8, 9, 10}
  BY <1>4
<1>6. Of(p, T)
  BY <1>2, <1>4, <1>5 DEF Of, In
<1>7. Ends(p, Save("on"))
  BY <1>4, <1>5, Differ DEF Ends
<1>8. Guarded(p, r)
  <2>1. Drop("secrets") \notin T
    BY <1>2, Differ
  <2>2. \A i \in 1..Len(p) : p[i] # Drop("secrets")
    BY <1>6, <2>1 DEF Of, In
  <2>3. \A i \in 1..Len(p) : p[i] \in Writes => i \in {7, 10}
    BY <1>4, <1>5, Differ DEF Writes
  <2> QED
    BY <1>4, <2>2, <2>3 DEF Guarded, Readable, SecretsFirst, RecordFirst
<1> QED
  BY <1>1, <1>4, <1>6, <1>7, <1>8 DEF T

LEMMA InstallBegins ==
  ASSUME NEW a \in AppIds, NEW l, NEW w, NEW r \in AppState, Proper(a, r), r.known = "none",
         Holdings(a) \cap r.owns \subseteq {"hook"}, Template[a] = "bot" => r.record = "none",
         NEW n, Begun(a, r, n), n.kind = "install", n.plan = InstallPlan(a)
  PROVE  Sound(a, n.plan) /\ Underway(a, r, n, l, w)
<1> DEFINE p == n.plan
           S == {Put(q) : q \in Holdings(a)} \cup {WriteRecord("off"), Know("on"), Save("on")}
<1>1. PICK T : /\ Of(p, T) /\ {Put(q) : q \in Holdings(a)} \subseteq T /\ T \subseteq S
               /\ Ends(p, Save("on")) /\ p # <<>> /\ (Template[a] = "bot" => Guarded(p, r))
  <2>1. CASE Template[a] = "bot"
    <3>1. Of(p, S) /\ Ends(p, Save("on")) /\ p # <<>> /\ Guarded(p, r)
      BY <2>1, BotPlan
    <3> QED
      BY <3>1
  <2>2. CASE Template[a] # "bot"
    <3>1. p = InstallArchive(a)
      BY <2>2 DEF InstallPlan
    <3>2. Of(p, {Put(q) : q \in Holdings(a)} \cup {Save("on")}) /\ Ends(p, Save("on")) /\ p # <<>>
      BY <2>2, <3>1, ArchivePlan
    <3> QED
      BY <2>2, <3>2
  <2> QED
    BY <2>1, <2>2
<1> HIDE DEF p
<1>2. r.owns \subseteq {"hook"}
  <2>1. "unit" \in r.owns => "unit" \in Holdings(a)
    BY DEF Proper
  <2> QED
    BY <2>1 DEF Proper
<1>3. \A q \in Holdings(a) : In(Put(q), p)
  BY <1>1 DEF Of
<1>4. Within(p, S)
  BY <1>1, AllWithin
<1>5. Installing(a, r, n)
  BY <1>1, <1>2, <1>3, <1>4, Belongs, Needed DEF Installing, Begun, p
<1>6. Sound(a, p)
  <2>1. ASSUME NEW q \in Pieces, In(Put(q), p) PROVE q \in Holdings(a)
    <3>1. Put(q) \in S
      BY <1>1, <2>1 DEF Of
    <3> QED
      BY <3>1 DEF Put, WriteRecord, Know, Save
  <2> QED
    BY <1>1, <2>1 DEF Of, Sound
<1> QED
  BY <1>1, <1>5, <1>6 DEF Underway, p
-----------------------------------------------------------------------------
(* Types *)

LEMMA NothingTyped == NoOperation \in OperationState /\ NoApp \in AppState /\ NoOperation.kind = "none" /\ Sound(NoOperation.id, NoOperation.plan)
<1>1. (CHOOSE a \in AppIds : TRUE) \in AppIds
  BY AppAssumption
<1>2. NoApp \in AppState
  BY DEF NoApp, AppState, Statuses
<1>3. <<>> \in Seq(Steps)
  BY EmptySeq
<1>4. \A s : ~In(s, <<>>)
  BY None DEF Of
<1> QED
  BY <1>1, <1>2, <1>3, <1>4 DEF NoOperation, OperationState, Sound

LEMMA Markings == ASSUME NEW s \in Steps PROVE Marking(s) \subseteq Pieces
<1>1. CASE \E q \in Pieces : s = Put(q)
  BY <1>1 DEF Marking, Put
<1>2. CASE \A q \in Pieces : s # Put(q)
  <2>1. s[1] # "put"
    BY <1>2 DEF Steps, Writes, Put, Drop, Know, WriteRecord, Save, Files
  <2> QED
    BY <2>1 DEF Marking
<1> QED
  BY <1>1, <1>2

LEMMA Takes ==
  ASSUME AppTypes, operation.kind # "none", operation.plan # <<>>, Possible(NextStep), NEW r, r = app[operation.id]
  PROVE  Done(r, NextStep) \in AppState /\ Proper(operation.id, Done(r, NextStep))
<1> DEFINE h == NextStep
           a == operation.id
           t == Done(r, h)
<1>1. /\ a \in AppIds /\ r \in AppState /\ Proper(a, r) /\ operation.plan \in Seq(Steps)
      /\ \A q \in Pieces : In(Put(q), operation.plan) => q \in Holdings(a) \cup {"running"}
  BY DEF AppTypes, OperationState, Sound
<1>2. h \in Steps /\ In(h, operation.plan)
  BY <1>1, Still DEF NextStep, Continues
<1>3. Effect(r, h, t, operation)
  BY <1>1, <1>2, Effects
<1>4. "unit" \in r.owns \/ h \notin {Drop("unit"), Drop("running"), Put("running")}
  BY DEF Possible
<1> HIDE DEF h, t, a
<1>5. t \in AppState /\ t.owns \subseteq Pieces
  BY <1>3 DEF Effect, AppState
<1>6. ASSUME NEW q \in t.owns PROVE q \in Holdings(a) \cup {"running"}
  <2>1. q \in Pieces
    BY <1>5
  <2>2. h = Put(q) \/ q = "running" \/ q = "files" \/ q \in r.owns
    BY <1>3, <1>6, <2>1 DEF Effect
  <2> QED
    BY <1>1, <1>2, <2>1, <2>2, Belongs DEF Proper
<1>7. "running" \in t.owns => "unit" \in t.owns
  <2>1. h = Put("unit") => "unit" \in t.owns
    BY <1>3 DEF Effect, Pieces
  <2>2. "unit" \in r.owns /\ h # Drop("unit") => "unit" \in t.owns
    BY <1>3 DEF Effect, Pieces
  <2>3. "running" \in t.owns /\ h # Put("unit") /\ h # Put("running") => "running" \in r.owns /\ h # Drop("unit")
    BY <1>3 DEF Effect, Pieces
  <2>4. h = Put("running") => "unit" \in r.owns /\ h # Drop("unit")
    BY <1>4 DEF Put, Drop
  <2> QED
    BY <1>1, <2>1, <2>2, <2>3, <2>4 DEF Proper
<1>8. Proper(a, t)
  BY <1>6, <1>7 DEF Proper
<1> QED
  BY <1>5, <1>8 DEF t, h, a

LEMMA TailSound == ASSUME NEW a, NEW p, Sound(a, p), p # <<>> PROVE Sound(a, Tail(p))
<1>1. Continues(p, Tail(p), Head(p))
  BY Still DEF Sound
<1> QED
  BY <1>1 DEF Sound, Continues

LEMMA NothingPut ==
  ASSUME NEW a, NEW p, NEW T, Of(p, T), T \subseteq {Drop(q) : q \in Pieces} \cup {Know(x) : x \in Statuses} \cup {WriteRecord("none"), Put("running"), Files("back")}
  PROVE  Sound(a, p)
<1>1. \A q \in Pieces : Put(q) \in T => q = "running"
  BY Differ
<1> QED
  BY <1>1 DEF Of, Sound

LEMMA UndoSound ==
  ASSUME AppTypes, NEW s, NEW made
  PROVE  Sound(operation.id, Undo(s, made))
<1> DEFINE a == operation.id
           back == <<Know(operation.before.known)>>
           S == {Drop(q) : q \in Pieces} \cup {Know(x) : x \in Statuses} \cup {WriteRecord("none"), Put("running"), Files("back")}
<1>1. Know(operation.before.known) \in S /\ S \subseteq Steps /\ {Drop("hook"), Drop("cron"), Drop("running")} \subseteq S
  BY AllSteps DEF AppTypes, OperationState, AppState, Pieces, Statuses
<1>2. Of(back, {Know(operation.before.known)}) /\ Of(<<>>, {})
  BY <1>1, None, One
<1>3. CASE operation.kind = "install"
  <2> DEFINE first == IF s = Save("on") /\ Template[a] = "bot" THEN <<Drop("hook")>> ELSE <<>>
  <2>1. PICK T : Of(CleanUp(made), T) /\ T \subseteq {Drop(x) : x \in Pieces} \cup {WriteRecord("none")}
    BY CleaningUp
  <2>2. PICK U : Of(first, U) /\ U \subseteq {Drop("hook")}
    <3>1. Of(<<Drop("hook")>>, {Drop("hook")})
      BY <1>1, One
    <3> QED
      BY <1>2, <3>1
  <2>3. Undo(s, made) = first \o back \o CleanUp(made)
    BY <1>3 DEF Undo
  <2> HIDE DEF first, back
  <2>4. Of(first \o back \o CleanUp(made), U \cup {Know(operation.before.known)} \cup T)
    BY <1>2, <2>1, <2>2, Both
  <2>5. U \cup {Know(operation.before.known)} \cup T \subseteq S
    BY <1>1, <2>1, <2>2
  <2> QED
    BY <2>3, <2>4, <2>5, NothingPut
<1>4. CASE operation.kind = "enable" /\ Template[a] = "bot"
  <2>1. Undo(s, made) \in {back, <<Drop("hook")>> \o back, back \o <<Drop("cron"), Drop("hook")>>}
    BY <1>4 DEF Undo
  <2>2. Of(<<Drop("hook")>>, {Drop("hook")}) /\ Of(<<Drop("cron"), Drop("hook")>>, {Drop("cron"), Drop("hook")})
    BY <1>1, One, Two, Differ
  <2> HIDE DEF back
  <2>3. /\ Of(<<Drop("hook")>> \o back, {Drop("hook")} \cup {Know(operation.before.known)})
        /\ Of(back \o <<Drop("cron"), Drop("hook")>>, {Know(operation.before.known)} \cup {Drop("cron"), Drop("hook")})
    BY <1>2, <2>2, Both
  <2>4. \E T : Of(Undo(s, made), T) /\ T \subseteq S
    <3> HIDE DEF S
    <3> QED
      BY <1>1, <1>2, <2>1, <2>3
  <2> QED
    BY <2>4, NothingPut
<1>5. CASE operation.kind # "install" /\ ~(operation.kind = "enable" /\ Template[a] = "bot")
  <2>1. PICK T : Of(Undo(s, made), T) /\ T \subseteq S
    <3>1. Undo(s, made) \in {<<Drop("running")>>, <<Put("running")>>, <<Files("back")>>, <<>>}
      BY <1>5 DEF Undo
    <3>2. Drop("running") \in S /\ Put("running") \in S /\ Files("back") \in S
      BY DEF Pieces
    <3> HIDE DEF S
    <3>3. \A x \in S : Of(<<x>>, {x}) /\ {x} \subseteq S
      BY <1>1, One
    <3>4. Of(<<>>, {}) /\ {} \subseteq S
      BY <1>2
    <3>5. CASE Undo(s, made) = <<>>
      BY <3>4, <3>5
    <3>6. CASE \E x \in S : Undo(s, made) = <<x>>
      BY <3>3, <3>6
    <3> QED
      BY <3>1, <3>2, <3>5, <3>6
  <2> QED
    BY <2>1, NothingPut
<1> QED
  BY <1>3, <1>4, <1>5
-----------------------------------------------------------------------------
(* The steps of the applications *)

Starts(a) == Install(a) \/ UpdateMirzaBot(a) \/ \E b \in BOOLEAN : DeleteApp(a, b) \/ SetEnabled(a, b)

LEMMA Beginning ==
  ASSUME AppTypes, NEW a \in AppIds, Starts(a), NEW l, NEW w
  PROVE  /\ AppTypes' /\ UNCHANGED <<app, halfway, stopped, leaving>>
         /\ operation.kind = "none" /\ operation'.kind # "none" /\ operation'.id = a
         /\ AtRest(a, app[a], l, w) => Underway(a, app[a], operation', l, w)
<1> DEFINE r == app[a]
           n == operation'
<1>1. r \in AppState /\ Proper(a, r) /\ newest \in Nat /\ operations \in Nat
  BY DEF AppTypes
<1>2. ASSUME NEW kind \in {"install", "delete", "enable", "disable", "update"}, NEW plan, Begins(kind, a, plan)
      PROVE  /\ n = [kind |-> kind, id |-> a, plan |-> plan, made |-> {}, before |-> r, to |-> newest]
             /\ Begun(a, r, n) /\ n.kind = kind /\ n.plan = plan /\ n.kind # "none"
             /\ operation.kind = "none" /\ UNCHANGED <<app, newest, halfway, stopped, leaving>>
             /\ Sound(a, plan) => AppTypes'
  <2>1. /\ n = [kind |-> kind, id |-> a, plan |-> plan, made |-> {}, before |-> r, to |-> newest]
        /\ operation.kind = "none" /\ UNCHANGED <<app, newest, halfway, stopped, leaving>> /\ operations' \in Nat
    BY <1>1, <1>2 DEF Begins
  <2>2. n.kind = kind /\ n.plan = plan /\ Begun(a, r, n) /\ kind # "none"
    BY <1>1, <2>1 DEF Begun
  <2>3. Sound(a, plan) => n \in OperationState
    BY <1>1, <2>1 DEF OperationState, Sound
  <2> QED
    BY <2>1, <2>2, <2>3 DEF AppTypes, Begun
<1>3. CASE Install(a)
  <2>1. Begins("install", a, InstallPlan(a))
    BY <1>3 DEF Install
  <2>2. /\ r.known = "none" /\ Holdings(a) \cap r.owns \subseteq {"hook"}
        /\ Template[a] = "bot" => r.record = "none"
    BY <1>3 DEF Install, Known, Room
  <2> HIDE DEF r, n
  <2>3. Sound(a, n.plan) /\ Underway(a, r, n, l, w)
    BY <1>1, <1>2, <2>1, <2>2, InstallBegins
  <2> QED
    BY <1>2, <2>1, <2>3 DEF Begun, r, n
<1>4. CASE UpdateMirzaBot(a)
  <2>1. Begins("update", a, UpdatePlan(a))
    BY <1>4 DEF UpdateMirzaBot
  <2>2. r.known # "none" /\ Template[a] = "bot" /\ {"files", "secrets"} \subseteq r.owns /\ r = app[a]
    BY <1>4 DEF UpdateMirzaBot, Known
  <2> HIDE DEF r, n
  <2>3. Sound(a, n.plan) /\ (AtRest(a, r, l, w) => Underway(a, r, n, l, w))
    BY <1>1, <1>2, <2>1, <2>2, UpdateBegins
  <2> QED
    BY <1>2, <2>1, <2>3 DEF Begun, r, n
<1>5. ASSUME NEW keep, DeleteApp(a, keep)
      PROVE  /\ AppTypes' /\ UNCHANGED <<app, halfway, stopped, leaving>> /\ operation.kind = "none" /\ n.kind # "none" /\ n.id = a
             /\ AtRest(a, r, l, w) => Underway(a, r, n, l, w)
  <2>1. Begins("delete", a, DeletePlan(a, keep)) /\ r.known # "none"
    BY <1>5 DEF DeleteApp, Known
  <2> HIDE DEF r, n
  <2>2. Sound(a, n.plan) /\ (AtRest(a, r, l, w) => Underway(a, r, n, l, w))
    BY <1>1, <1>2, <2>1, DeleteBegins
  <2> QED
    BY <1>2, <2>1, <2>2 DEF Begun
<1>6. CASE SetEnabled(a, TRUE)
  <2>1. Begins("enable", a, EnablePlan(a))
    BY <1>6 DEF SetEnabled
  <2>2. r.known # "none" /\ (Template[a] = "bot" => "secrets" \in r.owns)
    BY <1>6 DEF SetEnabled, Known
  <2> HIDE DEF r, n
  <2>3. Sound(a, n.plan) /\ (AtRest(a, r, l, w) => Underway(a, r, n, l, w))
    BY <1>1, <1>2, <2>1, <2>2, EnableBegins
  <2> QED
    BY <1>2, <2>1, <2>3 DEF Begun, r, n
<1>7. CASE SetEnabled(a, FALSE)
  <2>1. Begins("disable", a, DisablePlan(a)) /\ r.known # "none"
    BY <1>7 DEF SetEnabled, Known
  <2> HIDE DEF r, n
  <2>2. Sound(a, n.plan) /\ (AtRest(a, r, l, w) => Underway(a, r, n, l, w))
    BY <1>1, <1>2, <2>1, DisableBegins
  <2> QED
    BY <1>2, <2>1, <2>2 DEF Begun, r, n
<1> HIDE DEF n, r
<1>8. CASE \E b \in BOOLEAN : DeleteApp(a, b) \/ SetEnabled(a, b)
  BY <1>5, <1>6, <1>7, <1>8 DEF n, r
<1> QED
  BY <1>3, <1>4, <1>8 DEF Starts

LEMMA StepDoneKeeps == AppInv /\ StepDone => AppInv'
<1> SUFFICES ASSUME AppInv, StepDone PROVE AppInv'
  OBVIOUS
<1> DEFINE i == operation.id
           h == NextStep
           t == Done(app[i], h)
           n == operation'
<1>1. AppTypes /\ i \in AppIds /\ operation \in OperationState /\ operation.plan # <<>> /\ app[i] \in AppState /\ Proper(i, app[i])
  BY DEF AppInv, AppTypes, OperationState, StepDone
<1>2. /\ app' = [app EXCEPT ![i] = t] /\ UNCHANGED <<newest, halfway, stopped, leaving, operations>>
      /\ n = [operation EXCEPT !.plan = Tail(@), !.made = @ \cup Marking(h)]
      /\ operation.kind # "none" /\ Possible(h)
  BY DEF StepDone
<1>3. h \in Steps /\ h = Head(operation.plan) /\ Tail(operation.plan) \in Seq(Steps) /\ Sound(i, Tail(operation.plan))
  BY <1>1, Later, TailSound DEF NextStep, OperationState, AppTypes
<1>4. Marking(h) \subseteq Pieces
  BY <1>3, Markings
<1>5. t \in AppState /\ Proper(i, t)
  BY <1>1, <1>2, Takes
<1>6. Effect(app[i], h, t, operation)
  BY <1>1, <1>3, Effects
<1> HIDE DEF h, t
<1>7. /\ n \in OperationState /\ n.plan = Tail(operation.plan) /\ n.made = operation.made \cup Marking(h)
      /\ n.kind = operation.kind /\ n.id = i /\ n.before = operation.before /\ n.to = operation.to
  BY <1>1, <1>2, <1>3, <1>4 DEF OperationState
<1>8. Advance(operation, n)
  BY <1>1, <1>3, <1>7 DEF Advance
<1>9. app'[i] = t /\ \A a \in AppIds \ {i} : app'[a] = app[a]
  BY <1>1, <1>2 DEF AppTypes
<1>10. AppTypes'
  BY <1>1, <1>2, <1>3, <1>5, <1>7, <1>9 DEF AppTypes
<1>11. ASSUME NEW a \in AppIds \ halfway', n.kind # "none", n.id = a PROVE Underway(a, app'[a], n, a \in leaving', a \in stopped')
  <2>1. Underway(i, app[i], operation, i \in leaving, i \in stopped)
    BY <1>2, <1>7, <1>11 DEF AppInv
  <2>2. Underway(i, t, n, i \in leaving, i \in stopped)
    BY <1>1, <1>3, <1>6, <1>8, <2>1, UnderwayStep
  <2> QED
    BY <1>2, <1>7, <1>9, <1>11, <2>2
<1>12. ASSUME NEW a \in AppIds \ halfway', a # i PROVE AtRest(a, app'[a], a \in leaving', a \in stopped')
  BY <1>2, <1>9, <1>12 DEF AppInv
<1> HIDE DEF n
<1> QED
  BY <1>2, <1>7, <1>10, <1>11, <1>12 DEF AppInv, n

LEMMA UndoFailsKeeps == AppInv /\ UndoFails => AppInv'
<1> SUFFICES ASSUME AppInv, UndoFails PROVE AppInv'
  OBVIOUS
<1> DEFINE i == operation.id
           n == operation'
<1>1. AppTypes /\ i \in AppIds /\ operation \in OperationState /\ operation.plan # <<>>
  BY DEF AppInv, AppTypes, OperationState, UndoFails
<1>2. /\ UNCHANGED <<app, newest, stopped, leaving, operations>> /\ halfway' = halfway \cup {i}
      /\ n = [operation EXCEPT !.plan = Tail(@)] /\ operation.kind = "undo"
  BY DEF UndoFails
<1>3. Tail(operation.plan) \in Seq(Steps) /\ Sound(i, Tail(operation.plan))
  BY <1>1, Later, TailSound DEF OperationState, AppTypes
<1>4. n \in OperationState /\ n.plan = Tail(operation.plan) /\ n.kind = "undo" /\ n.id = i
  BY <1>1, <1>2, <1>3 DEF OperationState
<1>5. AppTypes'
  BY <1>1, <1>2, <1>3, <1>4 DEF AppTypes
<1>6. ASSUME NEW a \in AppIds \ halfway' PROVE a # i /\ AtRest(a, app'[a], a \in leaving', a \in stopped')
  BY <1>2, <1>6 DEF AppInv
<1> HIDE DEF n
<1> QED
  BY <1>4, <1>5, <1>6 DEF AppInv, n

LEMMA RestsSame ==
  ASSUME NEW a, NEW r, NEW l, NEW w, NEW m, NEW v, AtRest(a, r, l, w), l <=> m, w <=> v
  PROVE  AtRest(a, r, m, v)
BY DEF AtRest, Whole

LEMMA FinishKeeps == AppInv /\ Finish => AppInv'
<1> SUFFICES ASSUME AppInv, Finish PROVE AppInv'
  OBVIOUS
<1> DEFINE i == operation.id
<1>1. AppTypes /\ i \in AppIds /\ operation \in OperationState /\ app[i] \in AppState /\ Proper(i, app[i])
  BY DEF AppInv, AppTypes, OperationState
<1>2. /\ UNCHANGED <<app, newest, halfway, operations>> /\ operation' = NoOperation
      /\ leaving' = IF app[i].known = "none" THEN leaving \ {i} ELSE leaving
      /\ stopped' = IF operation.kind \in {"install", "enable"} THEN stopped \ {i} ELSE stopped
      /\ operation.kind # "none" /\ operation.plan = <<>>
  BY DEF Finish
<1>3. AppTypes'
  BY <1>1, <1>2, NothingTyped DEF AppTypes
<1>4. ASSUME NEW a \in AppIds \ halfway' PROVE AtRest(a, app'[a], a \in leaving', a \in stopped')
  <2>1. CASE a = i
    <3>1. Underway(i, app[i], operation, i \in leaving, i \in stopped)
      BY <1>2, <1>4, <2>1 DEF AppInv
    <3>5. operation.plan = <<>> /\ operation.kind # "none"
      BY <1>2
    <3>6. ASSUME NEW v, i \in stopped => v \/ operation.kind \in {"install", "enable"}
          PROVE  AtRest(i, app[i], i \in leaving /\ app[i].known # "none", v)
      <4> DEFINE r == app[i]
                 o == operation
                 w == i \in stopped
                 l == i \in leaving
      <4>1. /\ i \in AppIds /\ r \in AppState /\ o \in OperationState /\ o.plan = <<>> /\ o.kind # "none"
            /\ Proper(i, r) /\ Underway(i, r, o, l, w) /\ (w => v \/ o.kind \in {"install", "enable"})
        BY <1>1, <3>1, <3>5, <3>6
      <4> HIDE DEF i, r, o, w, l
      <4>2. AtRest(i, r, l /\ r.known # "none", v)
        BY <4>1, FinishRests
      <4> QED
        BY <4>2 DEF r, l
    <3>0. i \in stopped => i \in stopped' \/ operation.kind \in {"install", "enable"}
      BY <1>2
    <3>2. AtRest(i, app[i], i \in leaving /\ app[i].known # "none", i \in stopped')
      BY <3>0, <3>6
    <3>3. (i \in leaving /\ app[i].known # "none") <=> i \in leaving'
      BY <1>2
    <3>4. AtRest(i, app[i], i \in leaving', i \in stopped')
      BY <3>2, <3>3, RestsSame
    <3> QED
      BY <1>2, <2>1, <3>4
  <2>2. CASE a # i
    <3>1. AtRest(a, app[a], a \in leaving, a \in stopped)
      BY <1>2, <1>4, <2>2 DEF AppInv
    <3>2. (a \in leaving <=> a \in leaving') /\ (a \in stopped <=> a \in stopped')
      BY <1>2, <2>2
    <3>3. AtRest(a, app[a], a \in leaving', a \in stopped')
      BY <3>1, <3>2, RestsSame
    <3> QED
      BY <1>2, <3>3
  <2> QED
    BY <2>1, <2>2
<1>5. operation'.kind = "none"
  BY <1>2, NothingTyped
<1> QED
  BY <1>3, <1>4, <1>5 DEF AppInv

LEMMA DieAndReloadKeeps == AppInv /\ DieAndReload => AppInv'
<1> SUFFICES ASSUME AppInv, DieAndReload PROVE AppInv'
  OBVIOUS
<1>1. /\ UNCHANGED <<newest, stopped, leaving, operations>> /\ operation' = NoOperation
      /\ app' = [a \in AppIds |-> [app[a] EXCEPT !.known = IF "files" \in app[a].owns THEN app[a].record ELSE "none"]]
      /\ halfway' = IF operation.kind = "none" THEN halfway ELSE halfway \cup {operation.id}
  BY DEF DieAndReload
<1>2. AppTypes
  BY DEF AppInv
<1>3. ASSUME NEW a \in AppIds
      PROVE  /\ app'[a] \in AppState /\ app'[a].owns = app[a].owns /\ app'[a].record = app[a].record
             /\ app'[a].known = (IF "files" \in app[a].owns THEN app[a].record ELSE "none") /\ app'[a].version = app[a].version /\ app'[a].running = app[a].running
  BY <1>1, <1>2, <1>3 DEF AppTypes, AppState, Statuses
<1>4. operation.id \in AppIds /\ app' \in [AppIds -> AppState]
  <2>1. DOMAIN app' = AppIds /\ app' = [a \in AppIds |-> app'[a]]
    BY <1>1
  <2> QED
    BY <1>2, <1>3, <2>1 DEF AppTypes, OperationState
<1>5. \A a \in AppIds : Proper(a, app'[a])
  BY <1>2, <1>3 DEF AppTypes, Proper
<1>6. AppTypes'
  BY <1>1, <1>2, <1>4, <1>5, NothingTyped DEF AppTypes
<1>7. ASSUME NEW a \in AppIds \ halfway' PROVE AtRest(a, app'[a], a \in leaving', a \in stopped')
  <2>1. AtRest(a, app[a], a \in leaving, a \in stopped)
    BY <1>1, <1>7 DEF AppInv
  <2>2. Template[a] = "bot" /\ app[a].record # "none" => "secrets" \in app[a].owns
    BY <2>1 DEF AtRest
  <2>3. app'[a].known # "none" => app[a].record # "none" /\ app'[a].known = app[a].record /\ Served(a, app'[a])
    BY <1>3, <2>2 DEF Served
  <2>4. ASSUME a \notin leaving
        PROVE  /\ app'[a].known = app'[a].record
               /\ app'[a].known = "none" => app'[a].owns \subseteq {"db", "hook"}
               /\ app'[a].known # "none" => Whole(a, app'[a], a \in stopped)
    <3>1. app[a].known = app[a].record
      BY <2>1, <2>4 DEF AtRest
    <3>2. app[a].known # "none" => Whole(a, app[a], a \in stopped) /\ "files" \in app[a].owns
      BY <2>1, <2>4, Belongs DEF AtRest, Whole, Lasting
    <3> QED
      BY <1>3, <2>1, <2>4, <3>1, <3>2 DEF AtRest, Whole
  <2> QED
    BY <1>1, <1>3, <2>2, <2>3, <2>4 DEF AtRest
<1>8. operation'.kind = "none"
  BY <1>1, NothingTyped
<1> QED
  BY <1>6, <1>7, <1>8 DEF AppInv

LEMMA StepFailsKeeps == AppInv /\ StepFails => AppInv'
<1> SUFFICES ASSUME AppInv, StepFails PROVE AppInv'
  OBVIOUS
<1> DEFINE i == operation.id
           h == NextStep
           o == operation
           n == operation'
           r == app[i]
           t == app'[i]
           goesOn == o.kind = "delete" /\ h = Drop("hook")
<1>1. AppTypes /\ i \in AppIds /\ o \in OperationState /\ o.plan # <<>> /\ r \in AppState /\ Proper(i, r)
  BY DEF AppInv, AppTypes, OperationState, StepFails
<1>2. /\ UNCHANGED <<newest, operations>> /\ o.kind \notin {"none", "undo"} /\ Fallible(h)
      /\ n = IF goesOn THEN [operation EXCEPT !.plan = Tail(@)]
             ELSE [operation EXCEPT !.kind = "undo", !.made = {}, !.plan = Undo(h, Marked(o.made, h))]
      /\ leaving' = IF o.kind = "delete" THEN leaving \cup {i} ELSE leaving
  BY DEF StepFails, Marked
<1>3. PICK late \in {FALSE, HalfDone(h) /\ Possible(h)} :
        /\ app' = IF late THEN [app EXCEPT ![i] = Done(@, h)] ELSE app
        /\ halfway' = IF o.kind = "install" /\ late /\ ~MarkedFirst(h) THEN halfway \cup {i} ELSE halfway
        /\ stopped' = IF CutsOff(h, late) THEN stopped \cup {i} ELSE stopped
  BY DEF StepFails
<1>4. h \in Steps /\ h = Head(o.plan) /\ Tail(o.plan) \in Seq(Steps) /\ Sound(i, Tail(o.plan))
  BY <1>1, Later, TailSound DEF NextStep, OperationState, AppTypes
<1>5. /\ t \in AppState /\ Proper(i, t) /\ (t = r \/ (t = Done(r, h) /\ HalfDone(h) /\ late))
      /\ app' \in [AppIds -> AppState] /\ \A a \in AppIds \ {i} : app'[a] = app[a]
  <2>1. CASE late
    <3>1. HalfDone(h) /\ Possible(h)
      BY <1>3, <2>1
    <3>2. Done(r, h) \in AppState /\ Proper(i, Done(r, h))
      BY <1>1, <1>2, <3>1, Takes
    <3>3. app' = [app EXCEPT ![i] = Done(r, h)]
      BY <1>3, <2>1
    <3> HIDE DEF h
    <3> QED
      BY <1>1, <2>1, <3>1, <3>2, <3>3 DEF AppTypes
  <2>2. CASE ~late
    BY <1>1, <1>3, <2>2 DEF AppTypes
  <2> QED
    BY <2>1, <2>2
<1>6. Sound(i, Undo(h, Marked(o.made, h))) /\ Undo(h, Marked(o.made, h)) \in Seq(Steps)
  BY <1>1, UndoSound DEF Sound
<1> HIDE DEF h, r, t
<1>7. n \in OperationState /\ n.id = i /\ n.before = o.before /\ n.to = o.to /\ Sound(i, n.plan)
  <2>1. CASE goesOn
    BY <1>1, <1>2, <1>4, <2>1 DEF OperationState
  <2>2. CASE ~goesOn
    BY <1>1, <1>2, <1>6, <2>2 DEF OperationState
  <2> QED
    BY <2>1, <2>2
<1>8. /\ goesOn => n.plan = Tail(o.plan) /\ n.kind = "delete" /\ n.made = o.made
      /\ ~goesOn => Failed(o, n) /\ n.plan = Undo(h, Marked(o.made, h))
  BY <1>1, <1>2, <1>7 DEF OperationState, Failed
<1>9. AppTypes'
  <2>1. halfway' \subseteq AppIds /\ leaving' \subseteq AppIds /\ stopped' \subseteq AppIds
    BY <1>1, <1>2, <1>3 DEF AppTypes
  <2>2. \A a \in AppIds : Proper(a, app'[a])
    BY <1>1, <1>5 DEF AppTypes, t
  <2> HIDE DEF n
  <2> QED
    BY <1>1, <1>2, <1>5, <1>7, <2>1, <2>2 DEF AppTypes, n
<1>10. ASSUME NEW a \in AppIds \ halfway', a # i PROVE AtRest(a, app'[a], a \in leaving', a \in stopped')
  <2>1. AtRest(a, app[a], a \in leaving, a \in stopped)
    BY <1>3, <1>10 DEF AppInv
  <2>2. (a \in leaving <=> a \in leaving') /\ (a \in stopped <=> a \in stopped')
    BY <1>2, <1>3, <1>10
  <2> QED
    BY <1>5, <1>10, <2>1, <2>2, RestsSame
<1>11. ASSUME i \notin halfway' PROVE Underway(i, t, n, i \in leaving', i \in stopped')
  <2>1. Underway(i, r, o, i \in leaving, i \in stopped)
    BY <1>1, <1>2, <1>3, <1>11 DEF AppInv, r
  <2> HIDE DEF n
  <2> DEFINE made == Marked(o.made, h)
  <2>0. ~goesOn => Failed(o, n) /\ n.plan = Undo(h, made)
    BY <1>8
  <2> HIDE DEF made
  <2>8. /\ AppTypes /\ i \in AppIds /\ o.plan # <<>> /\ r \in AppState /\ t \in AppState /\ h = Head(o.plan)
        /\ (t = r \/ (t = Done(r, h) /\ HalfDone(h))) /\ Fallible(h)
    BY <1>1, <1>2, <1>4, <1>5
  <2>9. /\ i \in stopped => i \in stopped'
        /\ o.kind \notin {"enable", "disable"} => stopped' = stopped
        /\ o.kind = "enable" /\ o.before.record = "on" /\ h \in {Put("cron"), Save("on")} => i \in stopped'
        /\ o.kind = "disable" /\ t # r /\ h = Drop("running") => i \in stopped'
    <3>1. o.kind = "enable" /\ o.before.record = "on" /\ h \in {Put("cron"), Save("on")} => CutsOff(h, late)
      BY DEF CutsOff
    <3>2. o.kind = "disable" /\ t # r /\ h = Drop("running") => CutsOff(h, late)
      BY <1>5 DEF CutsOff
    <3>3. CutsOff(h, late) => o.kind \in {"enable", "disable"}
      BY DEF CutsOff
    <3> QED
      BY <1>3, <3>1, <3>2, <3>3
  <2>2. CASE goesOn
    <3>1. Marking(h) = {}
      BY <2>2 DEF Marking, Drop
    <3>2. Advance(o, n)
      BY <1>1, <1>4, <1>7, <1>8, <2>2, <3>1 DEF Advance
    <3>3. Underway(i, t, n, i \in leaving', i \in stopped)
      BY <1>1, <1>4, <1>5, <2>1, <2>2, <3>2, HookStays
    <3> QED
      BY <2>2, <2>9, <3>3
  <2>3. CASE ~goesOn /\ o.kind = "install"
    <3>1. t = r \/ (t = Done(r, h) /\ MarkedFirst(h))
      BY <1>3, <1>5, <1>11, <2>3
    <3>2. Underway(i, t, n, i \in leaving, i \in stopped)
      BY <1>1, <1>4, <1>5, <1>8, <2>1, <2>3, <3>1, InstallFails
    <3> QED
      BY <1>2, <2>3, <2>9, <3>2
  <2>4. CASE ~goesOn /\ o.kind = "enable"
    <3> DEFINE w == i \in stopped
               v == i \in stopped'
               l == i \in leaving
    <3>2. Underway(i, r, o, l, w) /\ (w => v)
      BY <2>1, <2>9
    <3>3. o.before.record = "on" /\ h \in {Put("cron"), Save("on")} => v
      BY <2>9, <2>4
    <3> HIDE DEF w, v, l
    <3>4. Underway(i, t, n, l, v)
      BY <2>0, <2>8, <2>4, <3>2, <3>3, EnableFails
    <3>1. Underway(i, t, n, i \in leaving, i \in stopped')
      BY <3>4 DEF v, l
    <3> QED
      BY <1>2, <2>4, <3>1
  <2>5. CASE ~goesOn /\ o.kind = "disable"
    <3> DEFINE w == i \in stopped
               v == i \in stopped'
               l == i \in leaving
    <3>2. Underway(i, r, o, l, w) /\ (w => v)
      BY <2>1, <2>9
    <3>3. t # r /\ h = Drop("running") => v
      BY <2>9, <2>5
    <3> HIDE DEF w, v, l
    <3>4. Underway(i, t, n, l, v)
      BY <2>0, <2>8, <2>5, <3>2, <3>3, DisableFails
    <3>1. Underway(i, t, n, i \in leaving, i \in stopped')
      BY <3>4 DEF v, l
    <3> QED
      BY <1>2, <2>5, <3>1
  <2>6. CASE ~goesOn /\ o.kind = "update"
    <3>1. Underway(i, t, n, i \in leaving, i \in stopped)
      BY <2>0, <2>8, <2>1, <2>6, UpdateFails
    <3> QED
      BY <1>2, <2>6, <2>9, <3>1
  <2>7. CASE ~goesOn /\ o.kind = "delete"
    <3>1. i \in leaving'
      BY <1>2, <2>7
    <3>2. Underway(i, t, n, i \in leaving', i \in stopped)
      BY <2>0, <2>8, <2>1, <2>7, <3>1, DeleteFails
    <3> QED
      BY <2>7, <2>9, <3>2
  <2> QED
    BY <1>1, <1>2, <2>2, <2>3, <2>4, <2>5, <2>6, <2>7 DEF OperationState
<1>12. n.kind # "none"
  BY <1>2, <1>8 DEF Failed
<1> HIDE DEF n, goesOn
<1> QED
  BY <1>7, <1>9, <1>10, <1>11, <1>12 DEF AppInv, n, t
-----------------------------------------------------------------------------
(* Theorems *)

LEMMA AppInitInv == AppInit => AppInv
<1> SUFFICES ASSUME AppInit PROVE AppInv
  OBVIOUS
<1>1. PICK S \in SUBSET AppIds : app = [a \in AppIds |-> IF a \in S THEN Installed(a) ELSE NoApp]
  BY DEF AppInit
<1>2. operation = NoOperation /\ newest = 1 /\ halfway = {} /\ stopped = {} /\ leaving = {} /\ operations = 0
  BY DEF AppInit
<1>3. ASSUME NEW a \in AppIds
      PROVE  /\ UNION {Owning(q) : q \in Holdings(a)} \subseteq Holdings(a) \cup {"running"}
             /\ Holdings(a) \subseteq UNION {Owning(q) : q \in Holdings(a)}
             /\ "running" \in UNION {Owning(q) : q \in Holdings(a)} => "unit" \in UNION {Owning(q) : q \in Holdings(a)}
  BY Belongs DEF Owning
<1>4. ASSUME NEW a \in AppIds PROVE Installed(a) \in AppState /\ Proper(a, Installed(a)) /\ AtRest(a, Installed(a), FALSE, FALSE)
  <2>1. UNION {Owning(q) : q \in Holdings(a)} \subseteq Pieces
    BY <1>3, Belongs DEF Pieces
  <2>2. Installed(a) \in AppState
    BY <2>1 DEF Installed, AppState, Statuses
  <2>3. Template[a] = "bot" => "secrets" \in Holdings(a)
    BY Belongs DEF Pieces
  <2>4. Needs(a) \subseteq UNION {Owning(q) : q \in Holdings(a)}
    <3>1. Template[a] = "node" => "running" \in Owning("unit")
      BY DEF Owning
    <3> QED
      BY <1>3, <3>1, Needed
  <2> QED
    BY <1>3, <2>2, <2>3, <2>4 DEF Installed, Proper, AtRest, Served, Whole, Lasting
<1>5. ASSUME NEW a \in AppIds PROVE NoApp \in AppState /\ Proper(a, NoApp) /\ AtRest(a, NoApp, FALSE, FALSE)
  BY NothingTyped DEF NoApp, Proper, AtRest
<1>6. \A a \in AppIds : app[a] \in AppState /\ Proper(a, app[a]) /\ AtRest(a, app[a], FALSE, FALSE)
  BY <1>1, <1>4, <1>5
<1>7. AppTypes
  <2>1. app \in [AppIds -> AppState]
    BY <1>1, <1>4, <1>5
  <2> QED
    BY <1>2, <1>6, <2>1, NothingTyped DEF AppTypes
<1>8. ASSUME NEW a \in AppIds PROVE AtRest(a, app[a], a \in leaving, a \in stopped)
  <2>1. (FALSE <=> a \in leaving) /\ (FALSE <=> a \in stopped)
    BY <1>2
  <2> QED
    BY <1>6, <2>1, RestsSame
<1>9. operation.kind = "none"
  BY <1>2, NothingTyped
<1> QED
  BY <1>7, <1>8, <1>9 DEF AppInv

LEMMA AppNextInv == AppInv /\ [AppNext]_appVars => AppInv'
<1> SUFFICES ASSUME AppInv, [AppNext]_appVars PROVE AppInv'
  OBVIOUS
<1>1. CASE UNCHANGED appVars
  BY <1>1 DEF AppInv, AppTypes, appVars
<1>2. ASSUME NEW i \in AppIds, Starts(i) PROVE AppInv'
  <2>1. AppTypes
    BY DEF AppInv
  <2>2. /\ AppTypes' /\ UNCHANGED <<app, halfway, stopped, leaving>>
        /\ operation.kind = "none" /\ operation'.kind # "none" /\ operation'.id = i
        /\ \A l, w : AtRest(i, app[i], l, w) => Underway(i, app[i], operation', l, w)
    BY <1>2, <2>1, Beginning
  <2>3. ASSUME NEW a \in AppIds \ halfway' PROVE AtRest(a, app[a], a \in leaving', a \in stopped')
    BY <2>2, <2>3 DEF AppInv
  <2>4. ASSUME NEW a \in AppIds \ halfway', a = i PROVE Underway(a, app[a], operation', a \in leaving', a \in stopped')
    BY <2>2, <2>3, <2>4
  <2> QED
    BY <2>2, <2>3, <2>4 DEF AppInv
<1>3. CASE NewRelease
  BY <1>3 DEF NewRelease, AppInv, AppTypes
<1> QED
  BY <1>1, <1>2, <1>3, StepDoneKeeps, StepFailsKeeps, UndoFailsKeeps, FinishKeeps, DieAndReloadKeeps DEF AppNext, Starts

LEMMA AppInvEver == AppSpec => []AppInv
BY AppInitInv, AppNextInv, PTL DEF AppSpec

(* NothingLeft: an application that has no record has left no files, users, *)
(* pools, cron files, units or secrets behind (ExternalApps.delete, rollback of *)
(* the installations), whatever failed on the way, unless a clean-up       *)
(* failed, a command of the installation did its work and failed before it *)
(* was marked, the process died on it or its deletion failed on its way.   *)
THEOREM NothingLeftEver == AppSpec => []NothingLeft
<1>1. AppInv => NothingLeft
  <2> SUFFICES ASSUME AppInv, NEW a \in AppIds, Settled(a), ~Known(a) PROVE app[a].owns \subseteq {"db", "hook"}
    BY DEF NothingLeft
  <2>1. AtRest(a, app[a], a \in leaving, a \in stopped) /\ a \notin leaving
    BY DEF AppInv, Settled
  <2> QED
    BY <2>1 DEF AtRest, Known
<1> QED
  BY <1>1, AppInvEver, PTL

(* BotsReadable: at every step of every operation, a bot whose record is on *)
(* disk has its secrets, so that ensureBotTokenAvailable can read them,     *)
(* unless a clean-up failed, a command of the installation did its work and *)
(* failed before it was marked, or the process died on the bot.             *)
THEOREM BotsReadableEver == AppSpec => []BotsReadable
<1>1. AppInv => BotsReadable
  <2> SUFFICES ASSUME AppInv, NEW a \in AppIds \ halfway, Template[a] = "bot", app[a].record # "none" PROVE "secrets" \in app[a].owns
    BY DEF BotsReadable
  <2>1. CASE operation.kind # "none" /\ operation.id = a
    BY <2>1 DEF AppInv, Underway, Guarded, Readable
  <2>2. CASE ~(operation.kind # "none" /\ operation.id = a)
    BY <2>2 DEF AppInv, AtRest
  <2> QED
    BY <2>1, <2>2
<1> QED
  BY <1>1, AppInvEver, PTL

(* EnabledWhole: an enabled application lasts on the files of the version   *)
(* its record names and on its user, pool, unit, database and secrets,      *)
(* whatever step of an installation, an update or a change of its status    *)
(* failed.  Its webhook, cron file and running unit are there as well until *)
(* a change of the status of an enabled application fails at a step that    *)
(* takes them (setEnabled on an enabled bot: no cron file, no record;       *)
(* stopExternalAppNode without an answer), and again once it is enabled.    *)
THEOREM EnabledWholeEver == AppSpec => []EnabledWhole
<1>1. AppInv => EnabledWhole
  <2> SUFFICES ASSUME AppInv, NEW a \in AppIds, Settled(a), app[a].record = "on"
               PROVE  /\ app[a].running = app[a].version /\ app[a].known = "on"
                      /\ Needs(a) \ Switched \subseteq app[a].owns
                      /\ a \notin stopped => Needs(a) \subseteq app[a].owns
    BY DEF EnabledWhole
  <2>1. AtRest(a, app[a], a \in leaving, a \in stopped) /\ a \notin leaving
    BY DEF AppInv, Settled
  <2> QED
    BY <2>1, Needed DEF AtRest, Whole
<1> QED
  BY <1>1, AppInvEver, PTL
=============================================================================
