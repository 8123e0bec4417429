---------------------------- MODULE Certificates ----------------------------
(***************************************************************************)
(* The managed certificates (internal/app/certificates): the manager, whose *)
(* operations replace, delete and revoke the directory of a domain one      *)
(* after the other, and the TLS resolver, which scans those directories at  *)
(* the same time and holds no lock the manager knows.                       *)
(*                                                                         *)
(* Every write, rename, query and command may fail, the process may die     *)
(* between any two, and a command may have done its work when it fails.     *)
(***************************************************************************)
EXTENDS Integers, FiniteSets

CONSTANTS
  Domains,
  Legacy,    \* domains with a certificate in the old place, which Prepare copies
  MaxPairs   \* bound: certificates issued or imported

VARIABLES
  live,      \* the directory of each domain, or NoDir
  recorded,  \* domains with a row in subscription_domains
  lineage,   \* the pair certbot keeps for each domain, or NoPair
  minted,    \* pairs so far; the certificate and key of one issue are one pair
  dead,      \* pairs the authority has revoked
  work,      \* the operation under operationMutex, or Idle
  scan,      \* the resolver's scan, or NoScan
  served,    \* byName: the pair served for each domain, or NoPair
  unanswered,\* ghost: pairs revoked by a command that was reported as failed
  spoiled,   \* ghost: domains whose operation died, or failed twice
  torn       \* ghost: domains put back to their previous files since the scan began

certVars == <<live, recorded, lineage, minted, dead, work, scan, served, unanswered, spoiled, torn>>
files == <<live, recorded>>
authority == <<lineage, minted, dead, unanswered>>
resolver == <<scan, served>>

NoPair == 0
(* A directory: its pair, the status and serve_tls of its metadata, and    *)
(* whether it is certbot's (certbot_cert_name is there, not imported).      *)
NoDir == [pair |-> NoPair, status |-> "missing", serve |-> FALSE, certbot |-> FALSE]
Idle == [kind |-> "none", domain |-> CHOOSE d \in Domains : TRUE, step |-> "none", next |-> NoDir, prev |-> NoDir]
NoScan == [on |-> FALSE, todo |-> {}, at |-> {}, half |-> NoPair, found |-> [d \in Domains |-> NoPair], gone |-> {}]

ASSUME CertificateAssumption ==
  /\ IsFiniteSet(Domains) /\ Domains # {} /\ Legacy \subseteq Domains /\ MaxPairs \in Nat

Here == work.domain
Starts(kind, d, step) == work' = [Idle EXCEPT !.kind = kind, !.domain = d, !.step = step]
Goes(step) == work' = [work EXCEPT !.step = step] /\ UNCHANGED torn
Ends == work' = Idle /\ UNCHANGED torn
PutBackEnds(broken) ==
  /\ work' = Idle /\ torn' = torn \cup {Here}
  /\ spoiled' = IF broken THEN spoiled \cup {Here} ELSE spoiled
Free == work.kind = "none" /\ UNCHANGED <<torn, spoiled>> /\ UNCHANGED resolver
At(kinds, step) == work.kind \in kinds /\ work.step = step /\ UNCHANGED resolver
-----------------------------------------------------------------------------
(* Issue, Import, RenewDue and Renew, until certbot is called.  The domains *)
(* RenewDue listed are read again under the lock (renewLocked), so that     *)
(* what it does is what Renew does, certbot deciding whether it is time.    *)
Issue(d) ==
  /\ Free /\ Starts("issue", d, "certbot")
  /\ UNCHANGED files /\ UNCHANGED authority
Renewable(d) == d \in recorded /\ live[d].status # "revoked" /\ live[d].certbot
Renew(d) ==
  /\ Free /\ Renewable(d) /\ \E kind \in {"renew", "renewDue"} : Starts(kind, d, "certbot")
  /\ UNCHANGED files /\ UNCHANGED authority
Import(d) ==
  /\ Free /\ minted < MaxPairs
  /\ minted' = minted + 1
  /\ work' = [Idle EXCEPT !.kind = "import", !.domain = d, !.step = "displace",
                          !.next = [pair |-> minted + 1, status |-> "active", serve |-> live[d].serve, certbot |-> FALSE]]
  /\ UNCHANGED files /\ UNCHANGED <<lineage, dead, unanswered>>

(* certbot gives a new pair, or the one it has while that one is good. *)
Kept == IF work.kind # "renew" /\ lineage[Here] \notin dead \cup {NoPair} THEN {lineage[Here]} ELSE {}
Given == Kept \cup (IF minted < MaxPairs /\ (work.kind = "issue" \/ lineage[Here] # NoPair) THEN {minted + 1} ELSE {})
CertbotAnswers ==
  /\ At({"issue", "renew", "renewDue"}, "certbot")
  /\ \/ \E p \in Given :
          /\ lineage' = [lineage EXCEPT ![Here] = p] /\ minted' = IF p > minted THEN p ELSE minted
          /\ \/ Ends      \* killed after the pair came, or the files cannot be read
             \/ /\ work' = [work EXCEPT !.step = "displace",
                              !.next = [pair |-> p, status |-> "active", serve |-> live[Here].serve, certbot |-> TRUE]]
                /\ UNCHANGED torn
     \/ Ends /\ UNCHANGED <<lineage, minted>>
  /\ UNCHANGED files /\ UNCHANGED <<dead, unanswered, spoiled>>

(* store: the staged directory takes the place of the old one. *)
Displace ==
  /\ At({"issue", "import", "renew", "renewDue"}, "displace")
  /\ \/ Ends /\ UNCHANGED files
     \/ /\ live' = [live EXCEPT ![Here] = NoDir]
        /\ work' = [work EXCEPT !.step = "install", !.prev = live[Here]]
        /\ UNCHANGED <<recorded, torn>>
  /\ UNCHANGED authority /\ UNCHANGED spoiled

(* What a failure makes of the directory: the previous one comes back, or  *)
(* it does not.                                                            *)
PutNothingBack(broken) == NoDir
PutBack(broken) == IF broken THEN NoDir ELSE work.prev
InstallFiles ==
  /\ At({"issue", "import", "renew", "renewDue"}, "install")
  /\ \/ live' = [live EXCEPT ![Here] = work.next] /\ Goes("record") /\ UNCHANGED spoiled
     \/ \E broken \in {FALSE, work.prev # NoDir} :
          live' = [live EXCEPT ![Here] = PutBack(broken)] /\ PutBackEnds(broken)
  /\ UNCHANGED authority /\ UNCHANGED recorded
Upsert ==
  /\ At({"issue", "import", "renew", "renewDue"}, "record")
  /\ \/ recorded' = recorded \cup {Here} /\ Ends /\ UNCHANGED <<live, spoiled>>
     \/ \E broken \in BOOLEAN :
          /\ \/ live' = [live EXCEPT ![Here] = PutBack(broken)]
             \/ broken /\ UNCHANGED live           \* the new files cannot be removed
          /\ PutBackEnds(broken) /\ UNCHANGED recorded
  /\ UNCHANGED authority

Delete(d) ==
  /\ Free /\ d \in recorded
  /\ live' = [live EXCEPT ![d] = NoDir]
  /\ work' = [Idle EXCEPT !.kind = "delete", !.domain = d, !.step = "record", !.prev = live[d]]
  /\ UNCHANGED authority /\ UNCHANGED recorded
DeleteRow ==
  /\ At({"delete"}, "record")
  /\ \/ recorded' = recorded \ {Here} /\ Ends /\ UNCHANGED <<live, spoiled>>
     \/ \E broken \in {FALSE, work.prev # NoDir} :
          live' = [live EXCEPT ![Here] = PutBack(broken)] /\ PutBackEnds(broken) /\ UNCHANGED recorded
  /\ UNCHANGED authority

SetServeTLS(d, on) ==
  /\ Free /\ d \in recorded /\ live[d] # NoDir
  /\ on => live[d].status = "active"
  /\ live' = [live EXCEPT ![d].serve = on]
  /\ UNCHANGED authority /\ UNCHANGED <<recorded, work>>

(* Revoke: the mark comes first, so that nobody serves the certificate      *)
(* while certbot asks for its revocation.                                   *)
NoMark(r) == r
Mark(r) == [r EXCEPT !.status = "revoking"]
Revoke(d) ==
  /\ Free /\ Renewable(d)
  /\ live' = [live EXCEPT ![d] = Mark(@)]
  /\ work' = [Idle EXCEPT !.kind = "revoke", !.domain = d, !.step = "certbot", !.prev = live[d]]
  /\ UNCHANGED authority /\ UNCHANGED recorded
(* The status goes back to what it was, if that can be written. *)
Unmark ==
  /\ live' \in {live, [live EXCEPT ![Here].status = work.prev.status]}
  /\ Ends
CertbotRevokes ==
  /\ At({"revoke"}, "certbot")
  /\ \/ /\ lineage[Here] \notin {NoPair}    \* revoked now, or already and only deleted here
        /\ dead' = dead \cup {lineage[Here]} /\ lineage' = [lineage EXCEPT ![Here] = NoPair]
        /\ Goes("stamp") /\ UNCHANGED <<live, unanswered>>
     \/ /\ lineage[Here] \notin {NoPair}    \* done, and reported as failed
        /\ dead' = dead \cup {lineage[Here]} /\ unanswered' = unanswered \cup {lineage[Here]}
        /\ lineage' \in {lineage, [lineage EXCEPT ![Here] = NoPair]}
        /\ Unmark
     \/ Unmark /\ UNCHANGED <<dead, lineage, unanswered>>
  /\ UNCHANGED <<recorded, minted, spoiled>>
Stamp ==
  /\ At({"revoke"}, "stamp")
  /\ \/ live' = [live EXCEPT ![Here].status = "revoked", ![Here].serve = FALSE] /\ Ends
     \/ Ends /\ UNCHANGED live
  /\ UNCHANGED authority /\ UNCHANGED <<recorded, spoiled>>
-----------------------------------------------------------------------------
(* Resolver.reloadLocked: the entries, then for each its metadata, its      *)
(* chain and its key, and at the end the new index in one piece.            *)
Servable(r) == r.status \notin {"missing", "revoked", "revoking"} /\ r.serve
manager == <<live, recorded, work, spoiled>>
BeginScan ==
  /\ ~scan.on
  /\ scan' = [NoScan EXCEPT !.on = TRUE, !.todo = {d \in Domains : live[d] # NoDir}, !.gone = dead \ unanswered]
  /\ torn' = {}
  /\ UNCHANGED manager /\ UNCHANGED authority /\ UNCHANGED served
ReadMetadata(d) ==
  /\ scan.on /\ scan.at = {} /\ d \in scan.todo
  /\ scan' = [scan EXCEPT !.todo = @ \ {d}, !.at = IF Servable(live[d]) THEN {d} ELSE {}]
  /\ UNCHANGED <<manager, authority, served, torn>>
ReadPair(d) ==
  /\ d \in scan.at
  /\ scan' = IF scan.half = NoPair /\ live[d] # NoDir THEN [scan EXCEPT !.half = live[d].pair]
             ELSE [scan EXCEPT !.at = {}, !.half = NoPair,
                     !.found[d] = IF scan.half # NoPair /\ live[d].pair = scan.half THEN scan.half ELSE @]
  /\ UNCHANGED <<manager, authority, served, torn>>
PublishScan ==
  /\ scan.on /\ scan.at = {} /\ scan.todo = {}
  /\ served' = scan.found /\ scan' = NoScan
  /\ UNCHANGED <<manager, authority, torn>>

(* The process dies and starts again: Prepare copies the certificates of    *)
(* the old place that have no directory here, and NewResolver scans.  A     *)
(* certbot that was running may finish.                                     *)
OldPlace == [pair |-> 1, status |-> "active", serve |-> FALSE, certbot |-> FALSE]
Migrated(d) == IF d \in recorded \cap Legacy /\ live[d] = NoDir THEN OldPlace ELSE live[d]
DieAndRestart ==
  /\ live' = [d \in Domains |-> Migrated(d)]
  /\ served' = [d \in Domains |-> IF Servable(live'[d]) THEN live'[d].pair ELSE NoPair]
  /\ spoiled' = IF work.kind = "none" THEN spoiled ELSE spoiled \cup {Here}
  /\ \/ UNCHANGED <<dead, lineage, unanswered>>
     \/ /\ work.kind = "revoke" /\ work.step = "certbot" /\ lineage[Here] # NoPair
        /\ dead' = dead \cup {lineage[Here]} /\ unanswered' = unanswered \cup {lineage[Here]}
        /\ lineage' \in {lineage, [lineage EXCEPT ![Here] = NoPair]}
  /\ work' = Idle /\ scan' = NoScan /\ torn' = {}
  /\ UNCHANGED <<recorded, minted>>
-----------------------------------------------------------------------------
CertInit ==
  /\ recorded = Legacy
  /\ live = [d \in Domains |-> IF d \in Legacy THEN OldPlace ELSE NoDir]
  /\ lineage = [d \in Domains |-> NoPair] /\ minted = 1 /\ dead = {}
  /\ work = Idle /\ scan = NoScan /\ served = [d \in Domains |-> NoPair]
  /\ unanswered = {} /\ spoiled = {} /\ torn = {}

CertNext ==
  \/ \E d \in Domains :
       \/ Issue(d) \/ Renew(d) \/ Import(d) \/ Delete(d) \/ Revoke(d)
       \/ \E on \in BOOLEAN : SetServeTLS(d, on)
       \/ ReadMetadata(d) \/ ReadPair(d)
  \/ CertbotAnswers \/ Displace \/ InstallFiles \/ Upsert \/ DeleteRow \/ CertbotRevokes \/ Stamp
  \/ BeginScan \/ PublishScan \/ DieAndRestart

CertSpec == CertInit /\ [][CertNext]_certVars
-----------------------------------------------------------------------------
(* A certificate is recorded exactly when it has its files, whatever failed *)
(* while it was issued, imported, renewed or deleted, as long as nothing    *)
(* failed a second time while it was put back and no operation died.        *)
FilesRecorded ==
  work.kind = "none" => \A d \in Domains \ spoiled : d \in recorded <=> live[d] # NoDir

(* A scan that begins after a revocation was reported never puts the        *)
(* revoked pair back into service, however it interleaves with the manager, *)
(* unless files it had begun to read were replaced and put back meanwhile.  *)
ScanHonoursRevocation ==
  [][\A d \in Domains : served'[d] \in scan.gone => served'[d] = served[d] \/ d \in torn]_certVars
=============================================================================
