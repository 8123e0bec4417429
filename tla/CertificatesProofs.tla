------------------------- MODULE CertificatesProofs --------------------------
(***************************************************************************)
(* Proofs about Certificates, for any number of domains and of             *)
(* certificates and however often an operation fails or the process dies.  *)
(***************************************************************************)
EXTENDS Certificates, TLAPS

Directory ==
  [pair : Nat, status : {"missing", "active", "revoking", "revoked"}, serve : BOOLEAN, certbot : BOOLEAN]
Stores == {"issue", "import", "renew", "renewDue"}
CertTypes ==
  /\ live \in [Domains -> Directory] /\ recorded \subseteq Domains
  /\ lineage \in [Domains -> Nat] /\ minted \in Nat /\ dead \subseteq Nat /\ unanswered \subseteq Nat
  /\ work \in [kind : Stores \cup {"none", "delete", "revoke"}, domain : Domains,
               step : {"none", "certbot", "displace", "install", "record", "stamp"}, next : Directory, prev : Directory]
  /\ scan \in [on : BOOLEAN, todo : SUBSET Domains, at : SUBSET Domains, half : Nat, found : [Domains -> Nat], gone : SUBSET Nat]
  /\ spoiled \subseteq Domains /\ torn \subseteq Domains

(* Pairs the authority has revoked and said so. *)
Revoked == dead \ unanswered

(* A directory is either missing or has a status. *)
Sane(r) == r.status = "missing" => r = NoDir

(* While the old directory of a domain is set aside the record is that of  *)
(* the old one.                                                            *)
Away(d) == d = Here /\ work.kind # "none" /\ work.step \in {"install", "record"}
Books ==
  /\ \A d \in Domains : Sane(live[d])
  /\ Sane(work.prev)
  /\ \A d \in Domains \ spoiled : d \in recorded <=> (IF Away(d) THEN work.prev # NoDir ELSE live[d] # NoDir)

(* Where each operation stands. *)
Progress ==
  /\ work.kind = "none" => work = Idle
  /\ work.kind \in Stores => work.step \in {"certbot", "displace", "install", "record"}
  /\ work.kind = "delete" => work.step = "record" /\ live[Here] = NoDir
  /\ work.kind = "revoke" =>
       /\ work.step \in {"certbot", "stamp"}
       /\ live[Here].status = "revoking" /\ live[Here].certbot
       /\ work.step = "certbot" => live[Here] = Mark(work.prev)
  /\ work.kind \in Stores /\ work.step # "certbot" => work.next.status = "active" /\ work.next.pair \notin dead
  /\ work.kind \in Stores /\ work.step = "record" => live[Here].status = "active"

(* A pair of certbot's belongs to one domain. *)
Own(d, p) == \A e \in Domains \ {d} : lineage[e] # NoPair => lineage[e] # p
Ownership ==
  /\ minted >= 1 /\ \A p \in dead : p > 1 /\ p <= minted
  /\ \A d \in Domains : lineage[d] <= minted /\ lineage[d] # 1 /\ lineage[d] \notin Revoked /\ Own(d, lineage[d])
  /\ \A d \in Domains : live[d].pair <= minted /\ Own(d, live[d].pair)
  /\ work.prev.pair <= minted /\ Own(Here, work.prev.pair)
  /\ work.next.pair <= minted /\ Own(Here, work.next.pair)

(* No active certificate is one whose revocation was reported. *)
Honoured ==
  /\ \A d \in Domains : live[d].pair \in Revoked => live[d].status # "active"
  /\ work.step # "stamp" /\ work.prev.pair \in Revoked => work.prev.status # "active"
Scanning ==
  /\ scan.gone \subseteq Revoked
  /\ \A d \in Domains \ torn : scan.found[d] \notin scan.gone /\ (d \in scan.at => live[d].pair \notin scan.gone)

CertInv == CertTypes /\ Books /\ Progress /\ Ownership /\ Honoured /\ Scanning

(* A directory a domain may have. *)
Good(d, r) == r.pair <= minted /\ Own(d, r.pair) /\ (r.pair \in Revoked => r.status # "active")

LEMMA Places ==
  /\ NoDir \in Directory /\ OldPlace \in Directory /\ Idle.domain \in Domains
  /\ Idle.kind = "none" /\ Idle.step = "none" /\ Idle.next = NoDir /\ Idle.prev = NoDir
  /\ NoDir.pair = 0 /\ NoDir.status = "missing"
<1>1. \E d \in Domains : TRUE
  BY CertificateAssumption
<1> QED
  BY <1>1 DEF NoDir, OldPlace, Idle, Directory, NoPair

LEMMA NoDirGood ==
  ASSUME CertInv, NEW d \in Domains PROVE Good(d, NoDir)
<1>1. NoDir.pair = 0 /\ NoDir.status # "active" /\ NoPair = 0
  BY Places DEF NoPair
<1> QED
  BY <1>1 DEF CertInv, Ownership, Good, Own, CertTypes

LEMMA LiveGood ==
  ASSUME CertInv, NEW d \in Domains
  PROVE  /\ live[d] \in Directory /\ Good(d, live[d]) /\ Sane(live[d])
BY DEF CertInv, CertTypes, Books, Ownership, Honoured, Good

LEMMA WorkGood ==
  ASSUME CertInv
  PROVE  /\ Here \in Domains /\ work.next \in Directory /\ work.prev \in Directory
         /\ Sane(work.prev)
         /\ work.step # "stamp" => Good(Here, work.prev)
         /\ work.kind \in Stores /\ work.step # "certbot" => Good(Here, work.next) /\ work.next.pair \notin Revoked
BY DEF CertInv, CertTypes, Books, Ownership, Honoured, Progress, Good, Here, Revoked

(* No pair comes, and none is known to be revoked that was not before. *)
AuthorityStays ==
  /\ minted' = minted /\ lineage' \in [Domains -> Nat] /\ dead' \subseteq Nat /\ unanswered' \subseteq Nat
  /\ Revoked' = Revoked /\ \A p \in dead' : p > 1 /\ p <= minted
  /\ \A d \in Domains : lineage'[d] \in {lineage[d], NoPair}

LEMMA Stays == ASSUME CertInv, UNCHANGED authority PROVE AuthorityStays
BY DEF AuthorityStays, authority, CertInv, CertTypes, Ownership, Revoked

LEMMA ManagerStep ==
  ASSUME CertInv, AuthorityStays, CertTypes', Books', Progress', Scanning',
         \A d \in Domains : Good(d, live'[d]),
         Good(work'.domain, work'.next), Good(work'.domain, work'.prev)
  PROVE  CertInv'
<1>1. Ownership'
  <2>1. NoPair = 0 /\ minted \in Nat /\ 0 <= minted /\ 0 # 1 /\ 0 \notin Revoked
    BY DEF NoPair, CertInv, CertTypes, Ownership, Revoked
  <2>2. \A d \in Domains : lineage'[d] <= minted /\ lineage'[d] # 1 /\ lineage'[d] \notin Revoked
    BY <2>1 DEF CertInv, Ownership, AuthorityStays
  <2>3. \A d \in Domains : Own(d, lineage'[d])
    BY DEF CertInv, Ownership, AuthorityStays, Own
  <2>4. minted >= 1 /\ minted' = minted /\ Revoked' = Revoked /\ \A p \in dead' : p > 1 /\ p <= minted
    BY DEF CertInv, Ownership, AuthorityStays
  <2>5. \A d \in Domains : Own(d, lineage'[d]) => (Own(d, lineage[d]))'
    BY DEF AuthorityStays, Own
  <2>6. \A d \in Domains : Own(d, live'[d].pair) => (Own(d, live[d].pair))'
    BY DEF AuthorityStays, Own
  <2>7. Own(work'.domain, work'.prev.pair) => (Own(Here, work.prev.pair))'
    BY DEF AuthorityStays, Own, Here
  <2>8. Own(work'.domain, work'.next.pair) => (Own(Here, work.next.pair))'
    BY DEF AuthorityStays, Own, Here
  <2> QED
    BY <2>2, <2>3, <2>4, <2>5, <2>6, <2>7, <2>8 DEF Ownership, Good
<1>2. Honoured'
  BY DEF Honoured, Good, AuthorityStays
<1> QED
  BY <1>1, <1>2 DEF CertInv

WorkAs(kind, d, step, next, prev) == [kind |-> kind, domain |-> d, step |-> step, next |-> next, prev |-> prev]
Kinds == Stores \cup {"none", "delete", "revoke"}
WorkSteps == {"none", "certbot", "displace", "install", "record", "stamp"}

LEMMA WorkTyped ==
  ASSUME NEW kind \in Kinds, NEW d \in Domains, NEW step \in WorkSteps, NEW next \in Directory, NEW prev \in Directory
  PROVE  WorkAs(kind, d, step, next, prev) \in
           [kind : Stores \cup {"none", "delete", "revoke"}, domain : Domains,
            step : {"none", "certbot", "displace", "install", "record", "stamp"}, next : Directory, prev : Directory]
BY DEF WorkAs, Kinds, WorkSteps

LEMMA WorkIs ==
  /\ Idle = WorkAs("none", Idle.domain, "none", NoDir, NoDir)
  /\ \A kind, d, step : Starts(kind, d, step) => work' = WorkAs(kind, d, step, NoDir, NoDir)
  /\ CertInv => work = WorkAs(work.kind, Here, work.step, work.next, work.prev)
<1>1. Idle = WorkAs("none", Idle.domain, "none", NoDir, NoDir)
  BY DEF Idle, WorkAs
<1>2. \A kind, d, step : Starts(kind, d, step) => work' = WorkAs(kind, d, step, NoDir, NoDir)
  BY DEF Idle, WorkAs, Starts
<1>3. CertInv => work = WorkAs(work.kind, Here, work.step, work.next, work.prev)
  BY DEF CertInv, CertTypes, WorkAs, Here
<1> QED
  BY <1>1, <1>2, <1>3

LEMMA FreeFacts ==
  ASSUME CertInv, Free
  PROVE  /\ work.kind = "none" /\ torn' = torn /\ spoiled' = spoiled /\ scan' = scan /\ served' = served
         /\ \A d \in Domains \ spoiled : d \in recorded <=> live[d] # NoDir
BY DEF Free, resolver, CertInv, Books, Away

LEMMA StartsStep ==
  ASSUME CertInv, NEW d \in Domains, NEW kind \in {"issue", "renew", "renewDue"}, Free, Starts(kind, d, "certbot"),
         UNCHANGED files, UNCHANGED authority
  PROVE  CertInv'
<1>1. /\ torn' = torn /\ spoiled' = spoiled /\ scan' = scan /\ live' = live /\ recorded' = recorded
      /\ work' = WorkAs(kind, d, "certbot", NoDir, NoDir)
      /\ lineage' = lineage /\ minted' = minted /\ dead' = dead /\ unanswered' = unanswered
  BY FreeFacts, WorkIs DEF files, authority
<1>2. /\ work'.kind = kind /\ work'.domain = d /\ work'.step = "certbot" /\ work'.next = NoDir /\ work'.prev = NoDir
      /\ kind \in Stores /\ "certbot" \in WorkSteps
  BY <1>1 DEF WorkAs, Stores, WorkSteps
<1>3. CertTypes'
  BY <1>1, <1>2, WorkTyped, Places DEF CertInv, CertTypes, Kinds
<1>4. Books'
  BY <1>1, <1>2, FreeFacts, Places DEF CertInv, Books, Away, Sane
<1>5. Progress'
  BY <1>2 DEF Progress, Stores
<1>6. Scanning'
  BY <1>1 DEF CertInv, Scanning, Revoked
<1> QED
  BY <1>1, <1>2, <1>3, <1>4, <1>5, <1>6, LiveGood, NoDirGood, Stays, ManagerStep

LEMMA IssueStep == ASSUME CertInv, NEW d \in Domains, Issue(d) PROVE CertInv'
BY StartsStep DEF Issue

LEMMA RenewStep == ASSUME CertInv, NEW d \in Domains, Renew(d) PROVE CertInv'
<1>1. PICK kind \in {"renew", "renewDue"} : Starts(kind, d, "certbot")
  BY DEF Renew
<1> QED
  BY <1>1, StartsStep DEF Renew

LEMMA ImportStep == ASSUME CertInv, NEW d \in Domains, Import(d) PROVE CertInv'
<1> DEFINE next == [pair |-> minted + 1, status |-> "active", serve |-> live[d].serve, certbot |-> FALSE]
<1>0. Free
  BY DEF Import
<1>1. /\ torn' = torn /\ spoiled' = spoiled /\ scan' = scan /\ live' = live /\ recorded' = recorded
      /\ work' = WorkAs("import", d, "displace", next, NoDir)
      /\ lineage' = lineage /\ minted' = minted + 1 /\ dead' = dead /\ unanswered' = unanswered
  BY <1>0, FreeFacts DEF files, Import, Idle, WorkAs
<1>2. /\ work'.kind = "import" /\ work'.domain = d /\ work'.step = "displace" /\ work'.next = next /\ work'.prev = NoDir
      /\ "import" \in Stores /\ "displace" \in WorkSteps
  BY <1>1 DEF WorkAs, Stores, WorkSteps
<1>3. /\ minted \in Nat /\ minted + 1 \in Nat /\ dead \subseteq Nat /\ lineage \in [Domains -> Nat]
      /\ \A e \in Domains : lineage[e] <= minted
      /\ \A p \in dead : p <= minted
  BY DEF CertInv, CertTypes, Ownership
<1>4. next \in Directory
  BY <1>3, LiveGood DEF Directory
<1>5. /\ next.pair = minted + 1 /\ next.status = "active"
  OBVIOUS
<1> HIDE DEF next
<1>6. CertTypes'
  BY <1>1, <1>2, <1>3, <1>4, WorkTyped, Places DEF CertInv, CertTypes, Kinds
<1>7. Books'
  BY <1>0, <1>1, <1>2, FreeFacts, Places DEF CertInv, Books, Away, Sane
<1>8. Progress'
  <2>1. minted + 1 \notin dead
    BY <1>3
  <2> QED
    BY <1>1, <1>2, <1>5, <2>1 DEF Progress, Stores
<1>9. Ownership'
  <2>1. Own(d, minted + 1)
    BY <1>3 DEF Own
  <2>2. Good(d, NoDir)
    BY NoDirGood
  <2>3. \A p \in Nat : p <= minted => p <= minted + 1
    BY <1>3
  <2>4. \A e \in Domains : live[e].pair \in Nat
    BY LiveGood DEF Directory
  <2> QED
    BY <1>1, <1>2, <1>3, <1>5, <2>1, <2>2, <2>3, <2>4, Places DEF CertInv, Ownership, Own, Good, Here, Revoked
<1>10. Honoured'
  BY <1>1, <1>2, Places DEF CertInv, Honoured, Revoked
<1>11. Scanning'
  BY <1>1 DEF CertInv, Scanning, Revoked
<1> QED
  BY <1>6, <1>7, <1>8, <1>9, <1>10, <1>11 DEF CertInv

LEMMA Typed ==
  ASSUME CertInv
  PROVE  /\ live \in [Domains -> Directory] /\ recorded \subseteq Domains /\ spoiled \subseteq Domains /\ torn \subseteq Domains
         /\ Here \in Domains
BY DEF CertInv, CertTypes, Here

(* A step that sets the directory of the domain at work and ends, or goes on; *)
(* what becomes of the records is left to the step.                          *)
LEMMA StoreStep ==
  ASSUME CertInv, AuthorityStays, scan' = scan, NEW h \in Domains, h = Here \/ work.kind = "none", NEW r \in Directory,
         live' = [live EXCEPT ![h] = r], Good(h, r), Sane(r),
         recorded' \subseteq Domains, spoiled' \subseteq Domains, torn' \subseteq Domains, torn \subseteq torn',
         spoiled \subseteq spoiled',
         recorded' \ {h} = recorded \ {h},
         r.pair = live[h].pair \/ r.pair \notin Revoked \/ h \in torn',
         NEW kind \in Kinds, NEW step \in WorkSteps, NEW next \in Directory, NEW prev \in Directory,
         work' = WorkAs(kind, h, step, next, prev) \/ (work' = Idle /\ kind = "none" /\ step = "none" /\ next = NoDir /\ prev = NoDir),
         Good(h, next), Good(h, prev), Sane(prev), Progress',
         h \notin spoiled' => (h \in recorded' <=> IF kind # "none" /\ step \in {"install", "record"} THEN prev # NoDir ELSE r # NoDir)
  PROVE  CertInv'
<1>1. live \in [Domains -> Directory]
  BY Typed
<1>2. /\ live' \in [Domains -> Directory] /\ live'[h] = r
      /\ \A d \in Domains \ {h} : live'[d] = live[d]
  BY <1>1
<1>3. /\ work'.kind = kind /\ work'.step = step /\ work'.next = next /\ work'.prev = prev
      /\ work'.domain = h \/ (kind = "none" /\ next = NoDir /\ prev = NoDir /\ work'.domain \in Domains)
  BY Places DEF WorkAs
<1>4. CertTypes'
  <2>1. \E d \in Domains : work' = WorkAs(kind, d, step, next, prev)
    BY <1>1, WorkIs, Places
  <2>2. work' \in [kind : Stores \cup {"none", "delete", "revoke"}, domain : Domains,
                   step : {"none", "certbot", "displace", "install", "record", "stamp"}, next : Directory, prev : Directory]
    BY <2>1, WorkTyped
  <2>3. lineage' \in [Domains -> Nat] /\ minted' = minted /\ dead' \subseteq Nat /\ unanswered' \subseteq Nat
    BY DEF AuthorityStays
  <2> QED
    BY <1>2, <2>2, <2>3 DEF CertInv, CertTypes
<1>5. Books'
  <2>1. \A d \in Domains : Sane(live'[d])
    BY <1>2 DEF CertInv, Books
  <2>2. ASSUME NEW d \in Domains \ spoiled', d # h PROVE d \in recorded' <=> live'[d] # NoDir
    BY <1>2, <2>2 DEF CertInv, Books, Away
  <2>3. \A d \in Domains : Away(d)' <=> (d = h /\ kind # "none" /\ step \in {"install", "record"})
    BY <1>3 DEF Away, Here
  <2> QED
    BY <1>2, <1>3, <2>1, <2>2, <2>3 DEF Books
<1>6. \A d \in Domains : Good(d, live'[d])
  BY <1>2, LiveGood
<1>7. Good(work'.domain, work'.next) /\ Good(work'.domain, work'.prev)
  BY <1>3, NoDirGood
<1>8. \A d \in Domains \ torn' : live'[d].pair = live[d].pair \/ live'[d].pair \notin Revoked
  BY <1>2
<1>9. Scanning'
  BY <1>8 DEF CertInv, Scanning, AuthorityStays
<1> QED
  BY <1>4, <1>5, <1>6, <1>7, <1>9, ManagerStep

LEMMA ActiveSane ==
  ASSUME NEW r \in Directory
  PROVE  /\ r.status # "missing" => r # NoDir /\ Sane(r)
         /\ Sane(NoDir)
BY Places DEF Sane

LEMMA DisplaceStep == ASSUME CertInv, Displace PROVE CertInv'
<1>1. /\ UNCHANGED authority /\ scan' = scan /\ spoiled' = spoiled /\ recorded' = recorded /\ torn' = torn
      /\ work.kind \in Stores /\ work.step = "displace"
  BY DEF Displace, At, resolver, files, Ends, Stores
<1>2. Here \notin spoiled => (Here \in recorded <=> live[Here] # NoDir)
  BY <1>1, Typed DEF CertInv, Books, Away
<1>3. CASE work' = Idle /\ live' = live
  <2>1. live' = [live EXCEPT ![Here] = live[Here]]
    BY <1>3, Typed
  <2>2. Progress'
    BY <1>3, Places DEF Progress, Stores
  <2>3. "none" \in Kinds /\ "none" \in WorkSteps
    BY DEF Kinds, WorkSteps
  <2> QED
    BY <1>1, <1>2, <1>3, <2>1, <2>2, <2>3, Typed, LiveGood, NoDirGood, ActiveSane, Places, Stays, StoreStep
<1>4. CASE live' = [live EXCEPT ![Here] = NoDir] /\ work' = [work EXCEPT !.step = "install", !.prev = live[Here]]
  <2>1. work' = WorkAs(work.kind, Here, "install", work.next, live[Here])
    BY <1>4 DEF CertInv, CertTypes, WorkAs, Here
  <2>2. /\ work.next.status = "active" /\ work.next.pair \notin dead /\ dead' = dead
    BY <1>1 DEF CertInv, Progress, authority
  <2>3. Progress'
    BY <1>1, <2>1, <2>2 DEF Progress, WorkAs, Stores
  <2>4. work.kind \in Kinds /\ "install" \in WorkSteps /\ work.kind # "none"
    BY <1>1 DEF Kinds, WorkSteps, Stores
  <2>5. Good(Here, work.next) /\ work.next \in Directory /\ NoDir.pair \notin Revoked
    BY <1>1, WorkGood, Places DEF CertInv, Ownership, Revoked
  <2>6. /\ Here \in Domains /\ live[Here] \in Directory /\ Good(Here, live[Here]) /\ Sane(live[Here])
        /\ Good(Here, NoDir) /\ Sane(NoDir) /\ NoDir \in Directory
    BY Typed, LiveGood, NoDirGood, ActiveSane, Places
  <2>7. recorded' \subseteq Domains /\ spoiled' \subseteq Domains /\ torn' \subseteq Domains
    BY <1>1, Typed
  <2> QED
    BY <1>1, <1>2, <1>4, <2>1, <2>3, <2>4, <2>5, <2>6, <2>7, Stays, StoreStep
<1> QED
  BY <1>3, <1>4 DEF Displace, Ends, files

(* A step that sets the directory of the domain at work, if there is one,   *)
(* and ends.                                                                *)
LEMMA EndsStep ==
  ASSUME CertInv, AuthorityStays, scan' = scan, work' = Idle,
         NEW h \in Domains, h = Here \/ work.kind = "none", NEW r \in Directory,
         live' = [live EXCEPT ![h] = r], Good(h, r), Sane(r),
         recorded' \subseteq Domains, spoiled' \subseteq Domains, torn' \subseteq Domains, torn \subseteq torn',
         spoiled \subseteq spoiled',
         recorded' \ {h} = recorded \ {h},
         r.pair = live[h].pair \/ r.pair \notin Revoked \/ h \in torn',
         h \notin spoiled' => (h \in recorded' <=> r # NoDir)
  PROVE  CertInv'
<1>1. Progress'
  BY Places DEF Progress, Stores
<1>2. "none" \in Kinds /\ "none" \in WorkSteps /\ NoDir \in Directory /\ Sane(NoDir) /\ Good(h, NoDir)
  BY Places, NoDirGood, ActiveSane DEF Kinds, WorkSteps
<1> QED
  BY <1>1, <1>2, StoreStep

(* What a failure makes of the directory of a store or of a deletion. *)
LEMMA PutBackStep ==
  ASSUME CertInv, UNCHANGED authority, scan' = scan, recorded' = recorded,
         work.kind # "none", work.step \in {"install", "record"},
         NEW broken \in BOOLEAN, broken => work.prev # NoDir \/ work.step = "record",
         \/ live' = [live EXCEPT ![Here] = PutBack(broken)]
         \/ broken /\ work.kind \in Stores /\ work.step = "record" /\ live' = live,
         PutBackEnds(broken)
  PROVE  CertInv'
<1>1. /\ work' = Idle /\ torn' = torn \cup {Here}
      /\ spoiled' = IF broken THEN spoiled \cup {Here} ELSE spoiled
  BY DEF PutBackEnds
<1>2. Here \in Domains /\ work.step # "stamp" /\ work.prev \in Directory /\ Good(Here, work.prev) /\ Sane(work.prev)
  BY WorkGood
<1>3. \A d \in Domains \ spoiled : d = Here => (d \in recorded <=> work.prev # NoDir)
  BY DEF CertInv, Books, Away
<1>4. recorded' \subseteq Domains /\ spoiled' \subseteq Domains /\ torn' \subseteq Domains
  BY <1>1, <1>2, Typed
<1>5. Good(Here, NoDir) /\ Sane(NoDir) /\ NoDir \in Directory
  BY <1>2, NoDirGood, ActiveSane, Places
<1>6. CASE ~broken
  <2>1. live' = [live EXCEPT ![Here] = work.prev]
    BY <1>6 DEF PutBack
  <2> QED
    BY <1>1, <1>2, <1>3, <1>4, <1>6, <2>1, Stays, EndsStep
<1>7. CASE broken /\ live' = [live EXCEPT ![Here] = PutBack(broken)]
  <2>1. live' = [live EXCEPT ![Here] = NoDir]
    BY <1>7 DEF PutBack
  <2> QED
    BY <1>1, <1>2, <1>4, <1>5, <1>7, <2>1, Stays, EndsStep
<1>8. CASE broken /\ live' = live
  <2>1. live' = [live EXCEPT ![Here] = live[Here]] /\ live[Here] \in Directory /\ Good(Here, live[Here]) /\ Sane(live[Here])
    BY <1>2, <1>8, Typed, LiveGood
  <2> QED
    BY <1>1, <1>2, <1>4, <1>8, <2>1, Stays, EndsStep
<1> QED
  BY <1>6, <1>7, <1>8

LEMMA InstallFilesStep == ASSUME CertInv, InstallFiles PROVE CertInv'
<1>1. /\ UNCHANGED authority /\ scan' = scan /\ recorded' = recorded
      /\ work.kind \in Stores /\ work.step = "install" /\ work.kind # "none"
  BY DEF InstallFiles, At, resolver, Stores
<1>2. CASE live' = [live EXCEPT ![Here] = work.next] /\ Goes("record") /\ spoiled' = spoiled
  <2>1. work' = WorkAs(work.kind, Here, "record", work.next, work.prev) /\ torn' = torn
    BY <1>2 DEF CertInv, CertTypes, WorkAs, Here, Goes
  <2>2. /\ work.next.status = "active" /\ work.next.pair \notin dead /\ dead' = dead
    BY <1>1 DEF CertInv, Progress, authority
  <2>3. Here \in Domains /\ live'[Here] = work.next
    BY <1>2, Typed
  <2>4. Progress'
    BY <1>1, <2>1, <2>2, <2>3 DEF Progress, WorkAs, Stores, Here
  <2>5. work.kind \in Kinds /\ "record" \in WorkSteps
    BY <1>1 DEF Kinds, WorkSteps
  <2>6. /\ Good(Here, work.next) /\ work.next \in Directory /\ work.next.pair \notin Revoked
        /\ Good(Here, work.prev) /\ work.prev \in Directory /\ Sane(work.prev) /\ Sane(work.next)
    BY <1>1, <2>2, WorkGood, ActiveSane
  <2>7. Here \notin spoiled => (Here \in recorded <=> work.prev # NoDir)
    BY <1>1, <2>3 DEF CertInv, Books, Away
  <2>8. recorded' \subseteq Domains /\ spoiled' \subseteq Domains /\ torn' \subseteq Domains
    BY <1>1, <1>2, <2>1, Typed
  <2> QED
    BY <1>1, <1>2, <2>1, <2>3, <2>4, <2>5, <2>6, <2>7, <2>8, Stays, StoreStep
<1>3. ASSUME NEW broken \in {FALSE, work.prev # NoDir}, live' = [live EXCEPT ![Here] = PutBack(broken)], PutBackEnds(broken)
      PROVE  CertInv'
  BY <1>1, <1>3, PutBackStep
<1> QED
  BY <1>2, <1>3 DEF InstallFiles

LEMMA UpsertStep == ASSUME CertInv, Upsert PROVE CertInv'
<1>1. /\ UNCHANGED authority /\ scan' = scan
      /\ work.kind \in Stores /\ work.step = "record" /\ work.kind # "none"
  BY DEF Upsert, At, resolver, Stores
<1>2. CASE recorded' = recorded \cup {Here} /\ Ends /\ UNCHANGED <<live, spoiled>>
  <2>1. /\ Here \in Domains /\ live' = [live EXCEPT ![Here] = live[Here]]
        /\ live[Here] \in Directory /\ Good(Here, live[Here]) /\ Sane(live[Here])
    BY <1>2, Typed, LiveGood
  <2>2. live[Here] # NoDir
    BY <1>1, <2>1, ActiveSane DEF CertInv, Progress
  <2>3. recorded' \subseteq Domains /\ spoiled' \subseteq Domains /\ torn' \subseteq Domains /\ torn' = torn /\ work' = Idle
    BY <1>2, Typed DEF Ends
  <2> QED
    BY <1>1, <1>2, <2>1, <2>2, <2>3, Stays, EndsStep
<1>3. ASSUME NEW broken \in BOOLEAN,
             live' = [live EXCEPT ![Here] = PutBack(broken)] \/ (broken /\ live' = live),
             PutBackEnds(broken), recorded' = recorded
      PROVE  CertInv'
  BY <1>1, <1>3, PutBackStep
<1> QED
  BY <1>2, <1>3 DEF Upsert

LEMMA DeleteRowStep == ASSUME CertInv, DeleteRow PROVE CertInv'
<1>1. /\ UNCHANGED authority /\ scan' = scan
      /\ work.kind = "delete" /\ work.step = "record" /\ work.kind # "none"
  BY DEF DeleteRow, At, resolver
<1>2. CASE recorded' = recorded \ {Here} /\ Ends /\ UNCHANGED <<live, spoiled>>
  <2>1. /\ Here \in Domains /\ live' = [live EXCEPT ![Here] = live[Here]]
        /\ live[Here] \in Directory /\ Good(Here, live[Here]) /\ Sane(live[Here])
    BY <1>2, Typed, LiveGood
  <2>2. live[Here] = NoDir
    BY <1>1 DEF CertInv, Progress
  <2>3. recorded' \subseteq Domains /\ spoiled' \subseteq Domains /\ torn' \subseteq Domains /\ torn' = torn /\ work' = Idle
    BY <1>2, Typed DEF Ends
  <2> QED
    BY <1>1, <1>2, <2>1, <2>2, <2>3, Stays, EndsStep
<1>3. ASSUME NEW broken \in {FALSE, work.prev # NoDir}, live' = [live EXCEPT ![Here] = PutBack(broken)], PutBackEnds(broken),
             recorded' = recorded
      PROVE  CertInv'
  BY <1>1, <1>3, PutBackStep
<1> QED
  BY <1>2, <1>3 DEF DeleteRow

LEMMA DeleteStep == ASSUME CertInv, NEW d \in Domains, Delete(d) PROVE CertInv'
<1>1. /\ UNCHANGED authority /\ scan' = scan /\ recorded' = recorded /\ torn' = torn /\ spoiled' = spoiled
      /\ work.kind = "none" /\ live' = [live EXCEPT ![d] = NoDir]
      /\ work' = WorkAs("delete", d, "record", NoDir, live[d])
  BY DEF Delete, Free, resolver, Idle, WorkAs
<1>2. d \notin spoiled => (d \in recorded <=> live[d] # NoDir)
  BY <1>1 DEF CertInv, Books, Away
<1>3. /\ live[d] \in Directory /\ Good(d, live[d]) /\ Sane(live[d])
      /\ Good(d, NoDir) /\ Sane(NoDir) /\ NoDir \in Directory /\ NoDir.pair \notin Revoked
  BY LiveGood, NoDirGood, ActiveSane, Places DEF CertInv, Ownership, Revoked
<1>4. live'[d] = NoDir
  BY <1>1, Typed
<1>5. Progress'
  BY <1>1, <1>4 DEF Progress, WorkAs, Stores, Here
<1>6. "delete" \in Kinds /\ "record" \in WorkSteps
  BY DEF Kinds, WorkSteps
<1>7. recorded' \subseteq Domains /\ spoiled' \subseteq Domains /\ torn' \subseteq Domains
  BY <1>1, Typed
<1> QED
  BY <1>1, <1>2, <1>3, <1>5, <1>6, <1>7, Stays, StoreStep

Serving(r, on) == [r EXCEPT !.serve = on]
Stamped(r) == [r EXCEPT !.status = "revoked", !.serve = FALSE]

LEMMA MarkedDirectories ==
  ASSUME NEW r \in Directory
  PROVE  /\ \A on \in BOOLEAN : Serving(r, on) \in Directory /\ Serving(r, on).status = r.status /\ Serving(r, on).pair = r.pair
         /\ Stamped(r) \in Directory /\ Stamped(r).status = "revoked" /\ Stamped(r).pair = r.pair
         /\ Mark(r) \in Directory /\ Mark(r).status = "revoking" /\ Mark(r).pair = r.pair /\ Mark(r).certbot = r.certbot
BY DEF Directory, Serving, Stamped, Mark

LEMMA SetServeTLSStep == ASSUME CertInv, NEW d \in Domains, NEW on \in BOOLEAN, SetServeTLS(d, on) PROVE CertInv'
<1>1. /\ UNCHANGED authority /\ scan' = scan /\ recorded' = recorded /\ torn' = torn /\ spoiled' = spoiled
      /\ work.kind = "none" /\ live' = [live EXCEPT ![d] = Serving(live[d], on)] /\ work' = work /\ live[d] # NoDir
  BY DEF SetServeTLS, Free, resolver, Serving
<1>2. work' = Idle
  BY <1>1 DEF CertInv, Progress
<1>3. d \notin spoiled => (d \in recorded <=> live[d] # NoDir)
  BY <1>1 DEF CertInv, Books, Away
<1>4. live[d] \in Directory /\ Good(d, live[d]) /\ live[d].status # "missing"
  BY <1>1, LiveGood DEF Sane
<1>5. LET r == Serving(live[d], on) IN
      r \in Directory /\ Good(d, r) /\ Sane(r) /\ r # NoDir /\ r.pair = live[d].pair
  BY <1>4, MarkedDirectories, ActiveSane DEF Good
<1>6. recorded' \subseteq Domains /\ spoiled' \subseteq Domains /\ torn' \subseteq Domains
  BY <1>1, Typed
<1> QED
  BY <1>1, <1>2, <1>3, <1>4, <1>5, <1>6, Stays, EndsStep

LEMMA RevokeStep == ASSUME CertInv, NEW d \in Domains, Revoke(d) PROVE CertInv'
<1>1. /\ UNCHANGED authority /\ scan' = scan /\ recorded' = recorded /\ torn' = torn /\ spoiled' = spoiled
      /\ work.kind = "none" /\ live' = [live EXCEPT ![d] = Mark(live[d])] /\ live[d].certbot
      /\ work' = WorkAs("revoke", d, "certbot", NoDir, live[d])
  BY DEF Revoke, Free, resolver, Idle, WorkAs, Renewable
<1>2. d \notin spoiled => (d \in recorded <=> live[d] # NoDir)
  BY <1>1 DEF CertInv, Books, Away
<1>3. live[d] \in Directory /\ Good(d, live[d]) /\ Sane(live[d]) /\ live[d] # NoDir
  BY <1>1, LiveGood DEF NoDir
<1>4. LET r == Mark(live[d]) IN
      r \in Directory /\ Good(d, r) /\ Sane(r) /\ r # NoDir /\ r.pair = live[d].pair
  BY <1>3, MarkedDirectories, ActiveSane DEF Good
<1>5. live'[d] = Mark(live[d]) /\ Mark(live[d]).status = "revoking" /\ Mark(live[d]).certbot
  BY <1>1, <1>3, Typed, MarkedDirectories
<1>6. Progress'
  BY <1>1, <1>5 DEF Progress, WorkAs, Stores, Here
<1>7. "revoke" \in Kinds /\ "certbot" \in WorkSteps /\ Good(d, NoDir) /\ NoDir \in Directory
  BY NoDirGood, Places DEF Kinds, WorkSteps
<1>8. recorded' \subseteq Domains /\ spoiled' \subseteq Domains /\ torn' \subseteq Domains
  BY <1>1, Typed
<1> QED
  BY <1>1, <1>2, <1>3, <1>4, <1>6, <1>7, <1>8, Stays, StoreStep

LEMMA StampStep == ASSUME CertInv, Stamp PROVE CertInv'
<1>1. /\ UNCHANGED authority /\ scan' = scan /\ recorded' = recorded /\ torn' = torn /\ spoiled' = spoiled
      /\ work.kind = "revoke" /\ work.step = "stamp" /\ work' = Idle
      /\ live' = [live EXCEPT ![Here] = Stamped(live[Here])] \/ live' = [live EXCEPT ![Here] = live[Here]]
  BY Typed DEF Stamp, At, resolver, Ends, Stamped
<1>2. Here \notin spoiled => (Here \in recorded <=> live[Here] # NoDir)
  BY <1>1, Typed DEF CertInv, Books, Away
<1>3. Here \in Domains /\ live[Here] \in Directory /\ Good(Here, live[Here]) /\ live[Here].status = "revoking"
  BY <1>1, Typed, LiveGood DEF CertInv, Progress
<1>4. \A r \in {live[Here], Stamped(live[Here])} :
        r \in Directory /\ Good(Here, r) /\ Sane(r) /\ r # NoDir /\ r.pair = live[Here].pair
  BY <1>3, MarkedDirectories, ActiveSane DEF Good
<1>5. recorded' \subseteq Domains /\ spoiled' \subseteq Domains /\ torn' \subseteq Domains
  BY <1>1, Typed
<1>6. live[Here] # NoDir
  BY <1>4
<1> QED
  BY <1>1, <1>2, <1>3, <1>4, <1>5, <1>6, Stays, EndsStep

(* An operation that ends with everything as it was. *)
LEMMA EndsAsItWas ==
  ASSUME CertInv, AuthorityStays, scan' = scan, Ends, live' = live, recorded' = recorded, spoiled' = spoiled,
         work.kind \in {"issue", "renew", "renewDue", "revoke"}, work.step = "certbot"
  PROVE  CertInv'
<1>1. Here \in Domains /\ live' = [live EXCEPT ![Here] = live[Here]] /\ work' = Idle /\ torn' = torn
  BY Typed DEF Ends
<1>2. live[Here] \in Directory /\ Good(Here, live[Here]) /\ Sane(live[Here])
  BY <1>1, LiveGood
<1>3. Here \notin spoiled => (Here \in recorded <=> live[Here] # NoDir)
  BY <1>1 DEF CertInv, Books, Away
<1>4. recorded' \subseteq Domains /\ spoiled' \subseteq Domains /\ torn' \subseteq Domains
  BY <1>1, Typed
<1> QED
  BY <1>1, <1>2, <1>3, <1>4, EndsStep

(* The pair certbot gives is good and belongs to the domain. *)
LEMMA GivenPair ==
  ASSUME CertInv, NEW p \in Given
  PROVE  /\ p \in Nat /\ p \notin dead /\ p > 1 /\ Own(Here, p)
         /\ \A e \in Domains \ {Here}, q \in Nat : q <= minted /\ Own(e, q) => p # q
         /\ minted \in Nat /\ p <= IF p > minted THEN p ELSE minted
<1>1. /\ minted \in Nat /\ minted >= 1 /\ lineage \in [Domains -> Nat] /\ Here \in Domains /\ dead \subseteq Nat
      /\ \A q \in dead : q > 1 /\ q <= minted
      /\ \A d \in Domains : lineage[d] <= minted /\ lineage[d] # 1 /\ Own(d, lineage[d])
  BY WorkGood DEF CertInv, CertTypes, Ownership
<1>2. CASE p = lineage[Here] /\ lineage[Here] \notin dead \cup {NoPair}
  BY <1>1, <1>2 DEF NoPair, Own
<1>3. CASE p = minted + 1
  BY <1>1, <1>3 DEF Own
<1> QED
  BY <1>2, <1>3 DEF Given, Kept

LEMMA CertbotAnswersStep == ASSUME CertInv, CertbotAnswers PROVE CertInv'
<1>1. /\ scan' = scan /\ work.kind \in {"issue", "renew", "renewDue"} /\ work.step = "certbot"
      /\ live' = live /\ recorded' = recorded /\ dead' = dead /\ unanswered' = unanswered /\ spoiled' = spoiled
  BY DEF CertbotAnswers, At, resolver, files
<1>2. CASE Ends /\ UNCHANGED <<lineage, minted>>
  <2>1. UNCHANGED authority
    BY <1>1, <1>2 DEF authority
  <2> QED
    BY <1>1, <1>2, <2>1, Stays, EndsAsItWas
<1>3. ASSUME NEW p \in Given, lineage' = [lineage EXCEPT ![Here] = p], minted' = IF p > minted THEN p ELSE minted,
             torn' = torn,
             \/ work' = Idle
             \/ work' = [work EXCEPT !.step = "displace",
                            !.next = [pair |-> p, status |-> "active", serve |-> live[Here].serve, certbot |-> TRUE]]
      PROVE  CertInv'
  <2> DEFINE next == [pair |-> p, status |-> "active", serve |-> live[Here].serve, certbot |-> TRUE]
  <2>1. /\ p \in Nat /\ p \notin dead /\ p > 1 /\ Own(Here, p)
        /\ \A e \in Domains \ {Here}, q \in Nat : q <= minted /\ Own(e, q) => p # q
        /\ minted \in Nat
    BY GivenPair
  <2>2. minted' \in Nat /\ minted <= minted' /\ p <= minted' /\ minted >= 1
    BY <1>3, <2>1 DEF CertInv, Ownership
  <2>3. /\ Here \in Domains /\ lineage \in [Domains -> Nat] /\ live[Here] \in Directory
        /\ lineage'[Here] = p /\ \A e \in Domains \ {Here} : lineage'[e] = lineage[e]
    BY <1>3, WorkGood, LiveGood DEF CertInv, CertTypes
  <2>4. next \in Directory /\ next.pair = p /\ next.status = "active"
    BY <2>1, <2>3 DEF Directory
  <2> HIDE DEF next
  <2>5. PICK kind \in Kinds, step \in {"none", "displace"}, n \in {NoDir, next}, prev \in {NoDir, work.prev}, d \in Domains :
          /\ work' = WorkAs(kind, d, step, n, prev)
          /\ \/ kind = "none" /\ work' = Idle /\ prev = NoDir /\ n = NoDir
             \/ kind \in Stores /\ step = "displace" /\ n = next /\ prev = work.prev /\ d = Here
    <3>1. CASE work' = Idle
      <4>1. Idle = WorkAs("none", Idle.domain, "none", NoDir, NoDir) /\ Idle.domain \in Domains /\ "none" \in Kinds
        BY WorkIs, Places DEF Kinds
      <4> QED
        BY <3>1, <4>1
    <3>2. CASE work' = [work EXCEPT !.step = "displace", !.next = next]
      <4>1. work' = WorkAs(work.kind, Here, "displace", next, work.prev)
        BY <3>2 DEF CertInv, CertTypes, WorkAs, Here
      <4>2. work.kind \in Stores /\ work.kind \in Kinds
        BY <1>1 DEF Stores, Kinds
      <4> QED
        BY <2>3, <4>1, <4>2
    <3> QED
      BY <1>3, <3>1, <3>2 DEF next
  <2>6. work'.kind = kind /\ work'.domain = d /\ work'.step = step /\ work'.next = n /\ work'.prev = prev
    BY <2>5 DEF WorkAs
  <2>7. /\ step \in WorkSteps /\ n \in Directory /\ prev \in Directory
        /\ Sane(prev) /\ work.prev.pair \in Nat
        /\ NoDir.pair = 0 /\ NoDir.status # "active"
    BY <2>4, WorkGood, Places, ActiveSane DEF WorkSteps, Directory
  <2>8. CertTypes'
    <3>1. lineage' \in [Domains -> Nat]
      BY <1>3, <2>1, <2>3
    <3>2. work' \in [kind : Stores \cup {"none", "delete", "revoke"}, domain : Domains,
                     step : {"none", "certbot", "displace", "install", "record", "stamp"}, next : Directory, prev : Directory]
      BY <2>5, <2>7, WorkTyped
    <3> QED
      BY <1>1, <1>3, <2>2, <3>1, <3>2 DEF CertInv, CertTypes
  <2>9. Books'
    <3>1. \A e \in Domains : ~Away(e) /\ ~Away(e)'
      BY <1>1, <2>6 DEF Away
    <3> QED
      BY <1>1, <2>6, <2>7, <3>1 DEF CertInv, Books
  <2>10. Progress'
    <3>1. CASE work' = Idle
      BY <3>1, Places DEF Progress, Stores
    <3>2. CASE work' # Idle
      <4>1. kind \in Stores /\ step = "displace" /\ n = next
        BY <2>5, <3>2
      <4> QED
        BY <1>1, <2>1, <2>4, <2>6, <4>1 DEF Progress, Stores
    <3> QED
      BY <3>1, <3>2
  <2>11. \A f \in Domains \ {Here} : lineage'[f] # NoPair => lineage'[f] # p
    BY <2>1, <2>3 DEF Own
  <2>12. ASSUME NEW e \in Domains, NEW q \in Nat, q <= minted, Own(e, q)
         PROVE  q <= minted' /\ \A f \in Domains \ {e} : lineage'[f] # NoPair => lineage'[f] # q
    <3>1. q <= minted'
      BY <2>1, <2>2, <2>12
    <3>2. ASSUME NEW f \in Domains \ {e}, lineage'[f] # NoPair PROVE lineage'[f] # q
      <4>1. CASE f = Here
        BY <2>1, <2>3, <2>12, <3>2, <4>1
      <4>2. CASE f # Here
        BY <2>3, <2>12, <3>2, <4>2 DEF Own
      <4> QED
        BY <4>1, <4>2
    <3> QED
      BY <3>1, <3>2
  <2>13. Ownership'
    <3>1. ASSUME NEW e \in Domains
          PROVE  /\ lineage'[e] <= minted' /\ lineage'[e] # 1 /\ lineage'[e] \notin Revoked'
                 /\ \A f \in Domains \ {e} : lineage'[f] # NoPair => lineage'[f] # lineage'[e]
      <4>1. Revoked' = Revoked
        BY <1>1 DEF Revoked
      <4>2. CASE e # Here
        <5>1. /\ lineage[e] \in Nat /\ lineage[e] <= minted /\ lineage[e] # 1 /\ lineage[e] \notin Revoked /\ Own(e, lineage[e])
              /\ lineage'[e] = lineage[e]
          BY <2>3, <4>2 DEF CertInv, Ownership
        <5> QED
          BY <2>12, <4>1, <5>1
      <4>3. CASE e = Here
        BY <2>1, <2>2, <2>3, <2>11, <4>1, <4>3 DEF Revoked
      <4> QED
        BY <4>2, <4>3
    <3>2. ASSUME NEW e \in Domains
          PROVE  live'[e].pair <= minted' /\ \A f \in Domains \ {e} : lineage'[f] # NoPair => lineage'[f] # live'[e].pair
      <4>1. live[e].pair \in Nat /\ live[e].pair <= minted /\ Own(e, live[e].pair) /\ live'[e] = live[e]
        BY <1>1, LiveGood DEF Good, Directory
      <4> QED
        BY <2>12, <4>1
    <3>3. ASSUME NEW r \in {prev, n} PROVE r.pair <= minted' /\ (\A f \in Domains \ {d} : lineage'[f] # NoPair => lineage'[f] # r.pair)
      <4>1. CASE r = NoDir
        BY <2>2, <2>7, <4>1 DEF NoPair
      <4>2. CASE r = next /\ d = Here
        BY <2>1, <2>2, <2>3, <2>4, <2>11, <4>2
      <4>3. CASE r = work.prev /\ d = Here
        <5>1. r.pair \in Nat /\ r.pair <= minted /\ Own(Here, r.pair)
          BY <2>7, <4>3 DEF CertInv, Ownership
        <5> QED
          BY <2>3, <2>12, <4>3, <5>1
      <4> QED
        BY <2>5, <4>1, <4>2, <4>3
    <3>4. \A q \in dead' : q > 1 /\ q <= minted'
      BY <1>1, <2>1, <2>2 DEF CertInv, Ownership, CertTypes
    <3>5. minted' >= 1
      BY <2>1, <2>2
    <3>6. \A e \in Domains : Own(e, lineage[e])' /\ Own(e, live[e].pair)'
      BY <3>1, <3>2 DEF Own
    <3>7. Own(Here, work.prev.pair)' /\ Own(Here, work.next.pair)'
      BY <2>6, <3>3 DEF Own, Here
    <3> QED
      BY <2>6, <3>1, <3>2, <3>3, <3>4, <3>5, <3>6, <3>7 DEF Ownership
  <2>14. Honoured'
    <3>1. Revoked' = Revoked
      BY <1>1 DEF Revoked
    <3> QED
      BY <1>1, <2>5, <2>6, <2>7, <3>1 DEF CertInv, Honoured
  <2>15. Scanning'
    BY <1>1, <1>3 DEF CertInv, Scanning, Revoked
  <2> QED
    BY <2>8, <2>9, <2>10, <2>13, <2>14, <2>15 DEF CertInv
<1> QED
  BY <1>2, <1>3 DEF CertbotAnswers, Ends

Restated(r, status) == [r EXCEPT !.status = status]

LEMMA Restating == ASSUME NEW r \in Directory PROVE Restated(Mark(r), r.status) = r
BY DEF Restated, Mark, Directory

(* The revocation ends without its stamp. *)
LEMMA UnmarkStep ==
  ASSUME CertInv, AuthorityStays, scan' = scan, Unmark, recorded' = recorded, spoiled' = spoiled,
         work.kind = "revoke", work.step = "certbot"
  PROVE  CertInv'
<1>1. CASE live' = live
  BY <1>1, EndsAsItWas DEF Unmark
<1>2. CASE live' = [live EXCEPT ![Here] = Restated(live[Here], work.prev.status)]
  <2>1. /\ Here \in Domains /\ work.prev \in Directory /\ Good(Here, work.prev) /\ Sane(work.prev)
        /\ live[Here] = Mark(work.prev) /\ live[Here].status = "revoking"
    BY WorkGood DEF CertInv, Progress
  <2>2a. Restated(live[Here], work.prev.status) = work.prev
    BY <2>1, Restating
  <2>2b. work.prev.pair = live[Here].pair
    BY <2>1, MarkedDirectories
  <2>2. live' = [live EXCEPT ![Here] = work.prev] /\ work.prev.pair = live[Here].pair
    BY <1>2, <2>2a, <2>2b
  <2>3. Here \notin spoiled => (Here \in recorded <=> work.prev # NoDir)
    <3>1. live[Here] # NoDir
      BY <2>1, Places
    <3>2. Here \notin spoiled => Here \in recorded
      BY <2>1, <3>1 DEF CertInv, Books, Away
    <3>3. work.prev # NoDir
      BY <2>1 DEF Mark, NoDir, CertInv, Progress
    <3> QED
      BY <3>2, <3>3
  <2>4. recorded' \subseteq Domains /\ spoiled' \subseteq Domains /\ torn' \subseteq Domains /\ torn' = torn /\ work' = Idle
    BY Typed DEF Unmark, Ends
  <2> QED
    BY <2>1, <2>2, <2>3, <2>4, EndsStep
<1> QED
  BY <1>1, <1>2 DEF Unmark, Restated

(* The pair whose revocation certbot asks for. *)
LEMMA LineagePair ==
  ASSUME CertInv, lineage[Here] # NoPair
  PROVE  /\ lineage[Here] \in Nat /\ lineage[Here] > 1 /\ lineage[Here] <= minted /\ lineage[Here] \notin Revoked
         /\ Here \in Domains
         /\ \A d \in Domains \ {Here} : lineage[d] # lineage[Here] /\ live[d].pair # lineage[Here]
<1>1. Here \in Domains /\ lineage \in [Domains -> Nat]
  BY WorkGood DEF CertInv, CertTypes
<1> QED
  BY <1>1 DEF CertInv, Ownership, Own, NoPair

(* Certbot's pair is revoked, whether the command says so or not. *)
LEMMA UnansweredStays ==
  ASSUME CertInv, lineage[Here] # NoPair, dead' = dead \cup {lineage[Here]},
         unanswered' = unanswered \cup {lineage[Here]}, minted' = minted,
         lineage' \in {lineage, [lineage EXCEPT ![Here] = NoPair]}
  PROVE  AuthorityStays
<1>1. /\ lineage \in [Domains -> Nat] /\ NoPair \in Nat /\ dead \subseteq Nat /\ unanswered \subseteq Nat
      /\ \A q \in dead : q > 1 /\ q <= minted
  BY DEF CertInv, CertTypes, Ownership, NoPair
<1>2. Revoked' = Revoked
  BY LineagePair DEF Revoked
<1> QED
  BY <1>1, <1>2, LineagePair DEF AuthorityStays

LEMMA CertbotRevokesStep == ASSUME CertInv, CertbotRevokes PROVE CertInv'
<1>1. /\ scan' = scan /\ work.kind = "revoke" /\ work.step = "certbot"
      /\ recorded' = recorded /\ minted' = minted /\ spoiled' = spoiled
  BY DEF CertbotRevokes, At, resolver
<1>2. CASE /\ lineage[Here] # NoPair /\ dead' = dead \cup {lineage[Here]} /\ lineage' = [lineage EXCEPT ![Here] = NoPair]
           /\ Goes("stamp") /\ UNCHANGED <<live, unanswered>>
  <2>1. /\ work' = WorkAs("revoke", Here, "stamp", work.next, work.prev) /\ torn' = torn
    BY <1>1, <1>2 DEF CertInv, CertTypes, WorkAs, Here, Goes
  <2>2. /\ work'.kind = "revoke" /\ work'.domain = Here /\ work'.step = "stamp"
        /\ work'.next = work.next /\ work'.prev = work.prev
    BY <2>1 DEF WorkAs
  <2>3. /\ lineage \in [Domains -> Nat] /\ NoPair \in Nat /\ dead \subseteq Nat /\ NoPair = 0
        /\ live' = live /\ unanswered' = unanswered /\ work.next \in Directory /\ work.prev \in Directory
    BY <1>2, WorkGood DEF CertInv, CertTypes, NoPair
  <2>4. CertTypes'
    <3>1. "revoke" \in Kinds /\ "stamp" \in WorkSteps
      BY DEF Kinds, WorkSteps
    <3>2. work' \in [kind : Stores \cup {"none", "delete", "revoke"}, domain : Domains,
                     step : {"none", "certbot", "displace", "install", "record", "stamp"}, next : Directory, prev : Directory]
      BY <2>1, <2>3, <3>1, LineagePair, <1>2, WorkTyped
    <3>3. lineage' \in [Domains -> Nat] /\ dead' \subseteq Nat
      BY <1>2, <2>3, LineagePair
    <3> QED
      BY <1>1, <2>1, <2>3, <3>2, <3>3 DEF CertInv, CertTypes
  <2>5. Books'
    <3>1. \A e \in Domains : ~Away(e) /\ ~Away(e)'
      BY <1>1, <2>2 DEF Away
    <3> QED
      BY <1>1, <2>2, <2>3, <3>1 DEF CertInv, Books
  <2>6. Progress'
    BY <1>1, <2>2, <2>3 DEF CertInv, Progress, Stores, Here
  <2>7. \A d \in Domains : lineage'[d] = IF d = Here THEN NoPair ELSE lineage[d]
    BY <1>2, <2>3
  <2>8. Revoked' \subseteq Revoked \cup {lineage[Here]} /\ Revoked \subseteq Revoked' /\ 0 \notin Revoked'
    BY <1>2, <2>3, LineagePair DEF Revoked, CertInv, Ownership
  <2>9. Ownership'
    <3>1. \A e \in Domains : \A q : Own(e, q) => \A f \in Domains \ {e} : lineage'[f] # NoPair => lineage'[f] # q
      BY <2>7 DEF Own
    <3>2. ASSUME NEW d \in Domains
          PROVE  /\ lineage'[d] <= minted' /\ lineage'[d] # 1 /\ lineage'[d] \notin Revoked'
                 /\ \A f \in Domains \ {d} : lineage'[f] # NoPair => lineage'[f] # lineage'[d]
      <4>1. CASE d = Here
        BY <1>1, <2>3, <2>7, <2>8, <4>1 DEF CertInv, Ownership, CertTypes
      <4>2. CASE d # Here
        <5>1. lineage'[d] = lineage[d] /\ Own(d, lineage[d]) /\ lineage[d] <= minted /\ lineage[d] # 1 /\ lineage[d] \notin Revoked
          BY <2>7, <4>2 DEF CertInv, Ownership
        <5>2. lineage[d] # lineage[Here]
          BY <1>2, <4>2, LineagePair
        <5> QED
          BY <1>1, <2>8, <3>1, <5>1, <5>2
      <4> QED
        BY <4>1, <4>2
    <3>3. \A d \in Domains : live[d].pair <= minted /\ Own(d, live[d].pair)
      BY DEF CertInv, Ownership
    <3>4. work.prev.pair <= minted /\ Own(Here, work.prev.pair) /\ work.next.pair <= minted /\ Own(Here, work.next.pair)
      BY DEF CertInv, Ownership
    <3>5. Here \in Domains /\ minted >= 1 /\ \A q \in dead' : q > 1 /\ q <= minted
      BY <1>2, LineagePair DEF CertInv, Ownership
    <3>6. \A d \in Domains : Own(d, lineage[d])' /\ Own(d, live[d].pair)'
      BY <2>3, <3>1, <3>2, <3>3 DEF Own
    <3>7. Own(Here, work.prev.pair)' /\ Own(Here, work.next.pair)'
      BY <2>2, <3>1, <3>4, <3>5 DEF Own, Here
    <3> QED
      BY <1>1, <2>2, <2>3, <3>2, <3>3, <3>4, <3>5, <3>6, <3>7 DEF Ownership
  <2>10. Honoured'
    <3>1. ASSUME NEW d \in Domains, live[d].pair \in Revoked' PROVE live[d].status # "active"
      <4>1. CASE d = Here
        BY <1>1, <4>1 DEF CertInv, Progress
      <4>2. CASE d # Here
        BY <1>2, <2>8, <3>1, <4>2, LineagePair DEF CertInv, Honoured
      <4> QED
        BY <4>1, <4>2
    <3> QED
      BY <2>2, <2>3, <3>1 DEF Honoured
  <2>11. Scanning'
    BY <1>1, <2>1, <2>3, <2>8 DEF CertInv, Scanning
  <2> QED
    BY <2>4, <2>5, <2>6, <2>9, <2>10, <2>11 DEF CertInv
<1>3. CASE /\ lineage[Here] # NoPair /\ dead' = dead \cup {lineage[Here]} /\ unanswered' = unanswered \cup {lineage[Here]}
           /\ lineage' \in {lineage, [lineage EXCEPT ![Here] = NoPair]} /\ Unmark
  BY <1>1, <1>3, UnansweredStays, UnmarkStep
<1>4. CASE Unmark /\ UNCHANGED <<dead, lineage, unanswered>>
  <2>1. UNCHANGED authority
    BY <1>1, <1>4 DEF authority
  <2> QED
    BY <1>1, <1>4, <2>1, Stays, UnmarkStep
<1> QED
  BY <1>2, <1>3, <1>4 DEF CertbotRevokes
-----------------------------------------------------------------------------
(* The scan reads what the manager writes and writes nothing of it. *)
LEMMA ScanStep ==
  ASSUME CertInv, UNCHANGED manager, UNCHANGED authority, torn' \subseteq Domains,
         scan' \in [on : BOOLEAN, todo : SUBSET Domains, at : SUBSET Domains, half : Nat, found : [Domains -> Nat], gone : SUBSET Nat],
         Scanning'
  PROVE  CertInv'
<1>1. /\ live' = live /\ recorded' = recorded /\ work' = work /\ spoiled' = spoiled
      /\ lineage' = lineage /\ minted' = minted /\ dead' = dead /\ unanswered' = unanswered
  BY DEF manager, authority
<1>2. CertTypes'
  BY <1>1 DEF CertInv, CertTypes
<1>3. Books' /\ Progress' /\ Ownership' /\ Honoured'
  BY <1>1 DEF CertInv, Books, Away, Progress, Ownership, Own, Honoured, Revoked, Here
<1> QED
  BY <1>2, <1>3 DEF CertInv

ScanAs(on, todo, at, half, found, gone) == [on |-> on, todo |-> todo, at |-> at, half |-> half, found |-> found, gone |-> gone]
Nothing == [d \in Domains |-> NoPair]

LEMMA ScanTyped ==
  /\ NoScan = ScanAs(FALSE, {}, {}, 0, Nothing, {}) /\ Nothing \in [Domains -> Nat] /\ \A d \in Domains : Nothing[d] = 0
  /\ \A on \in BOOLEAN, todo \in SUBSET Domains, at \in SUBSET Domains, half \in Nat, found \in [Domains -> Nat], gone \in SUBSET Nat :
       ScanAs(on, todo, at, half, found, gone)
         \in [on : BOOLEAN, todo : SUBSET Domains, at : SUBSET Domains, half : Nat, found : [Domains -> Nat], gone : SUBSET Nat]
BY DEF NoScan, ScanAs, Nothing, NoPair

LEMMA ScanIs ==
  ASSUME CertInv
  PROVE  /\ scan.on \in BOOLEAN /\ scan.todo \in SUBSET Domains /\ scan.at \in SUBSET Domains /\ scan.half \in Nat
         /\ scan.found \in [Domains -> Nat] /\ scan.gone \in SUBSET Nat
         /\ scan = ScanAs(scan.on, scan.todo, scan.at, scan.half, scan.found, scan.gone)
BY DEF CertInv, CertTypes, ScanAs

(* The pair nobody has is never one the authority revoked. *)
LEMMA NobodysPair == ASSUME CertInv PROVE 0 \notin Revoked /\ 1 \notin Revoked
BY DEF CertInv, CertTypes, Ownership, Revoked

LEMMA BeginScanStep == ASSUME CertInv, BeginScan PROVE CertInv'
<1> DEFINE todo == {d \in Domains : live[d] # NoDir}
<1>1. scan' = ScanAs(TRUE, todo, {}, 0, Nothing, Revoked) /\ torn' = {}
  BY DEF BeginScan, NoScan, ScanAs, Nothing, NoPair, Revoked
<1>2. todo \in SUBSET Domains /\ Revoked \in SUBSET Nat /\ {} \in SUBSET Domains
  BY DEF CertInv, CertTypes, Revoked
<1> HIDE DEF todo
<1>3. scan' \in [on : BOOLEAN, todo : SUBSET Domains, at : SUBSET Domains, half : Nat, found : [Domains -> Nat], gone : SUBSET Nat]
  BY <1>1, <1>2, ScanTyped
<1>4. scan'.found = Nothing /\ scan'.gone = Revoked /\ scan'.at = {}
  BY <1>1 DEF ScanAs
<1>5. Revoked' = Revoked
  BY DEF BeginScan, authority, Revoked
<1>6. Scanning'
  BY <1>4, <1>5, NobodysPair, ScanTyped DEF Scanning
<1> QED
  BY <1>1, <1>3, <1>6, ScanStep DEF BeginScan

(* A directory the resolver serves holds no pair whose revocation was told. *)
LEMMA ServableGood ==
  ASSUME CertInv, NEW d \in Domains, Servable(live[d])
  PROVE  live[d].pair \notin Revoked
<1>1. live[d].status = "active"
  BY LiveGood DEF Servable, Directory
<1> QED
  BY <1>1 DEF CertInv, Honoured

LEMMA ReadMetadataStep == ASSUME CertInv, NEW d \in Domains, ReadMetadata(d) PROVE CertInv'
<1> DEFINE at == IF Servable(live[d]) THEN {d} ELSE {}
<1>1. scan' = ScanAs(scan.on, scan.todo \ {d}, at, scan.half, scan.found, scan.gone) /\ torn' = torn
  BY ScanIs DEF ReadMetadata, ScanAs
<1>2. at \in SUBSET Domains /\ scan.todo \ {d} \in SUBSET Domains
  BY ScanIs
<1>3. \A e \in at : live[e].pair \notin Revoked
  BY ServableGood
<1> HIDE DEF at
<1>4. scan' \in [on : BOOLEAN, todo : SUBSET Domains, at : SUBSET Domains, half : Nat, found : [Domains -> Nat], gone : SUBSET Nat]
  BY <1>1, <1>2, ScanIs, ScanTyped
<1>5. scan'.found = scan.found /\ scan'.gone = scan.gone /\ scan'.at = at
  BY <1>1 DEF ScanAs
<1>5a. live' = live /\ Revoked' = Revoked
  BY DEF ReadMetadata, manager, authority, Revoked
<1>6. Scanning'
  BY <1>1, <1>3, <1>5, <1>5a DEF CertInv, Scanning
<1> QED
  BY <1>1, <1>4, <1>6, ScanStep, Typed DEF ReadMetadata

LEMMA ReadPairStep == ASSUME CertInv, NEW d \in Domains, ReadPair(d) PROVE CertInv'
<1>0. torn' = torn /\ live' = live /\ Revoked' = Revoked /\ d \in scan.at /\ live[d].pair \in Nat
  BY LiveGood DEF ReadPair, manager, authority, Revoked, Directory
<1>1. PICK at \in {scan.at, {}}, half \in Nat, found \in [Domains -> Nat] :
        /\ scan' = ScanAs(scan.on, scan.todo, at, half, found, scan.gone)
        /\ \A e \in Domains \ {d} : found[e] = scan.found[e]
        /\ found[d] \in {scan.found[d], live[d].pair}
  <2>1. CASE scan.half = NoPair /\ live[d] # NoDir
    <3>1. scan' = ScanAs(scan.on, scan.todo, scan.at, live[d].pair, scan.found, scan.gone)
      BY <2>1, ScanIs DEF ReadPair, ScanAs
    <3> QED
      BY <1>0, <3>1, ScanIs
  <2>2. CASE ~(scan.half = NoPair /\ live[d] # NoDir)
    <3> DEFINE pair == IF scan.half # NoPair /\ live[d].pair = scan.half THEN scan.half ELSE scan.found[d]
               found == [scan.found EXCEPT ![d] = pair]
    <3>1. scan' = ScanAs(scan.on, scan.todo, {}, NoPair, found, scan.gone)
      BY <2>2, ScanIs DEF ReadPair, ScanAs
    <3>2. pair \in Nat /\ pair \in {scan.found[d], live[d].pair} /\ NoPair \in Nat
      BY <1>0, ScanIs DEF NoPair
    <3> HIDE DEF pair
    <3>3. found \in [Domains -> Nat] /\ found[d] = pair /\ \A e \in Domains \ {d} : found[e] = scan.found[e]
      BY <3>2, ScanIs
    <3> QED
      BY <3>1, <3>2, <3>3
  <2> QED
    BY <2>1, <2>2
<1>2. at \in SUBSET Domains
  BY ScanIs
<1>3. scan' \in [on : BOOLEAN, todo : SUBSET Domains, at : SUBSET Domains, half : Nat, found : [Domains -> Nat], gone : SUBSET Nat]
  BY <1>1, <1>2, ScanIs, ScanTyped
<1>4. scan'.found = found /\ scan'.gone = scan.gone /\ scan'.at = at
  BY <1>1 DEF ScanAs
<1>5. d \notin torn => live[d].pair \notin scan.gone
  BY <1>0 DEF CertInv, Scanning
<1>6. Scanning'
  BY <1>0, <1>1, <1>4, <1>5 DEF CertInv, Scanning
<1> QED
  BY <1>0, <1>3, <1>6, ScanStep, Typed DEF ReadPair

LEMMA PublishScanStep == ASSUME CertInv, PublishScan PROVE CertInv'
<1>1. scan' = NoScan /\ torn' = torn
  BY DEF PublishScan
<1>2. scan' \in [on : BOOLEAN, todo : SUBSET Domains, at : SUBSET Domains, half : Nat, found : [Domains -> Nat], gone : SUBSET Nat]
  BY <1>1, ScanTyped
<1>3. Scanning'
  BY <1>1, ScanTyped DEF Scanning, ScanAs
<1> QED
  BY <1>1, <1>2, <1>3, ScanStep, Typed DEF PublishScan

(* The old place holds a certificate of before, which nobody revokes. *)
LEMMA OldPlaceGood ==
  ASSUME CertInv, NEW d \in Domains
  PROVE  OldPlace \in Directory /\ Good(d, OldPlace) /\ Sane(OldPlace) /\ OldPlace # NoDir /\ ~Servable(OldPlace)
<1>1. OldPlace.pair = 1 /\ OldPlace.status = "active" /\ ~OldPlace.serve
  BY DEF OldPlace
<1>2. Own(d, 1) /\ 1 <= minted /\ 1 \notin Revoked
  BY NobodysPair DEF CertInv, CertTypes, Ownership, Own
<1> QED
  BY <1>1, <1>2, Places, ActiveSane DEF Good, Servable

LEMMA MigratedGood ==
  ASSUME CertInv, NEW d \in Domains
  PROVE  /\ Migrated(d) \in Directory /\ Good(d, Migrated(d)) /\ Sane(Migrated(d))
         /\ Servable(Migrated(d)) => Migrated(d).pair \notin Revoked
         /\ ~Away(d) /\ d \notin spoiled => (d \in recorded <=> Migrated(d) # NoDir)
<1>1. CASE Migrated(d) = live[d] /\ ~(d \in recorded \cap Legacy /\ live[d] = NoDir)
  BY <1>1, LiveGood, ServableGood DEF CertInv, Books
<1>2. CASE Migrated(d) = OldPlace /\ d \in recorded
  BY <1>2, OldPlaceGood
<1> QED
  BY <1>1, <1>2 DEF Migrated

LEMMA DieAndRestartStep == ASSUME CertInv, DieAndRestart PROVE CertInv'
<1>1. /\ live' = [d \in Domains |-> Migrated(d)] /\ work' = Idle /\ scan' = NoScan /\ torn' = {}
      /\ spoiled' = IF work.kind = "none" THEN spoiled ELSE spoiled \cup {Here}
      /\ recorded' = recorded /\ minted' = minted
  BY DEF DieAndRestart
<1>2. AuthorityStays
  <2>1. CASE UNCHANGED <<dead, lineage, unanswered>>
    BY <1>1, <2>1, Stays DEF authority
  <2>2. CASE ~UNCHANGED <<dead, lineage, unanswered>>
    BY <1>1, <2>2, UnansweredStays DEF DieAndRestart
  <2> QED
    BY <2>1, <2>2
<1>3. live' \in [Domains -> Directory] /\ \A d \in Domains : live'[d] = Migrated(d)
  BY <1>1, MigratedGood
<1>4. CertTypes'
  <2>1. work' \in [kind : Stores \cup {"none", "delete", "revoke"}, domain : Domains,
                   step : {"none", "certbot", "displace", "install", "record", "stamp"}, next : Directory, prev : Directory]
    <3>1. "none" \in Kinds /\ "none" \in WorkSteps
      BY DEF Kinds, WorkSteps
    <3> QED
      BY <1>1, <3>1, Places, WorkIs, WorkTyped
  <2>2. scan' \in [on : BOOLEAN, todo : SUBSET Domains, at : SUBSET Domains, half : Nat, found : [Domains -> Nat], gone : SUBSET Nat]
    BY <1>1, ScanTyped
  <2>3. spoiled' \subseteq Domains /\ recorded' \subseteq Domains /\ torn' \subseteq Domains
    BY <1>1, Typed
  <2>4. lineage' \in [Domains -> Nat] /\ minted' \in Nat /\ dead' \subseteq Nat /\ unanswered' \subseteq Nat
    BY <1>2 DEF AuthorityStays, CertInv, CertTypes
  <2> QED
    BY <1>3, <2>1, <2>2, <2>3, <2>4 DEF CertTypes
<1>5. Books'
  <2>1. \A d \in Domains : ~Away(d)' /\ Sane(live'[d])
    BY <1>1, <1>3, Places, MigratedGood DEF Away
  <2>2. ASSUME NEW d \in Domains \ spoiled' PROVE d \in recorded <=> Migrated(d) # NoDir
    <3>1. d \notin spoiled /\ ~Away(d)
      BY <1>1, <2>2 DEF Away
    <3> QED
      BY <2>2, <3>1, MigratedGood
  <2>3. Sane(work'.prev)
    BY <1>1, Places, ActiveSane
  <2> QED
    BY <1>1, <1>3, <2>1, <2>2, <2>3 DEF Books
<1>6. Progress'
  BY <1>1, Places DEF Progress, Stores
<1>7. Scanning'
  BY <1>1, ScanTyped DEF Scanning, ScanAs
<1>8. \A d \in Domains : Good(d, live'[d])
  BY <1>3, MigratedGood
<1>9. Good(work'.domain, work'.next) /\ Good(work'.domain, work'.prev)
  BY <1>1, Places, NoDirGood
<1> QED
  BY <1>2, <1>4, <1>5, <1>6, <1>7, <1>8, <1>9, ManagerStep

LEMMA CertInitInv == CertInit => CertInv
<1> SUFFICES ASSUME CertInit PROVE CertInv
  OBVIOUS
<1>1. /\ recorded = Legacy /\ live = [d \in Domains |-> IF d \in Legacy THEN OldPlace ELSE NoDir]
      /\ lineage = Nothing /\ minted = 1 /\ dead = {} /\ work = Idle /\ scan = NoScan
      /\ unanswered = {} /\ spoiled = {} /\ torn = {}
  BY DEF CertInit, Nothing
<1>2. /\ live \in [Domains -> Directory]
      /\ \A d \in Domains : live[d] = IF d \in Legacy THEN OldPlace ELSE NoDir
  BY <1>1, Places
<1>3. /\ OldPlace.pair = 1 /\ NoDir.pair = 0 /\ OldPlace.status = "active" /\ NoDir.status = "missing" /\ OldPlace # NoDir
      /\ NoPair = 0
  BY DEF OldPlace, NoDir, NoPair
<1>4. CertTypes
  <2>1. work \in [kind : Stores \cup {"none", "delete", "revoke"}, domain : Domains,
                  step : {"none", "certbot", "displace", "install", "record", "stamp"}, next : Directory, prev : Directory]
    <3>1. "none" \in Kinds /\ "none" \in WorkSteps
      BY DEF Kinds, WorkSteps
    <3> QED
      BY <1>1, <3>1, Places, WorkIs, WorkTyped
  <2>2. scan \in [on : BOOLEAN, todo : SUBSET Domains, at : SUBSET Domains, half : Nat, found : [Domains -> Nat], gone : SUBSET Nat]
    BY <1>1, ScanTyped
  <2> QED
    BY <1>1, <1>2, <2>1, <2>2, ScanTyped, CertificateAssumption DEF CertTypes
<1>5. Books
  BY <1>1, <1>2, <1>3, Places, CertificateAssumption DEF Books, Sane, Away
<1>6. Progress
  BY <1>1, Places DEF Progress, Stores
<1>7. Ownership
  BY <1>1, <1>2, <1>3, Places, ScanTyped DEF Ownership, Own, Revoked
<1>8. Honoured
  BY <1>1 DEF Honoured, Revoked
<1>9. Scanning
  BY <1>1, ScanTyped DEF Scanning, ScanAs, Revoked
<1> QED
  BY <1>4, <1>5, <1>6, <1>7, <1>8, <1>9 DEF CertInv

LEMMA CertStutter == CertInv /\ UNCHANGED certVars => CertInv'
BY DEF CertInv, CertTypes, Books, Away, Progress, Ownership, Own, Honoured, Scanning, Revoked, Here, certVars

LEMMA CertStep == CertInv /\ [CertNext]_certVars => CertInv'
<1> SUFFICES ASSUME CertInv, [CertNext]_certVars PROVE CertInv'
  OBVIOUS
<1>1. ASSUME NEW d \in Domains,
             Issue(d) \/ Renew(d) \/ Import(d) \/ Delete(d) \/ Revoke(d) \/ (\E on \in BOOLEAN : SetServeTLS(d, on))
               \/ ReadMetadata(d) \/ ReadPair(d)
      PROVE  CertInv'
  BY <1>1, IssueStep, RenewStep, ImportStep, DeleteStep, RevokeStep, SetServeTLSStep, ReadMetadataStep, ReadPairStep
<1>2. CASE CertbotAnswers \/ Displace \/ InstallFiles \/ Upsert \/ DeleteRow
  BY <1>2, CertbotAnswersStep, DisplaceStep, InstallFilesStep, UpsertStep, DeleteRowStep
<1>3. CASE CertbotRevokes \/ Stamp \/ BeginScan \/ PublishScan \/ DieAndRestart
  BY <1>3, CertbotRevokesStep, StampStep, BeginScanStep, PublishScanStep, DieAndRestartStep
<1>4. CASE UNCHANGED certVars
  BY <1>4, CertStutter
<1> QED
  BY <1>1, <1>2, <1>3, <1>4 DEF CertNext

(* A certificate is recorded exactly when it has its files, as long as      *)
(* nothing failed a second time while the previous files were put back and  *)
(* no operation died: for every number of domains and of certificates.      *)
THEOREM FilesRecordedEver == CertSpec => []FilesRecorded
<1>1. CertInv => FilesRecorded
  BY DEF CertInv, Books, Away, FilesRecorded
<1> QED
  BY <1>1, CertInitInv, CertStep, PTL DEF CertSpec

(* A scan that began after a revocation was reported never puts the revoked *)
(* pair back into service, however the reads of its files interleave with   *)
(* the manager, unless files of the domain were put back after a failure    *)
(* while it scanned (torn).                                                 *)
Honours == \A d \in Domains : served'[d] \in scan.gone => served'[d] = served[d] \/ d \in torn
THEOREM ScanHonoursEver == CertSpec => ScanHonoursRevocation
<1>1. ASSUME CertInv, [CertNext]_certVars PROVE [Honours]_certVars
  <2>1. CASE served' = served
    BY <2>1 DEF Honours
  <2>2. CASE PublishScan
    BY <1>1, <2>2 DEF PublishScan, CertInv, Scanning, Honours
  <2>3. CASE DieAndRestart
    <3>1. \A d \in Domains : served'[d] = IF Servable(Migrated(d)) THEN Migrated(d).pair ELSE NoPair
      BY <2>3 DEF DieAndRestart
    <3>2. \A d \in Domains : served'[d] \notin Revoked
      BY <1>1, <3>1, MigratedGood, NobodysPair DEF NoPair
    <3> QED
      BY <1>1, <3>2 DEF CertInv, Scanning, Honours
  <2>4. CASE /\ ~PublishScan /\ ~DieAndRestart /\ CertNext
    <3>1. UNCHANGED served
      BY <2>4 DEF CertNext, Issue, Renew, Import, Delete, Revoke, SetServeTLS, ReadMetadata, ReadPair,
                  CertbotAnswers, Displace, InstallFiles, Upsert, DeleteRow, CertbotRevokes, Stamp, BeginScan, Free, At, resolver
    <3> QED
      BY <2>1, <3>1
  <2> QED
    BY <1>1, <2>1, <2>2, <2>3, <2>4 DEF certVars
<1> QED
  BY <1>1, CertInitInv, CertStep, PTL DEF CertSpec, ScanHonoursRevocation, Honours
=============================================================================
