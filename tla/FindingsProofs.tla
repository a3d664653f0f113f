--------------------------- MODULE FindingsProofs ---------------------------
(***************************************************************************)
(* Proofs about the way of a finding (engine.py, provenance.py): what the  *)
(* audit log counts reaches the file, and what the file cites is on        *)
(* record and can be read.                                                 *)
(***************************************************************************)
EXTENDS Findings, TLAPS

\* A process holds findings only between its first capability and the end of
\* the scan; a penetration test also while its transcript is being stored.
Holds(p) ==
  loc[p].found # {} =>
    \/ pc[p] = "analyse"
    \/ pc[p] \in {"store", "fill"} /\ loc[p].todo = {} /\ loc[p].then = "analyse"

Shape ==
  /\ DOMAIN pc = Procs /\ DOMAIN loc = Procs
  /\ \A p \in Procs : Holds(p)

\* What a step does with the findings that processes hold.
Accounted ==
  /\ findings \subseteq findings' /\ cut \subseteq cut'
  /\ \A p \in Procs : loc[p].found \subseteq findings' \cup cut' \cup loc'[p].found
  /\ audited' \subseteq audited \cup UNION {loc'[p].found : p \in Procs}

\* The local variables of other processes stay.
OnlyOf(p) ==
  /\ pc' = pc \/ \E s : pc' = [pc EXCEPT ![p] = s]
  /\ loc' = loc \/ \E l : loc' = [loc EXCEPT ![p] = l]

LEMMA OthersStay ==
  ASSUME Shape, NEW p \in Procs, OnlyOf(p)
  PROVE  /\ DOMAIN pc' = Procs /\ DOMAIN loc' = Procs
         /\ \A q \in Procs \ {p} : pc'[q] = pc[q] /\ loc'[q] = loc[q] /\ Holds(q)'
BY DEF Shape, OnlyOf, Holds

LEMMA EmptyHanded ==
  ASSUME Shape, NEW p \in Procs, pc[p] \notin {"analyse", "store", "fill"}
  PROVE  loc[p].found = {}
BY DEF Shape, Holds

\* A step of p that begins with nothing in hand and ends so.
LEMMA NothingHeld ==
  ASSUME Shape, NEW p \in Procs, OnlyOf(p), loc[p].found = {}, loc'[p].found = {},
         findings \subseteq findings', cut \subseteq cut', audited' = audited
  PROVE  Shape' /\ Accounted
<1>1. Holds(p)'
  BY DEF Holds
<1>2. QED
  BY <1>1, OthersStay DEF Shape, Accounted

LEMMA LifeAccounted ==
  ASSUME Shape, NEW p \in Procs, Start(p) \/ Stop(p) \/ Kill(p) \/ LoadFails(p) \/ DeniedCapability(p)
  PROVE  Shape' /\ Accounted
<1>1. CASE Start(p)
  <2>1. pc[p] = "down" /\ pc' = [pc EXCEPT ![p] = "idle"] /\ UNCHANGED <<loc, findings, cut, audited>>
    BY <1>1 DEF Start, workdir, history
  <2>2. OnlyOf(p)
    BY <2>1 DEF OnlyOf
  <2>3. QED
    BY <2>1, <2>2, EmptyHanded, NothingHeld
<1>2. CASE Stop(p) \/ Kill(p) \/ LoadFails(p) \/ DeniedCapability(p)
  <2>1. /\ pc' = [pc EXCEPT ![p] = "down"] /\ loc' = [loc EXCEPT ![p] = NoLocal]
        /\ cut' = cut \cup loc[p].found /\ findings' = findings /\ audited' = audited
    BY <1>2 DEF Stop, Kill, LoadFails, DeniedCapability, Ended, Forgotten, workdir
  <2>2. OnlyOf(p)
    BY <2>1 DEF OnlyOf
  <2>3. loc'[p].found = {}
    BY <2>1 DEF Local, Collecting, Scanning, NoLocal, Shape
  <2>4. Holds(p)'
    BY <2>3 DEF Holds
  <2>5. QED
    BY <2>1, <2>2, <2>4, OthersStay DEF Shape, Accounted
<1>3. QED
  BY <1>1, <1>2

LEMMA CollectAccounted ==
  ASSUME Shape, NEW p \in Procs,
         PassOver(p) \/ Register(p) \/ Store(p) \/ Fill(p) \/ (\E subjects, then : Collect(p, subjects, then))
  PROVE  Shape' /\ Accounted
<1>1. CASE PassOver(p) \/ Register(p)
  <2>1. /\ pc[p] = "collect" /\ \E s : pc' = [pc EXCEPT ![p] = s]
        /\ \E todo, item, then : loc' = [loc EXCEPT ![p] = Collecting(todo, item, then)]
        /\ UNCHANGED <<findings, cut, audited>>
    BY <1>1 DEF PassOver, Register, workdir, history
  <2>a. OnlyOf(p)
    BY <2>1 DEF OnlyOf
  <2>b. loc'[p].found = {}
    BY <2>1 DEF Local, Collecting, Scanning, NoLocal, Shape
  <2>2. OnlyOf(p) /\ loc'[p].found = {}
    BY <2>a, <2>b
  <2>3. QED
    BY <2>1, <2>2, EmptyHanded, NothingHeld
<1>2. CASE Store(p) \/ Fill(p)
  <2>1. /\ loc' = loc /\ UNCHANGED <<findings, cut, audited>>
        /\ \/ pc[p] = "store" /\ pc' = [pc EXCEPT ![p] = "fill"]
           \/ /\ pc[p] = "fill"
              /\ pc' = [pc EXCEPT ![p] = IF loc[p].todo = {} THEN loc[p].then ELSE "collect"]
    BY <1>2 DEF Store, Fill, workdir, history
  <2>2. \A q \in Procs : Holds(q)'
    BY <2>1 DEF Holds, Shape
  <2>3. QED
    BY <2>1, <2>2 DEF Shape, Accounted
<1>3. CASE \E subjects, then : Collect(p, subjects, then)
  <2>1. /\ pc[p] = "idle" /\ pc' = [pc EXCEPT ![p] = "collect"]
        /\ \E todo, item, then : loc' = [loc EXCEPT ![p] = Collecting(todo, item, then)]
        /\ UNCHANGED <<findings, cut, audited>>
    BY <1>3 DEF Collect, Given, workdir
  <2>a. OnlyOf(p)
    BY <2>1 DEF OnlyOf
  <2>b. loc'[p].found = {}
    BY <2>1 DEF Local, Collecting, Scanning, NoLocal, Shape
  <2>2. OnlyOf(p) /\ loc'[p].found = {}
    BY <2>a, <2>b
  <2>3. QED
    BY <2>1, <2>2, EmptyHanded, NothingHeld
<1>4. QED
  BY <1>1, <1>2, <1>3

LEMMA ScanAccounted ==
  ASSUME Shape, NEW p \in Procs,
         Scan(p) \/ LoadEvidence(p) \/ RunCapability(p) \/ Persist(p)
  PROVE  Shape' /\ Accounted
<1>1. CASE Scan(p)
  <2>1. /\ pc[p] = "idle" /\ pc' = [pc EXCEPT ![p] = "scan"] /\ UNCHANGED <<loc, findings, cut, audited>>
    BY <1>1 DEF Scan, Given, workdir
  <2>2. \A q \in Procs : Holds(q)'
    BY <2>1 DEF Holds, Shape
  <2>3. QED
    BY <2>1, <2>2 DEF Shape, Accounted
<1>2. CASE LoadEvidence(p)
  <2>1. /\ pc[p] = "scan" /\ pc' = [pc EXCEPT ![p] = "analyse"]
        /\ loc' = [loc EXCEPT ![p] = Scanning(PlanOf(p), known[p] \cap stored, {})]
        /\ UNCHANGED <<findings, cut, audited>>
    BY <1>2 DEF LoadEvidence, workdir, history
  <2>a. OnlyOf(p)
    BY <2>1 DEF OnlyOf
  <2>b. loc'[p].found = {}
    BY <2>1 DEF Local, Collecting, Scanning, NoLocal, Shape
  <2>2. OnlyOf(p) /\ loc'[p].found = {}
    BY <2>a, <2>b
  <2>3. QED
    BY <2>1, <2>2, EmptyHanded, NothingHeld
<1>3. CASE RunCapability(p)
  <2> DEFINE new == FoundBy(Head(loc[p].plan), loc[p].evidence)
  <2>1. /\ pc[p] = "analyse" /\ pc' = pc /\ UNCHANGED <<findings, cut>>
        /\ loc' = [loc EXCEPT ![p] = Scanning(Tail(@.plan), @.evidence, @.found \cup new)]
        /\ audited' = audited \cup new
    BY <1>3 DEF RunCapability, workdir
  <2> HIDE DEF new
  <2>2. loc'[p].found = loc[p].found \cup new
    BY <2>1 DEF Local, Collecting, Scanning, NoLocal, Shape
  <2>3. \A q \in Procs \ {p} : loc'[q] = loc[q]
    BY <2>1 DEF Shape
  <2>4. Shape'
    BY <2>1, <2>3 DEF Shape, Holds
  <2>5. QED
    BY <2>1, <2>2, <2>3, <2>4 DEF Accounted
<1>4. CASE Persist(p)
  <2>1. /\ \E s : pc' = [pc EXCEPT ![p] = s]
        /\ loc' = [loc EXCEPT ![p] = NoLocal]
        /\ findings' = findings \cup loc[p].found /\ UNCHANGED <<cut, audited>>
    BY <1>4 DEF Persist, history
  <2>a. OnlyOf(p)
    BY <2>1 DEF OnlyOf
  <2>b. loc'[p].found = {}
    BY <2>1 DEF Local, Collecting, Scanning, NoLocal, Shape
  <2>2. OnlyOf(p) /\ loc'[p].found = {}
    BY <2>a, <2>b
  <2>3. Holds(p)'
    BY <2>2 DEF Holds
  <2>4. QED
    BY <2>1, <2>2, <2>3, OthersStay DEF Shape, Accounted
<1>5. QED
  BY <1>1, <1>2, <1>3, <1>4

LEMMA ChecksAccounted ==
  ASSUME Shape, NEW p \in Procs,
         Check(p) \/ IntegrityCheck(p) \/ AttackPaths(p) \/ CiemAnalyze(p) \/ SaveBaseline(p)
  PROVE  Shape' /\ Accounted
<1>1. /\ pc[p] \in {"idle", "check", "hash"} /\ \E s : pc' = [pc EXCEPT ![p] = s]
      /\ findings \subseteq findings' /\ UNCHANGED <<cut, audited>>
  BY DEF Check, IntegrityCheck, AttackPaths, CiemAnalyze, SaveBaseline, Given, workdir, history
<1>2. loc' = loc \/ loc' = [loc EXCEPT ![p] = NoLocal]
  BY DEF Check, IntegrityCheck, AttackPaths, CiemAnalyze, SaveBaseline
<1>3. OnlyOf(p)
  BY <1>1, <1>2 DEF OnlyOf
<1>4. OnlyOf(p) /\ loc[p].found = {}
  BY <1>1, <1>3, EmptyHanded
<1>5. loc'[p].found = {}
  BY <1>2, <1>4 DEF Local, Collecting, Scanning, NoLocal, Shape
<1>6. QED
  BY <1>1, <1>4, <1>5, NothingHeld

LEMMA PentestAccounted ==
  ASSUME Shape, NEW p \in Procs, NEW hosts, Pentest(p, hosts)
  PROVE  Shape' /\ Accounted
<1>1. /\ pc[p] = "idle" /\ pc' = [pc EXCEPT ![p] = "store"]
      /\ \E item, found : loc' = [loc EXCEPT ![p] = Local({}, item, "analyse", <<>>, {}, found)]
      /\ UNCHANGED <<findings, cut, audited>>
  BY DEF Pentest, Given, workdir
<1>a. OnlyOf(p)
  BY <1>1 DEF OnlyOf
<1>b. pc'[p] = "store" /\ loc'[p].todo = {} /\ loc'[p].then = "analyse"
  BY <1>1 DEF Shape, Local
<1>2. OnlyOf(p) /\ pc'[p] = "store" /\ loc'[p].todo = {} /\ loc'[p].then = "analyse"
  BY <1>a, <1>b
<1>3. loc[p].found = {}
  BY <1>1, EmptyHanded
<1>4. QED
  BY <1>1, <1>2, <1>3, OthersStay DEF Shape, Accounted, Holds

LEMMA StepAccounted ==
  ASSUME Shape, [Next]_vars
  PROVE  Shape' /\ Accounted
<1>1. CASE UNCHANGED vars \/ \E s \in Subjects : Change(s)
  <2>1. UNCHANGED <<pc, loc, findings, cut, audited>>
    BY <1>1 DEF Change, vars, workdir, history
  <2>2. QED
    BY <2>1 DEF Shape, Accounted, Holds
<1>2. ASSUME NEW p \in Procs, Start(p) \/ Kill(p) \/ Continue(p) \/ Tick(p) \/ Command(p)
      PROVE  Shape' /\ Accounted
  BY <1>2, LifeAccounted, CollectAccounted, ScanAccounted, ChecksAccounted, PentestAccounted
     DEF Continue, Tick, Command, Discover, BaselineFiles
<1>3. QED
  BY <1>1, <1>2 DEF Next, Procs

\* What the audit log counts as found is on file, in hand or was cut off.
THEOREM AuditedFindingsReachFile == Spec => []AuditedReachFile
<1>1. Init => Shape /\ AuditedReachFile
  BY DEF Local, NoLocal, Init, Shape, Holds, AuditedReachFile
<1>2. Shape /\ AuditedReachFile /\ [Next]_vars => Shape' /\ AuditedReachFile'
  <2> SUFFICES ASSUME Shape, AuditedReachFile, [Next]_vars
               PROVE  Shape' /\ AuditedReachFile'
    OBVIOUS
  <2>1. Shape' /\ Accounted
    BY StepAccounted
  <2>2. QED
    BY <2>1 DEF Accounted, AuditedReachFile
<1>3. QED
  BY <1>1, <1>2, PTL DEF Spec

-----------------------------------------------------------------------------
(* The evidence: what is cited can be read.                                *)

\* The item at hand is on record while its content is being written.
AtHand(p, e) == pc[p] \in {"store", "fill"} /\ e = loc[p].item

Records ==
  /\ DOMAIN known = Copies
  /\ stored \subseteq known["workdir"]
  /\ \A c \in Copies : known[c] \subseteq known["workdir"]
  /\ \A p \in Procs : pc[p] \in {"store", "fill"} => loc[p].item \in known["workdir"]

\* A scan has read what it analyses.
HasRead == \A p \in Procs : loc[p].evidence \subseteq stored

InHand == \A p \in Procs : \A f \in loc[p].found : \A e \in f.cites : e \in stored \/ AtHand(p, e)

OnFile == \A f \in findings : f.cites \subseteq stored \cap known["workdir"]

Evidence == Records /\ HasRead /\ InHand /\ OnFile

\* What can be read once can always be read; so a step of p has to account only
\* for what p holds then, and for what it adds to the file.
LEMMA Lasting ==
  ASSUME Shape, Evidence, NEW p \in Procs, OnlyOf(p), Records', stored \subseteq stored',
         loc'[p].evidence \subseteq stored',
         \A f \in loc'[p].found : \A e \in f.cites : e \in stored' \/ AtHand(p, e)',
         \A f \in findings' : f \in findings \/ f.cites \subseteq stored'
  PROVE  Evidence'
<1>1. \A q \in Procs \ {p} : pc'[q] = pc[q] /\ loc'[q] = loc[q]
  BY OthersStay
<1>2. HasRead'
  BY <1>1 DEF Evidence, HasRead
<1>3. InHand'
  <2> SUFFICES ASSUME NEW q \in Procs, NEW f \in loc'[q].found, NEW e \in f.cites
               PROVE  e \in stored' \/ AtHand(q, e)'
    BY DEF InHand
  <2>1. CASE q = p
    BY <2>1
  <2>2. CASE q # p
    <3>1. e \in stored \/ AtHand(q, e)
      BY <1>1, <2>2 DEF Evidence, InHand
    <3>2. QED
      BY <1>1, <2>2, <3>1 DEF AtHand
  <2>3. QED
    BY <2>1, <2>2
<1>4. OnFile'
  BY DEF Evidence, OnFile, Records
<1>5. QED
  BY <1>2, <1>3, <1>4 DEF Evidence

\* A step of p that begins no writing of a content and ends none.
LEMMA RecordsStay ==
  ASSUME Shape, Evidence, NEW p \in Procs, OnlyOf(p), pc'[p] \notin {"store", "fill"}, UNCHANGED <<known, stored>>
  PROVE  Records'
BY OthersStay DEF Evidence, Records

\* Such a step that ends with nothing in hand.
LEMMA PlainStep ==
  ASSUME Shape, Evidence, NEW p \in Procs, OnlyOf(p), pc'[p] \notin {"store", "fill"}, UNCHANGED <<known, stored>>,
         loc'[p].evidence \subseteq stored, loc'[p].found = {},
         \A f \in findings' : f \in findings \/ f.cites \subseteq stored
  PROVE  Evidence'
BY RecordsStay, Lasting

LEMMA StartKeeps ==
  ASSUME Shape, Evidence, NEW p \in Procs, Start(p)
  PROVE  Evidence'
<1>1. /\ pc[p] = "down" /\ pc' = [pc EXCEPT ![p] = "idle"]
      /\ UNCHANGED <<loc, stored, findings>>
      /\ known' = [known EXCEPT ![p] = known["workdir"]]
  BY DEF Start, workdir
<1>2. "workdir" \notin Procs /\ Copies = Procs \cup {"workdir"}
  BY FindingsAssumption DEF Copies
<1>3. /\ DOMAIN known' = Copies /\ known'["workdir"] = known["workdir"]
      /\ \A c \in Copies : known'[c] \in {known[c], known["workdir"]}
      /\ \A q \in Procs : pc'[q] \in {"store", "fill"} => pc[q] \in {"store", "fill"}
  BY <1>1, <1>2 DEF Evidence, Records, Shape
<1>4. Records'
  BY <1>1, <1>2, <1>3 DEF Evidence, Records
<1>5. OnlyOf(p)
  BY <1>1 DEF OnlyOf
<1>6. loc'[p].evidence \subseteq stored'
  BY <1>1 DEF Evidence, HasRead
<1>7. loc'[p].found = {}
  BY <1>1, EmptyHanded
<1>8. QED
  BY <1>1, <1>4, <1>5, <1>6, <1>7, Lasting

\* The process that ends or is killed forgets; a content it was writing may be
\* cut short, and is then on record as what can be read of it.
LEMMA LeavingKeeps ==
  ASSUME Shape, Evidence, NEW p \in Procs, Forgotten(p), UNCHANGED findings,
         \/ UNCHANGED stored /\ known' = [known EXCEPT ![p] = {}]
         \/ pc[p] = "fill" /\ \E scrap : CutShort(p, scrap)
  PROVE  Evidence'
<1>1. "workdir" \notin Procs /\ Copies = Procs \cup {"workdir"}
  BY FindingsAssumption DEF Copies
<1>2. /\ pc' = [pc EXCEPT ![p] = "down"] /\ loc' = [loc EXCEPT ![p] = NoLocal]
  BY DEF Forgotten
<1>3. OnlyOf(p)
  BY <1>2 DEF OnlyOf
<1>4. pc'[p] = "down" /\ loc'[p].found = {} /\ loc'[p].evidence = {}
  BY <1>2 DEF Shape, NoLocal, Local
<1>5. \A q \in Procs \ {p} : pc'[q] = pc[q] /\ loc'[q] = loc[q]
  BY <1>3, OthersStay
<1>6. Records' /\ stored \subseteq stored'
  <2>1. CASE UNCHANGED stored /\ known' = [known EXCEPT ![p] = {}]
    <3>1. /\ DOMAIN known' = Copies /\ known'["workdir"] = known["workdir"]
          /\ \A c \in Copies : known'[c] \in {known[c], {}}
      BY <1>1, <2>1 DEF Evidence, Records
    <3>2. QED
      BY <1>1, <1>4, <1>5, <2>1, <3>1 DEF Evidence, Records
  <2>2. CASE pc[p] = "fill" /\ \E scrap : CutShort(p, scrap)
    <3>1. PICK scrap : CutShort(p, scrap)
      BY <2>2
    <3>2. loc[p].item \in known["workdir"]
      BY <2>2 DEF Evidence, Records
    <3>3. /\ DOMAIN known' = Copies /\ known'["workdir"] = known["workdir"] \cup {scrap}
          /\ \A c \in Copies : known'[c] \subseteq known[c] \cup {scrap}
          /\ stored' = stored \cup {scrap}
      BY <1>1, <3>1, <3>2 DEF CutShort
    <3>4. QED
      BY <1>1, <1>4, <1>5, <3>3 DEF Evidence, Records
  <2>3. QED
    BY <2>1, <2>2
<1>7. QED
  BY <1>3, <1>4, <1>6, Lasting

LEMMA LifeKeeps ==
  ASSUME Shape, Evidence, NEW p \in Procs, Start(p) \/ Stop(p) \/ Kill(p) \/ LoadFails(p) \/ DeniedCapability(p)
  PROVE  Evidence'
<1>1. CASE Start(p)
  BY <1>1, StartKeeps
<1>2. CASE Stop(p) \/ LoadFails(p) \/ DeniedCapability(p)
  BY <1>2, LeavingKeeps DEF Stop, LoadFails, DeniedCapability, Ended, workdir
<1>3. CASE Kill(p)
  BY <1>3, LeavingKeeps DEF Kill
<1>4. QED
  BY <1>1, <1>2, <1>3

\* A record is written, and its content is the item at hand.
LEMMA RecordedKeeps ==
  ASSUME Shape, Evidence, NEW p \in Procs, NEW item, Recorded(p, item), OnlyOf(p),
         pc'[p] = "store", loc'[p].item = item, loc'[p].evidence = {},
         \A f \in loc'[p].found : f.cites = {item},
         UNCHANGED <<stored, findings>>
  PROVE  Evidence'
<1>1. "workdir" \notin Procs /\ Copies = Procs \cup {"workdir"}
  BY FindingsAssumption DEF Copies
<1>2. \A q \in Procs \ {p} : pc'[q] = pc[q] /\ loc'[q] = loc[q]
  BY OthersStay
<1>3. /\ DOMAIN known' = Copies
      /\ known'["workdir"] = known["workdir"] \cup {item}
      /\ \A c \in Copies : known'[c] \subseteq known[c] \cup {item}
  BY <1>1 DEF Recorded, Evidence, Records
<1>4. Records'
  BY <1>1, <1>2, <1>3 DEF Evidence, Records
<1>5. \A f \in loc'[p].found : \A e \in f.cites : AtHand(p, e)'
  BY DEF AtHand
<1>6. QED
  BY <1>4, <1>5, Lasting

LEMMA RegisterKeeps ==
  ASSUME Shape, Evidence, NEW p \in Procs, Register(p)
  PROVE  Evidence'
<1>1. PICK item : \E s \in loc[p].todo :
        /\ Recorded(p, item)
        /\ loc' = [loc EXCEPT ![p] = Collecting(@.todo \ {s}, item, @.then)]
  BY DEF Register
<1>2. pc[p] = "collect" /\ pc' = [pc EXCEPT ![p] = "store"] /\ UNCHANGED <<stored, findings>>
  BY DEF Register, workdir
<1>3. OnlyOf(p)
  BY <1>1, <1>2 DEF OnlyOf
<1>4. pc'[p] = "store" /\ loc'[p].item = item /\ loc'[p].evidence = {} /\ loc'[p].found = {}
  BY <1>1, <1>2 DEF Shape, Local, Collecting
<1>5. QED
  BY <1>1, <1>2, <1>3, <1>4, RecordedKeeps

LEMMA PentestKeeps ==
  ASSUME Shape, Evidence, NEW p \in Procs, NEW hosts, Pentest(p, hosts)
  PROVE  Evidence'
<1>1. PICK item, found :
        /\ Recorded(p, item)
        /\ loc' = [loc EXCEPT ![p] = Local({}, item, "analyse", <<>>, {}, found)]
        /\ \A f \in found : f.cites = {item}
  <2> DEFINE transcript == Item("pentest", "pentest", UNION {{Lines(h, spot) : spot \in world[h]} : h \in hosts})
             found == UNION {UNION {{Finding("pentest", i.rule, i.severity, h, {transcript}) : i \in Probed(spot)} :
                                      spot \in world[h]} : h \in hosts}
  <2>1. Recorded(p, transcript) /\ loc' = [loc EXCEPT ![p] = Local({}, transcript, "analyse", <<>>, {}, found)]
    BY DEF Pentest
  <2>2. \A f \in found : f.cites = {transcript}
    BY DEF Finding
  <2> QED
    BY <2>1, <2>2
<1>2. pc' = [pc EXCEPT ![p] = "store"] /\ UNCHANGED <<stored, findings>>
  BY DEF Pentest, workdir
<1>3. OnlyOf(p)
  BY <1>1, <1>2 DEF OnlyOf
<1>4. pc'[p] = "store" /\ loc'[p].item = item /\ loc'[p].evidence = {} /\ loc'[p].found = found
  BY <1>1, <1>2 DEF Shape, Local
<1>5. QED
  BY <1>1, <1>2, <1>3, <1>4, RecordedKeeps

LEMMA StoreKeeps ==
  ASSUME Shape, Evidence, NEW p \in Procs, Store(p) \/ Fill(p)
  PROVE  Evidence'
<1>1. /\ pc[p] \in {"store", "fill"} /\ UNCHANGED <<known, loc, findings>>
      /\ \/ pc' = [pc EXCEPT ![p] = "fill"] /\ stored' = stored
         \/ (\E s : pc' = [pc EXCEPT ![p] = s]) /\ stored' = stored \cup {loc[p].item}
  BY DEF Store, Fill, workdir, copies
<1>2. OnlyOf(p)
  BY <1>1 DEF OnlyOf
<1>3. loc[p].item \in known["workdir"]
  BY <1>1 DEF Evidence, Records
<1>4. Records'
  <2>1. \A q \in Procs \ {p} : pc'[q] = pc[q]
    BY <1>2, OthersStay
  <2>2. QED
    BY <1>1, <1>3, <2>1 DEF Evidence, Records
<1>5. loc'[p].evidence \subseteq stored'
  BY <1>1 DEF Evidence, HasRead
<1>6. \A f \in loc'[p].found : \A e \in f.cites : e \in stored' \/ AtHand(p, e)'
  <2>1. \A f \in loc[p].found : \A e \in f.cites : e \in stored \/ e = loc[p].item
    BY DEF Evidence, InHand, AtHand
  <2>2. CASE pc' = [pc EXCEPT ![p] = "fill"] /\ stored' = stored
    BY <1>1, <2>1, <2>2 DEF Shape, AtHand
  <2>3. CASE stored' = stored \cup {loc[p].item}
    BY <1>1, <2>1, <2>3
  <2>4. QED
    BY <1>1, <2>2, <2>3
<1>7. QED
  BY <1>1, <1>2, <1>4, <1>5, <1>6, Lasting

LEMMA CollectKeeps ==
  ASSUME Shape, Evidence, NEW p \in Procs,
         \/ \E subjects, then : Collect(p, subjects, then)
         \/ PassOver(p) \/ Scan(p) \/ Check(p) \/ SaveBaseline(p)
  PROVE  Evidence'
<1>1. /\ pc[p] \in {"idle", "collect", "hash"}
      /\ \E s \in {"collect", "scan", "check", "hash", "idle", "done"} : pc' = [pc EXCEPT ![p] = s]
      /\ \/ loc' = loc
         \/ \E todo, then : loc' = [loc EXCEPT ![p] = Collecting(todo, NoItem, then)]
         \/ loc' = [loc EXCEPT ![p] = NoLocal]
      /\ UNCHANGED <<known, stored, findings>>
  BY DEF Collect, PassOver, Scan, Check, SaveBaseline, Given, Rest, workdir, copies
<1>2. OnlyOf(p)
  BY <1>1 DEF OnlyOf
<1>3. pc'[p] \notin {"store", "fill"}
  BY <1>1 DEF Shape
<1>4. loc[p].found = {} /\ loc[p].evidence \subseteq stored
  BY <1>1, EmptyHanded DEF Evidence, HasRead
<1>5. loc'[p].found = {} /\ loc'[p].evidence \subseteq stored
  BY <1>1, <1>4 DEF Shape, Local, Collecting, NoLocal
<1>6. QED
  BY <1>1, <1>2, <1>3, <1>5, PlainStep

LEMMA ReportKeeps ==
  ASSUME Shape, Evidence, NEW p \in Procs,
         IntegrityCheck(p) \/ AttackPaths(p) \/ CiemAnalyze(p)
  PROVE  Evidence'
<1>1. /\ pc[p] \in {"idle", "check"} /\ pc' = [pc EXCEPT ![p] = Rest(p)]
      /\ UNCHANGED <<loc, known, stored>>
  BY DEF IntegrityCheck, AttackPaths, CiemAnalyze, Given, copies
<1>2. OnlyOf(p)
  BY <1>1 DEF OnlyOf
<1>3. pc'[p] \notin {"store", "fill"}
  BY <1>1 DEF Shape, Rest
<1>4. loc'[p].found = {} /\ loc'[p].evidence \subseteq stored
  BY <1>1, EmptyHanded DEF Evidence, HasRead
<1>5. \A f \in findings' : f \in findings \/ f.cites \subseteq stored
  <2>1. CASE IntegrityCheck(p)
    <3>1. findings' = findings \cup Tampering(base[p])
      BY <2>1 DEF IntegrityCheck
    <3>2. \A f \in Tampering(base[p]) : f.cites = {}
      BY DEF Tampering, Finding
    <3>3. QED
      BY <3>1, <3>2
  <2>2. CASE AttackPaths(p)
    <3>1. findings' = findings \cup Paths
      BY <2>2 DEF AttackPaths
    <3>2. \A members \in SUBSET findings : UNION {f.cites : f \in members} \subseteq stored
      BY DEF Evidence, OnFile
    <3>3. \A f \in Paths : \E members \in SUBSET findings : f.cites = UNION {g.cites : g \in members}
      <4> SUFFICES ASSUME NEW f \in Paths
                   PROVE  \E members \in SUBSET findings : f.cites = UNION {g.cites : g \in members}
        OBVIOUS
      <4>1. PICK severity, rules : f = Path(severity, With(ExposureRules) \cup With(rules))
        BY DEF Paths
      <4>2. With(ExposureRules) \cup With(rules) \in SUBSET findings
        BY DEF With
      <4>3. f.cites = UNION {g.cites : g \in With(ExposureRules) \cup With(rules)}
        BY <4>1 DEF Path, Finding
      <4>4. QED
        BY <4>2, <4>3
    <3>4. QED
      BY <3>1, <3>2, <3>3
  <2>3. CASE CiemAnalyze(p)
    <3> DEFINE evidence == known[p] \cap stored
    <3>1. Admins(evidence) \subseteq stored
      BY DEF Admins, Identities
    <3>2. PICK c \in Concentrations(evidence) : findings' = findings \cup Entitlements(Admins(evidence)) \cup c
      BY <2>3 DEF CiemAnalyze
    <3> HIDE DEF evidence
    <3>3. \A f \in Entitlements(Admins(evidence)) : f.cites \subseteq stored
      BY <3>1 DEF Entitlements, Finding
    <3>4. \A f \in c : f.cites \subseteq stored
      BY <3>1 DEF Concentrations, Finding
    <3>5. QED
      BY <3>2, <3>3, <3>4
  <2>4. QED
    BY <2>1, <2>2, <2>3
<1>6. QED
  BY <1>1, <1>2, <1>3, <1>4, <1>5, PlainStep

LEMMA LoadKeeps ==
  ASSUME Shape, Evidence, NEW p \in Procs, LoadEvidence(p)
  PROVE  Evidence'
<1>1. /\ pc' = [pc EXCEPT ![p] = "analyse"]
      /\ loc' = [loc EXCEPT ![p] = Scanning(PlanOf(p), known[p] \cap stored, {})]
      /\ UNCHANGED <<known, stored, findings>>
  BY DEF LoadEvidence, workdir, copies
<1>2. OnlyOf(p)
  BY <1>1 DEF OnlyOf
<1>3. loc'[p].found = {} /\ loc'[p].evidence \subseteq stored /\ pc'[p] = "analyse"
  BY <1>1 DEF Shape, Local, Scanning
<1>4. QED
  BY <1>1, <1>2, <1>3, PlainStep

LEMMA RunKeeps ==
  ASSUME Shape, Evidence, NEW p \in Procs, RunCapability(p)
  PROVE  Evidence'
<1> DEFINE new == FoundBy(Head(loc[p].plan), loc[p].evidence)
<1>1. \A f \in new : \E e \in loc[p].evidence : f.cites = {e}
  BY DEF FoundBy, Finding
<1>2. /\ pc[p] = "analyse" /\ pc' = pc
      /\ loc' = [loc EXCEPT ![p] = Scanning(Tail(@.plan), @.evidence, @.found \cup new)]
      /\ UNCHANGED <<known, stored, findings>>
  BY DEF RunCapability, workdir, copies
<1> HIDE DEF new
<1>3. OnlyOf(p)
  BY <1>2 DEF OnlyOf
<1>4. loc'[p].found = loc[p].found \cup new /\ loc'[p].evidence = loc[p].evidence
  BY <1>2 DEF Shape, Local, Scanning
<1>5. loc[p].evidence \subseteq stored
  BY DEF Evidence, HasRead
<1>6. \A f \in loc'[p].found : \A e \in f.cites : e \in stored
  <2>1. \A f \in loc[p].found : \A e \in f.cites : e \in stored
    BY <1>2 DEF Evidence, InHand, AtHand
  <2>2. QED
    BY <1>1, <1>4, <1>5, <2>1
<1>7. Records'
  BY <1>2, <1>3, RecordsStay
<1>8. QED
  BY <1>2, <1>3, <1>4, <1>5, <1>6, <1>7, Lasting

LEMMA PersistKeeps ==
  ASSUME Shape, Evidence, NEW p \in Procs, Persist(p)
  PROVE  Evidence'
<1>1. /\ pc[p] = "analyse" /\ \E s \in {"check", "done"} : pc' = [pc EXCEPT ![p] = s]
      /\ loc' = [loc EXCEPT ![p] = NoLocal]
      /\ findings' = findings \cup loc[p].found
      /\ UNCHANGED <<known, stored>>
  BY DEF Persist, copies
<1>2. OnlyOf(p)
  BY <1>1 DEF OnlyOf
<1>3. pc'[p] \notin {"store", "fill"} /\ loc'[p].found = {} /\ loc'[p].evidence = {}
  BY <1>1 DEF Shape, Local, NoLocal
<1>4. \A f \in loc[p].found : f.cites \subseteq stored
  BY <1>1 DEF Evidence, InHand, AtHand
<1>5. QED
  BY <1>1, <1>2, <1>3, <1>4, PlainStep

LEMMA StepKeepsEvidence ==
  ASSUME Shape, Evidence, [Next]_vars
  PROVE  Evidence'
<1>1. CASE UNCHANGED vars \/ \E s \in Subjects : Change(s)
  <2>1. UNCHANGED <<pc, loc, findings, known, stored>>
    BY <1>1 DEF Change, vars, workdir, copies
  <2>2. QED
    BY <2>1 DEF Evidence, Records, HasRead, InHand, AtHand, OnFile
<1>2. ASSUME NEW p \in Procs, Start(p) \/ Kill(p) \/ Continue(p) \/ Tick(p) \/ Command(p)
      PROVE  Evidence'
  BY <1>2, LifeKeeps, RegisterKeeps, StoreKeeps, PentestKeeps, CollectKeeps, ReportKeeps,
     LoadKeeps, RunKeeps, PersistKeeps
     DEF Continue, Tick, Command, Discover, BaselineFiles
<1>3. QED
  BY <1>1, <1>2 DEF Next, Procs

LEMMA EvidenceInit ==
  ASSUME Init
  PROVE  Evidence
BY DEF Init, Evidence, Records, HasRead, InHand, OnFile, Copies, NoLocal, Local

\* The part of FindingsAreShown about the evidence that is cited: whatever was
\* killed or collected meanwhile, it is on record and can be read.
THEOREM CitedEvidenceIsReadable == Spec => []OnFile
<1>1. Init => Shape /\ Evidence
  <2>1. Init => Shape
    BY DEF Init, Shape, Holds, Local, NoLocal
  <2>2. QED
    BY <2>1, EvidenceInit
<1>2. Shape /\ Evidence /\ [Next]_vars => Shape' /\ Evidence'
  BY StepAccounted, StepKeepsEvidence
<1>3. Evidence => OnFile
  BY DEF Evidence
<1>4. QED
  BY <1>1, <1>2, <1>3, PTL DEF Spec

-----------------------------------------------------------------------------
(* What a finding says is so in the evidence it cites.                     *)

AllShown ==
  /\ \A f \in findings : IsShown(f)
  /\ \A p \in Procs : \A f \in loc[p].found : IsShown(f)

\* A finding that a step adds was in somebody's hands, or is shown.
NewAreShown ==
  /\ \A f \in findings' : f \in findings \/ IsShown(f)' \/ \E p \in Procs : f \in loc[p].found
  /\ \A p \in Procs : \A f \in loc'[p].found : f \in loc[p].found \/ IsShown(f)'

LEMMA ShownStays ==
  ASSUME findings \subseteq findings', NEW f, IsShown(f)
  PROVE  IsShown(f)'
BY DEF IsShown

LEMMA CapabilityIsShown ==
  ASSUME NEW capability, NEW evidence, NEW f \in FoundBy(capability, evidence)
  PROVE  IsShown(f)
<1>0. PICK e \in evidence : \E i \in IssuesOf(capability, e) :
        f = Finding(capability, i.rule, i.severity, e.subject, {e})
  BY DEF FoundBy
<1>1. PICK i \in IssuesOf(capability, e) : f = Finding(capability, i.rule, i.severity, e.subject, {e})
  BY <1>0
<1>2. f.capability = capability /\ f.cites = {e}
  BY <1>1 DEF Finding
<1>3. IsShownBy(f, e)
  BY <1>1, <1>2 DEF IsShownBy
<1>4. QED
  BY <1>2, <1>3 DEF IsShown

LEMMA EntitlementIsShown ==
  ASSUME NEW evidence, NEW c \in Concentrations(evidence),
         NEW f \in Entitlements(Admins(evidence)) \cup c
  PROVE  IsShown(f)
<1>1. \A e \in Admins(evidence) : Admins({e}) = {e}
  BY DEF Admins, Identities
<1>2. Admins(Admins(evidence)) = Admins(evidence)
  BY DEF Admins, Identities
<1>3. CASE f \in Entitlements(Admins(evidence))
  <2>1. PICK e \in Admins(evidence) : f \in Entitlements({e}) /\ f.capability = "ciem" /\ f.cites = {e}
    BY <1>3 DEF Entitlements, Finding
  <2>2. f \in Entitlements(Admins(f.cites)) /\ f.cites # {}
    BY <1>1, <2>1
  <2>3. QED
    BY <2>1, <2>2 DEF IsShown
<1>4. CASE f \in c
  <2>1. /\ f.capability = "ciem" /\ f.rule = "ciem-admin-concentration"
        /\ f.cites = Admins(evidence) /\ Admins(evidence) # {}
    BY <1>4 DEF Concentrations, Finding
  <2>2. QED
    BY <1>2, <2>1 DEF IsShown
<1>5. QED
  BY <1>3, <1>4

LEMMA PathIsShown ==
  ASSUME NEW f \in Paths, With(ExposureRules) # {}
  PROVE  IsShown(f)
<1>1. PICK severity, rules :
        /\ rules \in {PrivilegeRules, DataRules} /\ With(rules) # {}
        /\ f = Path(severity, With(ExposureRules) \cup With(rules))
  BY DEF Paths
<1>2. PICK g \in With(ExposureRules), h \in With(rules) : TRUE
  BY <1>1
<1>3. /\ g \in findings /\ h \in findings
      /\ g.rule \in ExposureRules /\ h.rule \in PrivilegeRules \cup DataRules
  BY <1>1, <1>2 DEF With
<1>4. f.capability = "attackpath" /\ g.cites \cup h.cites \subseteq f.cites
  BY <1>1, <1>2 DEF Path, Finding
<1>5. QED
  BY <1>3, <1>4 DEF IsShown

LEMMA ProbeIsShown ==
  ASSUME NEW hosts \in SUBSET Scope, NEW h \in hosts, NEW spot \in world[h], NEW i \in Probed(spot),
         NEW transcript,
         transcript = Item("pentest", "pentest", UNION {{Lines(g, x) : x \in world[g]} : g \in hosts}),
         NEW f, f = Finding("pentest", i.rule, i.severity, h, {transcript})
  PROVE  IsShown(f)
<1>1. Lines(h, spot) \in transcript.content
  BY DEF Item
<1>2. i.rule \in spot /\ (i.rule \in HeaderRules => "http" \in spot)
  <2>1. i.rule \in spot
    BY DEF Probed, Met
  <2>2. CASE "http" \in spot
    BY <2>1, <2>2
  <2>3. CASE "http" \notin spot
    <3>1. i \in ReachableTable \cup TlsTable
      BY <2>3 DEF Probed, Met
    <3>2. i.rule \notin HeaderRules
      BY <3>1 DEF ReachableTable, TlsTable, Issues, HeaderRules
    <3>3. QED
      BY <2>1, <3>2
  <2>4. QED
    BY <2>2, <2>3
<1>3. "http" \notin HeaderRules
  BY DEF HeaderRules
<1>4. /\ h \in Lines(h, spot)
      /\ i.rule \in Lines(h, spot) \/ (i.rule \in HeaderRules /\ "http" \in Lines(h, spot))
  BY <1>2, <1>3 DEF Lines
<1>5. f.capability = "pentest" /\ f.subject = h /\ f.cites = {transcript} /\ f.rule = i.rule
  BY DEF Finding
<1>6. IsTranscribed(f)
  BY <1>1, <1>4, <1>5 DEF IsTranscribed
<1>7. QED
  BY <1>5, <1>6 DEF IsShown

\* Steps that put no finding into anybody's hands.
LEMMA QuietHands ==
  ASSUME Shape, NEW p \in Procs,
         \/ Start(p) \/ Stop(p) \/ Kill(p) \/ LoadFails(p) \/ DeniedCapability(p)
         \/ PassOver(p) \/ Register(p) \/ Store(p) \/ Fill(p) \/ (\E subjects, then : Collect(p, subjects, then))
         \/ Scan(p) \/ LoadEvidence(p) \/ Persist(p) \/ SaveBaseline(p)
         \/ Check(p) \/ IntegrityCheck(p) \/ AttackPaths(p) \/ CiemAnalyze(p)
  PROVE  \A q \in Procs : loc'[q].found \subseteq loc[q].found
<1>1. \/ loc' = loc
      \/ \E todo, item, then, plan, evidence : loc' = [loc EXCEPT ![p] = Local(todo, item, then, plan, evidence, {})]
  <2>1. CASE Start(p) \/ Stop(p) \/ Kill(p) \/ LoadFails(p) \/ DeniedCapability(p)
    <3>1. loc' = loc \/ loc' = [loc EXCEPT ![p] = NoLocal]
      BY <2>1 DEF Start, Stop, Kill, LoadFails, DeniedCapability, Ended, Forgotten
    <3>2. QED
      BY <3>1 DEF NoLocal
  <2>2. CASE PassOver(p) \/ Register(p) \/ Store(p) \/ Fill(p) \/ \E subjects, then : Collect(p, subjects, then)
    <3>1. CASE Store(p) \/ Fill(p)
      BY <3>1 DEF Store, Fill
    <3>2. CASE PassOver(p) \/ Register(p)
      <4>1. \E todo, item, then : loc' = [loc EXCEPT ![p] = Collecting(todo, item, then)]
        BY <3>2 DEF PassOver, Register
      <4>2. QED
        BY <4>1 DEF Collecting
    <3>3. CASE \E subjects, then : Collect(p, subjects, then)
      BY <3>3 DEF Collect, Collecting
    <3>4. QED
      BY <2>2, <3>1, <3>2, <3>3
  <2>3. CASE Scan(p) \/ LoadEvidence(p) \/ Persist(p) \/ SaveBaseline(p)
    BY <2>3 DEF Scan, LoadEvidence, Persist, SaveBaseline, Scanning, NoLocal
  <2>4. CASE Check(p) \/ IntegrityCheck(p) \/ AttackPaths(p) \/ CiemAnalyze(p)
    BY <2>4 DEF Check, IntegrityCheck, AttackPaths, CiemAnalyze
  <2>5. QED
    BY <2>1, <2>2, <2>3, <2>4
<1>2. CASE loc' = loc
  BY <1>2
<1>3. CASE \E todo, item, then, plan, evidence : loc' = [loc EXCEPT ![p] = Local(todo, item, then, plan, evidence, {})]
  BY <1>3 DEF Shape, Local
<1>4. QED
  BY <1>1, <1>2, <1>3

LEMMA StepShowsNew ==
  ASSUME Shape, [Next]_vars
  PROVE  NewAreShown
<1>1. CASE UNCHANGED vars \/ \E s \in Subjects : Change(s)
  BY <1>1 DEF Change, vars, workdir, NewAreShown
<1>2. ASSUME NEW p \in Procs, Start(p) \/ Kill(p) \/ Continue(p) \/ Tick(p) \/ Command(p)
      PROVE  NewAreShown
  <2>1. CASE RunCapability(p)
    <3> DEFINE new == FoundBy(Head(loc[p].plan), loc[p].evidence)
    <3>1. findings' = findings /\ loc' = [loc EXCEPT ![p] = Scanning(Tail(@.plan), @.evidence, @.found \cup new)]
      BY <2>1 DEF RunCapability, workdir
    <3>2. \A f \in new : IsShown(f)'
      BY <3>1, CapabilityIsShown, ShownStays
    <3> HIDE DEF new
    <3>3. \A q \in Procs : \A f \in loc'[q].found : f \in loc[q].found \/ f \in new
      BY <3>1 DEF Shape, Local, Scanning
    <3>4. QED
      BY <3>1, <3>2, <3>3 DEF NewAreShown
  <2>2. CASE \E hosts : Pentest(p, hosts)
    <3>1. PICK hosts : Pentest(p, hosts)
      BY <2>2
    <3> DEFINE transcript == Item("pentest", "pentest", UNION {{Lines(h, spot) : spot \in world[h]} : h \in hosts})
               found == UNION {UNION {{Finding("pentest", i.rule, i.severity, h, {transcript}) : i \in Probed(spot)} :
                                        spot \in world[h]} : h \in hosts}
    <3>2. /\ hosts \in SUBSET Scope /\ findings' = findings
          /\ loc' = [loc EXCEPT ![p] = Local({}, transcript, "analyse", <<>>, {}, found)]
      BY <3>1 DEF Pentest, workdir
    <3>3. \A f \in found : IsShown(f)
      <4> SUFFICES ASSUME NEW f \in found
                   PROVE  IsShown(f)
        OBVIOUS
      <4> DEFINE at(h, spot) == {Finding("pentest", i.rule, i.severity, h, {transcript}) : i \in Probed(spot)}
                 on(h) == UNION {at(h, spot) : spot \in world[h]}
      <4>0. found = UNION {on(h) : h \in hosts}
        OBVIOUS
      <4> HIDE DEF found, on
      <4>1. PICK h \in hosts : f \in on(h)
        BY <4>0
      <4> USE DEF on
      <4> HIDE DEF at
      <4>2. PICK spot \in world[h] : f \in at(h, spot)
        BY <4>1
      <4> USE DEF at
      <4> HIDE DEF transcript
      <4>3. PICK i \in Probed(spot) : f = Finding("pentest", i.rule, i.severity, h, {transcript})
        BY <4>2
      <4> USE DEF transcript
      <4>4. QED
        BY <3>2, <4>3, ProbeIsShown
    <3>4. \A f \in found : IsShown(f)'
      BY <3>2, <3>3, ShownStays
    <3> HIDE DEF found, transcript
    <3>5. \A q \in Procs : \A f \in loc'[q].found : f \in loc[q].found \/ f \in found
      BY <3>2 DEF Shape, Local
    <3>6. QED
      BY <3>2, <3>4, <3>5 DEF NewAreShown
  <2>3. CASE Persist(p) \/ IntegrityCheck(p) \/ AttackPaths(p) \/ CiemAnalyze(p)
    <3>1. findings \subseteq findings'
      BY StepAccounted DEF Accounted
    <3>2. \A q \in Procs : loc'[q].found \subseteq loc[q].found
      BY <2>3, QuietHands
    <3>3. \A f \in findings' : f \in findings \/ IsShown(f) \/ f \in loc[p].found
      <4>1. CASE Persist(p)
        BY <4>1 DEF Persist
      <4>2. CASE IntegrityCheck(p)
        <5>1. \A f \in Tampering(base[p]) : f.capability = "fim"
          BY DEF Tampering, Finding
        <5>2. QED
          BY <4>2, <5>1 DEF IntegrityCheck, IsShown
      <4>3. CASE AttackPaths(p)
        BY <4>3, PathIsShown DEF AttackPaths
      <4>4. CASE CiemAnalyze(p)
        <5>1. PICK c \in Concentrations(known[p] \cap stored) :
                findings' = findings \cup Entitlements(Admins(known[p] \cap stored)) \cup c
          BY <4>4 DEF CiemAnalyze
        <5>2. QED
          BY <5>1, EntitlementIsShown
      <4>5. QED
        BY <2>3, <4>1, <4>2, <4>3, <4>4
    <3>4. QED
      BY <3>1, <3>2, <3>3, ShownStays DEF NewAreShown
  <2>4. CASE \/ Start(p) \/ Stop(p) \/ Kill(p) \/ LoadFails(p) \/ DeniedCapability(p)
             \/ PassOver(p) \/ Register(p) \/ Store(p) \/ Fill(p) \/ (\E subjects, then : Collect(p, subjects, then))
             \/ Scan(p) \/ LoadEvidence(p) \/ SaveBaseline(p) \/ Check(p)
    <3>1. findings' = findings
      BY <2>4 DEF Start, Stop, Kill, LoadFails, DeniedCapability, Ended, PassOver, Register, Store, Fill, Collect,
                  Scan, LoadEvidence, SaveBaseline, Check, workdir
    <3>2. \A q \in Procs : loc'[q].found \subseteq loc[q].found
      BY <2>4, QuietHands
    <3>3. QED
      BY <3>1, <3>2 DEF NewAreShown
  <2>5. QED
    BY <1>2, <2>1, <2>2, <2>3, <2>4 DEF Continue, Tick, Command, Discover, BaselineFiles
<1>3. QED
  BY <1>1, <1>2 DEF Next, Procs

\* Whatever was killed, collected or scanned at the same time: the evidence of a
\* finding is on record, can be read, and shows what the finding says.
THEOREM FindingsTraceable == Spec => []FindingsAreShown
<1>1. Init => Shape /\ Evidence /\ AllShown
  <2>1. Init => Shape
    BY DEF Init, Shape, Holds, Local, NoLocal
  <2>2. Init => Evidence
    BY EvidenceInit
  <2>3. Init => AllShown
    BY DEF Init, AllShown, Local, NoLocal
  <2>4. QED
    BY <2>1, <2>2, <2>3
<1>2. Shape /\ Evidence /\ AllShown /\ [Next]_vars => Shape' /\ Evidence' /\ AllShown'
  <2> SUFFICES ASSUME Shape, Evidence, AllShown, [Next]_vars
               PROVE  Shape' /\ Evidence' /\ AllShown'
    OBVIOUS
  <2>1. Shape' /\ Evidence' /\ NewAreShown /\ findings \subseteq findings'
    BY StepAccounted, StepKeepsEvidence, StepShowsNew DEF Accounted
  <2>2. \A f : IsShown(f) => IsShown(f)'
    BY <2>1, ShownStays
  <2>3. AllShown'
    BY <2>1, <2>2 DEF AllShown, NewAreShown
  <2>4. QED
    BY <2>1, <2>3
<1>3. Evidence /\ AllShown => FindingsAreShown
  BY DEF Evidence, OnFile, AllShown, FindingsAreShown
<1>4. QED
  BY <1>1, <1>2, <1>3, PTL DEF Spec

-----------------------------------------------------------------------------
(* Types.                                                                  *)

\* What a process that collects or stores goes on to is a place in the code.
Onward == \A p \in Procs : pc[p] \in {"collect", "store", "fill"} => loc[p].then \in Stages

LEMMA CopiesTyped ==
  ASSUME Shape, TypeOK, [Next]_vars
  PROVE  (\A c \in Copies : known[c] \subseteq known["workdir"] /\ missing[c] \subseteq Procs \cup {"lost"})'
<1>1. CASE UNCHANGED <<known, missing>>
  BY <1>1 DEF TypeOK
<1>2. ASSUME NEW p \in Procs, Start(p)
      PROVE  \A c \in Copies : known'[c] \subseteq known'["workdir"] /\ missing'[c] \subseteq Procs \cup {"lost"}
  <2>1. "workdir" # p /\ "workdir" \in Copies
    BY FindingsAssumption DEF Copies
  <2>2. /\ \A c \in Copies : known'[c] \in {known[c], known["workdir"]}
        /\ known'["workdir"] = known["workdir"]
        /\ \A c \in Copies : missing'[c] \in {missing[c], missing["workdir"]}
    BY <1>2, <2>1 DEF Start
  <2>3. QED
    BY <2>1, <2>2 DEF TypeOK
<1>3. ASSUME NEW p \in Procs, Kill(p) \/ Ended(p)
      PROVE  \A c \in Copies : known'[c] \subseteq known'["workdir"] /\ missing'[c] \subseteq Procs \cup {"lost"}
  <2>1. "workdir" # p
    BY FindingsAssumption
  <2>2. \A c \in Copies : known'[c] \subseteq known'["workdir"]
    <3>1. CASE known' = [known EXCEPT ![p] = {}]
      BY <2>1, <3>1 DEF Copies, TypeOK
    <3>2. CASE \E scrap : CutShort(p, scrap)
      <4>1. PICK scrap : CutShort(p, scrap)
        BY <3>2
      <4>2. \A c \in Copies : known'[c] =
              IF c = p THEN {} ELSE IF loc[p].item \in known[c] THEN known[c] \cup {scrap} ELSE known[c]
        BY <4>1 DEF CutShort
      <4>3. QED
        BY <2>1, <4>2 DEF TypeOK, Copies
    <3>3. QED
      BY <1>3, <3>1, <3>2 DEF Kill, Ended
  <2>3. \A c \in Copies : missing'[c] \subseteq missing[c] \cup {"lost"}
    <3>1. CASE Kill(p)
      BY <3>1 DEF Kill
    <3>2. CASE Ended(p)
      BY <3>2 DEF Ended
    <3>3. QED
      BY <1>3, <3>1, <3>2
  <2>4. QED
    BY <2>2, <2>3 DEF TypeOK
<1>4. ASSUME NEW p \in Procs, NEW item, Recorded(p, item)
      PROVE  \A c \in Copies : known'[c] \subseteq known'["workdir"] /\ missing'[c] \subseteq Procs \cup {"lost"}
  <2>1. /\ \A c \in Copies : known'[c] \in {known[c], known[c] \cup {item}}
        /\ known'["workdir"] = known["workdir"] \cup {item}
        /\ \A c \in Copies : missing'[c] \in {missing[c], missing[c] \cup {p}}
    BY <1>4 DEF Recorded, Copies
  <2>2. QED
    BY <2>1 DEF TypeOK
<1>5. ASSUME NEW p \in Procs, Store(p)
      PROVE  \A c \in Copies : known'[c] \subseteq known'["workdir"] /\ missing'[c] \subseteq Procs \cup {"lost"}
  BY <1>5 DEF Store, TypeOK
<1>6. UNCHANGED <<known, missing>>
        \/ \E p \in Procs : Start(p) \/ Kill(p) \/ Ended(p) \/ Store(p) \/ \E item : Recorded(p, item)
  <2>1. CASE UNCHANGED vars \/ \E s \in Subjects : Change(s)
    BY <2>1 DEF Change, vars, copies
  <2>2. ASSUME NEW p \in Procs, Start(p) \/ Kill(p) \/ Continue(p) \/ Tick(p) \/ Command(p)
        PROVE  UNCHANGED <<known, missing>>
                 \/ Start(p) \/ Kill(p) \/ Ended(p) \/ Store(p) \/ \E item : Recorded(p, item)
    <3>1. CASE Tick(p) \/ Command(p)
      BY <3>1 DEF Tick, Command, Discover, BaselineFiles, Collect, Scan, Check, AttackPaths, CiemAnalyze,
                  Pentest, Stop, copies
    <3>2. CASE Continue(p)
      BY <3>2 DEF Continue, PassOver, Register, Fill, LoadEvidence, LoadFails, RunCapability, DeniedCapability,
                  Persist, SaveBaseline, IntegrityCheck, copies
    <3>3. QED
      BY <2>2, <3>1, <3>2
  <2>3. QED
    BY <2>1, <2>2 DEF Next, Procs
<1>7. QED
  BY <1>1, <1>2, <1>3, <1>4, <1>5, <1>6

\* Where a step takes a process, and what it may still have to collect.
LEMMA WhereTyped ==
  ASSUME Shape, TypeOK, Onward, [Next]_vars
  PROVE  /\ pc' \in [Procs -> Stages] /\ Onward'
         /\ \A p \in Procs : loc'[p].todo \subseteq Subjects
<1>1. CASE UNCHANGED vars \/ \E s \in Subjects : Change(s)
  BY <1>1 DEF Change, vars, TypeOK, Onward
<1>2. ASSUME NEW p \in Procs, Start(p) \/ Kill(p) \/ Continue(p) \/ Tick(p) \/ Command(p)
      PROVE  /\ pc' \in [Procs -> Stages] /\ Onward'
             /\ \A q \in Procs : loc'[q].todo \subseteq Subjects
  <2>1. /\ \E s \in Stages : pc' = [pc EXCEPT ![p] = s]
        /\ loc' = loc \/ \E l : loc' = [loc EXCEPT ![p] = l]
        /\ loc'[p].todo \subseteq Subjects
        /\ pc'[p] \in {"collect", "store", "fill"} => loc'[p].then \in Stages
    <3>1. CASE Start(p)
      BY <3>1 DEF Start, Stages, TypeOK, Shape
    <3>2. CASE Kill(p) \/ Stop(p) \/ LoadFails(p) \/ DeniedCapability(p)
      <4>1. pc' = [pc EXCEPT ![p] = "down"] /\ loc' = [loc EXCEPT ![p] = NoLocal]
        BY <3>2 DEF Kill, Stop, LoadFails, DeniedCapability, Ended, Forgotten
      <4>2. QED
        BY <4>1 DEF NoLocal, Local, Stages, Shape
    <3>3. CASE PassOver(p)
      <4>1. /\ pc[p] = "collect" /\ \E s \in {"hash", "collect"} : pc' = [pc EXCEPT ![p] = s]
            /\ \E s \in loc[p].todo : loc' = [loc EXCEPT ![p] = Local(loc[p].todo \ {s}, NoItem, loc[p].then, <<>>, {}, {})]
        BY <3>3 DEF PassOver, Collecting, Shape
      <4>2. loc'[p].todo \subseteq loc[p].todo /\ loc'[p].then = loc[p].then
        BY <4>1 DEF Local, Shape
      <4>3. QED
        BY <4>1, <4>2 DEF Onward, Stages, TypeOK
    <3>4. CASE Register(p)
      <4>1. /\ pc[p] = "collect" /\ pc' = [pc EXCEPT ![p] = "store"]
            /\ \E s, item : loc' = [loc EXCEPT ![p] = Local(loc[p].todo \ {s}, item, loc[p].then, <<>>, {}, {})]
        BY <3>4 DEF Register, Collecting, Shape
      <4>2. loc'[p].todo \subseteq loc[p].todo /\ loc'[p].then = loc[p].then
        BY <4>1 DEF Local, Shape
      <4>3. QED
        BY <4>1, <4>2 DEF Onward, Stages, TypeOK
    <3>5. CASE Store(p) \/ Fill(p)
      <4>1. /\ loc' = loc /\ pc[p] \in {"store", "fill"}
            /\ pc' = [pc EXCEPT ![p] = "fill"] \/ pc' = [pc EXCEPT ![p] = loc[p].then]
                 \/ pc' = [pc EXCEPT ![p] = "collect"]
        BY <3>5 DEF Store, Fill
      <4>2. QED
        BY <4>1 DEF Onward, Stages, TypeOK, Shape
    <3>6. CASE \E subjects \in SUBSET Subjects, then \in {"scan", "done", "hash"} : Collect(p, subjects, then)
      <4>1. PICK subjects \in SUBSET Subjects, then \in {"scan", "done", "hash"} : Collect(p, subjects, then)
        BY <3>6
      <4>2. pc' = [pc EXCEPT ![p] = "collect"] /\ loc' = [loc EXCEPT ![p] = Local(subjects, NoItem, then, <<>>, {}, {})]
        BY <4>1 DEF Collect, Collecting
      <4>3. loc'[p].todo = subjects /\ loc'[p].then = then
        BY <4>2 DEF Local, Shape
      <4>4. QED
        BY <4>2, <4>3 DEF Stages
    <3>7. CASE \E hosts : Pentest(p, hosts)
      <4>1. /\ pc' = [pc EXCEPT ![p] = "store"]
            /\ \E item, found : loc' = [loc EXCEPT ![p] = Local({}, item, "analyse", <<>>, {}, found)]
        BY <3>7 DEF Pentest
      <4>2. loc'[p].todo = {} /\ loc'[p].then = "analyse"
        BY <4>1 DEF Local, Shape
      <4>3. QED
        BY <4>1, <4>2 DEF Stages
    <3>8. CASE Scan(p) \/ Check(p) \/ IntegrityCheck(p) \/ AttackPaths(p) \/ CiemAnalyze(p)
      <4>1. loc' = loc /\ \E s \in {"scan", "check", "idle", "done"} : pc' = [pc EXCEPT ![p] = s]
        BY <3>8 DEF Scan, Check, IntegrityCheck, AttackPaths, CiemAnalyze, Rest
      <4>2. QED
        BY <4>1 DEF Stages, TypeOK, Shape
    <3>9. CASE LoadEvidence(p) \/ RunCapability(p) \/ Persist(p) \/ SaveBaseline(p)
      <4>1. \E s \in {"analyse", "check", "idle", "done"} : pc' = [pc EXCEPT ![p] = s]
        BY <3>9 DEF LoadEvidence, RunCapability, Persist, SaveBaseline, Rest, Shape, TypeOK
      <4>2. loc'[p].todo = {} /\ \E l : loc' = [loc EXCEPT ![p] = l]
        BY <3>9 DEF LoadEvidence, RunCapability, Persist, SaveBaseline, Scanning, NoLocal, Local, Shape
      <4>3. QED
        BY <4>1, <4>2 DEF Stages, Shape
    <3>10. QED
      <4>1. \A kinds : Of(kinds) \subseteq Subjects
        BY DEF Of
      <4>2. QED
        BY <1>2, <3>1, <3>2, <3>3, <3>4, <3>5, <3>6, <3>7, <3>8, <3>9, <4>1
           DEF Continue, Tick, Command, Discover, BaselineFiles
  <2>2. pc' \in [Procs -> Stages]
    BY <2>1 DEF TypeOK
  <2>3. \A q \in Procs \ {p} : pc'[q] = pc[q] /\ loc'[q] = loc[q]
    BY <2>1 DEF Shape
  <2>4. QED
    BY <2>1, <2>2, <2>3 DEF Onward, TypeOK
<1>3. QED
  BY <1>1, <1>2 DEF Next, Procs

LEMMA TornTyped ==
  ASSUME TypeOK, [Next]_vars
  PROVE  torn' \in BOOLEAN
<1>1. CASE UNCHANGED vars \/ \E s \in Subjects : Change(s)
  BY <1>1 DEF Change, vars, workdir, TypeOK
<1>2. ASSUME NEW p \in Procs, Start(p) \/ Kill(p) \/ Continue(p) \/ Tick(p) \/ Command(p)
      PROVE  torn' \in BOOLEAN
  <2>1. CASE Start(p) \/ Kill(p)
    BY <2>1 DEF Start, Kill, workdir, TypeOK
  <2>2. CASE Tick(p) \/ Command(p)
    BY <2>2 DEF Tick, Command, Discover, BaselineFiles, Collect, Scan, Check, AttackPaths, CiemAnalyze,
                Pentest, Stop, Ended, workdir, TypeOK
  <2>3. CASE Continue(p)
    BY <2>3 DEF Continue, PassOver, Register, Store, Fill, LoadEvidence, LoadFails, RunCapability,
                DeniedCapability, Ended, Persist, SaveBaseline, IntegrityCheck, workdir, TypeOK
  <2>4. QED
    BY <1>2, <2>1, <2>2, <2>3
<1>3. QED
  BY <1>1, <1>2 DEF Next, Procs

\* Nobody knows of evidence that is not on record, and whoever owes a record
\* its content is a process, or one that was killed.
THEOREM FindingsTyped == Spec => []TypeOK
<1>1. Init => Shape /\ TypeOK /\ Onward
  <2>1. Init => Shape
    BY DEF Init, Shape, Holds, Local, NoLocal
  <2>2. Init => TypeOK /\ Onward
    <3>1. ASSUME Init
          PROVE  /\ \A c \in Copies : known[c] \subseteq known["workdir"] /\ missing[c] \subseteq Procs \cup {"lost"}
                 /\ \A p \in Procs : pc[p] = "down" /\ loc[p].todo = {}
      BY <3>1 DEF Init, Copies, Local, NoLocal
    <3>2. ASSUME Init
          PROVE  pc \in [Procs -> Stages] /\ torn \in BOOLEAN
      BY <3>2 DEF Init, Stages
    <3>3. QED
      BY <3>1, <3>2 DEF TypeOK, Onward
  <2>3. QED
    BY <2>1, <2>2
<1>2. Shape /\ TypeOK /\ Onward /\ [Next]_vars => Shape' /\ TypeOK' /\ Onward'
  <2> SUFFICES ASSUME Shape, TypeOK, Onward, [Next]_vars
               PROVE  Shape' /\ TypeOK' /\ Onward'
    OBVIOUS
  <2>1. Shape'
    BY StepAccounted
  <2>2. TypeOK' /\ Onward'
    BY CopiesTyped, WhereTyped, TornTyped DEF TypeOK
  <2>3. QED
    BY <2>1, <2>2
<1>3. QED
  BY <1>1, <1>2, PTL DEF Spec
=============================================================================
