------------------------------ MODULE Findings ------------------------------
(* From what is on the machine to findings.jsonl: snapshots and inventory  *)
(* become evidence (provenance.py), scans, the integrity monitor, attack   *)
(* paths, entitlement analysis and penetration tests turn it into findings *)
(* (engine.py, integrity.py, attackpath.py, ciem.py, pentest.py).  A       *)
(* watcher repeats its tick for ever; humans start commands beside it.     *)
(*                                                                         *)
(* All snapshots of a subject with one content are one item of evidence:   *)
(* their numbers are not modelled, nor how often a finding was written.  A *)
(* content that a kill cut short is an item of its own: what can be read.  *)
(* A copy is a process's memory, or the workdir.                           *)
EXTENDS Capabilities

CONSTANTS
  Watchers, Humans,   \* processes
  Subjects,           \* what can be collected, and baselined files and hosts
  About,              \* a subject's kind and fact
  Contents,           \* the contents a subject may have
  Beginnings,         \* the worlds it may begin with
  TickPlan,           \* the capabilities a watcher runs
  ScanPlan,           \* those a human runs
  Remnants(_),        \* what may be read of an item whose content a kill cut short
  Denied,             \* the capabilities whose scan the policy denies
  Tests,              \* the lists of hosts a human has tested
  Scope,              \* policy pentest.scope
  MaxKills, MaxCommands, MaxChanges   \* bounds

Procs == Watchers \cup Humans

ASSUME FindingsAssumption ==
  /\ Watchers \cap Humans = {} /\ "workdir" \notin Procs /\ "lost" \notin Procs
  /\ \A w \in Beginnings : DOMAIN w = Subjects /\ \A s \in Subjects : w[s] \in Contents[s]
  /\ MaxKills \in Nat /\ MaxCommands \in Nat /\ MaxChanges \in Nat

VARIABLES
  world,      \* what each subject's content is now
  known,      \* per copy: the items with a provenance record
  missing,    \* per copy: whose record has no content file (yet), or a killed process's
  stored,     \* the items that can be read in evidence/
  findings,   \* findings.jsonl
  base,       \* per copy: the integrity baseline
  torn,       \* fim_baseline.json was cut short by a kill
  pc, loc,
  audited,    \* history: the findings the audit log counts
  cut,        \* history: those whose scan a kill or a denial ended
  kills, commands, changes

workdir == <<stored, findings, torn>>
copies == <<known, missing, base>>
history == <<audited, cut, kills, commands, changes>>
vars == <<world, workdir, copies, pc, loc, history>>

Copies == Procs \cup {"workdir"}

\* Local variables: the subjects to collect, the item at hand and what follows;
\* the capabilities to run, the evidence they get and the findings so far.
Local(todo, item, then, plan, evidence, found) ==
  [todo |-> todo, item |-> item, then |-> then, plan |-> plan, evidence |-> evidence, found |-> found]

Item(s, kind, content) == [subject |-> s, kind |-> kind, content |-> content]

NoItem == Item("none", "none", {})

NoLocal == Local({}, NoItem, "none", <<>>, {}, {})

Collecting(subjects, item, then) == Local(subjects, item, then, <<>>, {}, {})

Scanning(plan, evidence, found) == Local({}, NoItem, "none", plan, evidence, found)

Of(kinds) == {s \in Subjects : About[s].kind \in kinds}

Init ==
  /\ world \in Beginnings
  /\ known = [c \in Copies |-> {}] /\ missing = [c \in Copies |-> {}]
  /\ base = [c \in Copies |-> <<>>]
  /\ stored = {} /\ findings = {} /\ torn = FALSE
  /\ pc = [p \in Procs |-> "down"] /\ loc = [p \in Procs |-> NoLocal]
  /\ audited = {} /\ cut = {} /\ kills = 0 /\ commands = 0 /\ changes = 0

\* Somebody edits a file, starts a process, changes a resource.
Change(s) ==
  /\ changes < MaxChanges
  /\ \E c \in Contents[s] \ {world[s]} : world' = [world EXCEPT ![s] = c]
  /\ changes' = changes + 1
  /\ UNCHANGED <<workdir, copies, pc, loc, audited, cut, kills, commands>>

-----------------------------------------------------------------------------
\* SecurityAgent.__init__: a torn baseline raises.
Start(p) ==
  /\ pc[p] = "down" /\ ~torn
  /\ known' = [known EXCEPT ![p] = known["workdir"]]
  /\ missing' = [missing EXCEPT ![p] = missing["workdir"]]
  /\ base' = [base EXCEPT ![p] = base["workdir"]]
  /\ pc' = [pc EXCEPT ![p] = "idle"]
  /\ UNCHANGED <<world, workdir, loc, history>>

Forgotten(p) ==
  /\ base' = [base EXCEPT ![p] = <<>>]
  /\ pc' = [pc EXCEPT ![p] = "down"]
  /\ loc' = [loc EXCEPT ![p] = NoLocal]

\* A command is done, or raises; what its scan had found is lost with it.
Ended(p) ==
  /\ Forgotten(p)
  /\ known' = [known EXCEPT ![p] = {}]
  /\ missing' = [missing EXCEPT ![p] = {}]
  /\ cut' = cut \cup loc[p].found
  /\ UNCHANGED <<world, workdir, audited, kills, commands, changes>>

Stop(p) == p \in Humans /\ pc[p] \in {"idle", "done"} /\ Ended(p)

\* A watcher ticks again, a command is done.
Rest(p) == IF p \in Watchers THEN "idle" ELSE "done"

\* A human's command: none is given to a process beyond the bound.
Given(p) ==
  /\ pc[p] = "idle"
  /\ commands' = IF p \in Humans THEN commands + 1 ELSE commands
  /\ commands < MaxCommands \/ p \in Watchers
  /\ UNCHANGED <<audited, cut, kills, changes>>

\* Who knows of the item is taken to know of the record it was cut short for.
CutShort(p, scrap) ==
  /\ known' = [c \in Copies |->
       IF c = p THEN {} ELSE IF loc[p].item \in known[c] THEN known[c] \cup {scrap} ELSE known[c]]
  /\ stored' = stored \cup {scrap}

\* The record of a process killed before it created the content file stays.
Kill(p) ==
  /\ pc[p] # "down" /\ kills < MaxKills
  /\ Forgotten(p)
  /\ \/ pc[p] # "fill" /\ known' = [known EXCEPT ![p] = {}] /\ stored' = stored
     \/ pc[p] = "fill" /\ \E left \in Remnants(loc[p].item) : CutShort(p, [loc[p].item EXCEPT !.content = left])
  /\ missing' = [c \in Copies |->
       IF c = p THEN {}
       ELSE IF p \in missing[c] THEN (missing[c] \ {p}) \cup {"lost"} ELSE missing[c]]
  /\ cut' = cut \cup loc[p].found
  /\ torn' \in (IF pc[p] = "hash" THEN {torn, TRUE} ELSE {torn})
  /\ kills' = kills + 1
  /\ UNCHANGED <<world, findings, audited, commands, changes>>

-----------------------------------------------------------------------------
(* ProvenanceStore.register: the record, then the content, which           *)
(* write_text first creates empty: until it is filled, nothing is read.    *)

Recorded(p, item) ==
  /\ known' = [c \in Copies |-> IF c \in {p, "workdir"} THEN known[c] \cup {item} ELSE known[c]]
  /\ missing' = [missing EXCEPT !["workdir"] = @ \cup {p}]

\* A file to baseline that cannot be read, with content {}, is passed over.
Unreadable(p, s) == loc[p].then = "hash" /\ world[s] = {}

PassOver(p) ==
  /\ pc[p] = "collect"
  /\ \E s \in loc[p].todo :
       /\ Unreadable(p, s)
       /\ loc' = [loc EXCEPT ![p] = Collecting(@.todo \ {s}, NoItem, @.then)]
       /\ pc' = [pc EXCEPT ![p] = IF loc[p].todo = {s} THEN "hash" ELSE "collect"]
  /\ UNCHANGED <<world, workdir, copies, history>>

\* Each subject's state is read when its turn comes.
Register(p) ==
  /\ pc[p] = "collect"
  /\ \E s \in {t \in loc[p].todo : ~Unreadable(p, t)} :
       LET kind == IF loc[p].then = "hash" THEN "baseline" ELSE About[s].kind
           item == Item(s, kind, world[s])
       IN  /\ Recorded(p, item)
           /\ loc' = [loc EXCEPT ![p] = Collecting(@.todo \ {s}, item, @.then)]
  /\ pc' = [pc EXCEPT ![p] = "store"]
  /\ UNCHANGED <<world, workdir, base, history>>

Store(p) ==
  /\ pc[p] = "store"
  /\ missing' = [c \in Copies |-> missing[c] \ {p}]
  /\ pc' = [pc EXCEPT ![p] = "fill"]
  /\ UNCHANGED <<world, workdir, known, base, loc, history>>

Fill(p) ==
  /\ pc[p] = "fill"
  /\ stored' = stored \cup {loc[p].item}
  /\ pc' = [pc EXCEPT ![p] = IF loc[p].todo = {} THEN loc[p].then ELSE "collect"]
  /\ UNCHANGED <<world, findings, torn, copies, loc, history>>

\* ingest, discover_cloud, discover_identity, monitor_tick, integrity_baseline
\* begin by collecting.
Collect(p, subjects, then) ==
  /\ Given(p) /\ subjects # {}
  /\ loc' = [loc EXCEPT ![p] = Collecting(subjects, NoItem, then)]
  /\ pc' = [pc EXCEPT ![p] = "collect"]
  /\ UNCHANGED <<world, workdir, copies>>

\* mutant: what has been collected once is not collected again.
TickOnce(p) ==
  Collect(p, {s \in Of({"host-fact", "runtime-fact"}) : \A e \in known[p] : e.subject # s}, "scan")

Tick(p) == Collect(p, Of({"host-fact", "runtime-fact"}), "scan")

Discover(p) == Collect(p, Of({"cloud-asset", "identity-account"}), "done")

BaselineFiles(p) == Collect(p, Of({"file"}), "hash")

-----------------------------------------------------------------------------
(* scan: all evidence is loaded, each capability run and audited, and only *)
(* then are the findings written.                                          *)

Scan(p) ==
  /\ Given(p)
  /\ pc' = [pc EXCEPT ![p] = "scan"]
  /\ UNCHANGED <<world, workdir, copies, loc>>

PlanOf(p) == IF p \in Watchers THEN TickPlan ELSE ScanPlan

\* mutant: evidence is analysed as it was collected, its content written or not.
LoadCollected(p) ==
  /\ pc[p] = "scan"
  /\ loc' = [loc EXCEPT ![p] = Scanning(PlanOf(p), known[p], {})]
  /\ pc' = [pc EXCEPT ![p] = "analyse"]
  /\ UNCHANGED <<world, workdir, copies, history>>

\* The digest of the record is not compared with what is read.
LoadEvidence(p) ==
  /\ pc[p] = "scan" /\ missing[p] = {}
  /\ loc' = [loc EXCEPT ![p] = Scanning(PlanOf(p), known[p] \cap stored, {})]
  /\ pc' = [pc EXCEPT ![p] = "analyse"]
  /\ UNCHANGED <<world, workdir, copies, history>>

\* load_evidence raises for a record without content; nothing catches it.
LoadFails(p) == pc[p] = "scan" /\ missing[p] # {} /\ Ended(p)

\* The controls of a finding follow from its rule and are left out here.
Finding(capability, rule, severity, subject, cites) ==
  [capability |-> capability, rule |-> rule, severity |-> severity, subject |-> subject, cites |-> cites]

IssuesOf(capability, item) == Analyse(capability, item.kind, About[item.subject].fact, item.content)

FoundBy(capability, evidence) ==
  UNION {{Finding(capability, i.rule, i.severity, e.subject, {e}) : i \in IssuesOf(capability, e)} : e \in evidence}

RunCapability(p) ==
  /\ pc[p] = "analyse" /\ loc[p].plan # <<>>
  /\ Head(loc[p].plan) \notin Denied
  /\ LET found == FoundBy(Head(loc[p].plan), loc[p].evidence) IN
     /\ loc' = [loc EXCEPT ![p] = Scanning(Tail(@.plan), @.evidence, @.found \cup found)]
     /\ audited' = audited \cup found
  /\ UNCHANGED <<world, workdir, copies, pc, cut, kills, commands, changes>>

\* _enforce raises in the middle of the scan.
DeniedCapability(p) ==
  /\ pc[p] = "analyse" /\ loc[p].plan # <<>>
  /\ Head(loc[p].plan) \in Denied
  /\ Ended(p)

\* mutant: a scan that found nothing critical is not written.
PersistCritical(p) ==
  /\ pc[p] = "analyse" /\ loc[p].plan = <<>>
  /\ findings' = findings \cup {f \in loc[p].found : f.severity = Critical}
  /\ pc' = [pc EXCEPT ![p] = IF p \in Watchers THEN "check" ELSE "done"]
  /\ loc' = [loc EXCEPT ![p] = NoLocal]
  /\ UNCHANGED <<world, stored, torn, copies, history>>

\* _persist_findings; a watcher goes on to the integrity check.
Persist(p) ==
  /\ pc[p] = "analyse" /\ loc[p].plan = <<>>
  /\ findings' = findings \cup loc[p].found
  /\ pc' = [pc EXCEPT ![p] = IF p \in Watchers THEN "check" ELSE "done"]
  /\ loc' = [loc EXCEPT ![p] = NoLocal]
  /\ UNCHANGED <<world, stored, torn, copies, history>>

-----------------------------------------------------------------------------
(* integrity.py                                                            *)

\* IntegrityMonitor.baseline reads the files again, after they were registered;
\* a file that cannot be read keeps its entry.
SaveBaseline(p) ==
  /\ pc[p] = "hash"
  /\ LET readable == {f \in Of({"file"}) : world[f] # {}}
         new == [f \in DOMAIN base[p] \cup readable |-> IF f \in readable THEN world[f] ELSE base[p][f]]
     IN  base' = [c \in Copies |-> IF c \in {p, "workdir"} THEN new ELSE base[c]]
  /\ torn' = FALSE
  /\ pc' = [pc EXCEPT ![p] = Rest(p)]
  /\ loc' = [loc EXCEPT ![p] = NoLocal]
  /\ UNCHANGED <<world, stored, findings, known, missing, history>>

\* IntegrityMonitor.check; it cites no evidence.
Tampering(baseline) ==
  {Finding("fim", IF world[f] = {} THEN "removed" ELSE "modified", High, f, {}) :
     f \in {g \in DOMAIN baseline : world[g] # baseline[g]}}

Check(p) ==
  /\ Given(p)
  /\ pc' = [pc EXCEPT ![p] = "check"]
  /\ UNCHANGED <<world, workdir, copies, loc>>

IntegrityCheck(p) ==
  /\ pc[p] = "check"
  /\ findings' = findings \cup Tampering(base[p])
  /\ pc' = [pc EXCEPT ![p] = Rest(p)]
  /\ UNCHANGED <<world, stored, torn, copies, loc, history>>

-----------------------------------------------------------------------------
(* attackpath.py: rules that are harmless alone and a path together.       *)

ExposureRules ==
  {"cloud-s3-public", "cloud-rds-public", "cloud-sg-open-sensitive", "cloud-sg-open-all",
   "tf-open-ingress", "tf-public-bucket", "k8s-host-network",
   "exposed-service-redis", "exposed-service-mysql", "exposed-service-postgresql",
   "exposed-service-mongodb", "exposed-service-elasticsearch", "exposed-service-telnet",
   "exposed-service-docker-api"}

PrivilegeRules ==
  {"cloud-iam-admin", "cloud-iam-no-mfa", "ciem-admin-no-mfa", "ciem-privileged-svc",
   "identity-no-mfa", "account-uid0-nonroot"}

DataRules == {"cloud-s3-unencrypted", "cloud-rds-unencrypted", "tf-unencrypted-storage"}

With(rules) == {f \in findings : f.rule \in rules}

\* A path cites what its members cite; that at most five of each are members is
\* not modelled.
Path(severity, members) ==
  Finding("attackpath", "attack-path", severity, "all", UNION {f.cites : f \in members})

Paths ==
  LET exposure == With(ExposureRules) IN
  {Path(Critical, exposure \cup m) : m \in {With(PrivilegeRules)} \ {{}}}
    \cup {Path(High, exposure \cup m) : m \in {With(DataRules)} \ {{}}}

AttackPaths(p) ==
  /\ Given(p)
  /\ With(ExposureRules) # {}
  /\ findings' = findings \cup Paths
  /\ pc' = [pc EXCEPT ![p] = Rest(p)]
  /\ UNCHANGED <<world, stored, torn, copies, loc>>

-----------------------------------------------------------------------------
(* ciem.py: identities are accounts and cloud users; every snapshot of one *)
(* counts, so any number of them may be on file, of any proportion.        *)

Identities(evidence) ==
  {e \in evidence : e.kind = "identity-account"
                    \/ (e.kind = "cloud-asset" /\ About[e.subject].fact \in {"user", "service_account"})}

Admins(evidence) == {e \in Identities(evidence) : {"admin", "cloud-iam-admin"} \cap UNION e.content # {}}

Shows(e, condition) == condition \in UNION e.content

Entitlements(admins) ==
  {Finding("ciem", "ciem-admin-no-mfa", High, e.subject, {e}) :
     e \in {x \in admins : ({"identity-no-mfa", "cloud-iam-no-mfa"} \cap UNION x.content # {}) /\ ~Shows(x, "service")}}
  \cup {Finding("ciem", "ciem-privileged-svc", High, e.subject, {e}) : e \in {x \in admins : Shows(x, "service")}}

\* Where all identities are administrators, that is more than 40 %.
Concentrations(evidence) ==
  LET admins == Admins(evidence)
      severities == IF admins = Identities(evidence) THEN {High} ELSE {High, Medium}
  IN  {{}} \cup {{Finding("ciem", "ciem-admin-concentration", s, "all", admins)} :
                   s \in IF admins = {} THEN {} ELSE severities}

CiemAnalyze(p) ==
  /\ Given(p) /\ missing[p] = {}
  /\ LET evidence == known[p] \cap stored IN
     \E concentration \in Concentrations(evidence) :
       findings' = findings \cup Entitlements(Admins(evidence)) \cup concentration
  /\ pc' = [pc EXCEPT ![p] = Rest(p)]
  /\ UNCHANGED <<world, stored, torn, copies, loc>>

-----------------------------------------------------------------------------
(* pentest: the whole list is checked before the first probe; the          *)
(* transcript becomes evidence, which all findings cite.                   *)

PentestControls == {"NIST:CA-8", "NIST:RA-5", "OWASP:A05"}

ReachableTable ==
  Issues(Critical, PentestControls \cup {"NIST:SC-7"}, {"docker-api"})
    \cup Issues(High, PentestControls \cup {"NIST:SC-7"},
           {"telnet", "mysql", "postgresql", "redis", "elasticsearch", "mongodb", "etcd", "memcached"})
    \cup Issues(Medium, PentestControls \cup {"NIST:SC-7"}, {"ftp"})

HeaderRules == {"missing-headers", "server-version"}

WebTable ==
  Issues(Low, PentestControls, HeaderRules)
    \cup Issues(Critical, PentestControls \cup {"OWASP:A01"}, {".env", ".aws"})
    \cup Issues(High, PentestControls \cup {"OWASP:A01"}, {".git", "actuator"})
    \cup Issues(Medium, PentestControls \cup {"OWASP:A01"}, {"server-status", "phpinfo", ".svn"})

TlsTable == Issues(Medium, {"NIST:CA-8", "NIST:RA-5", "OWASP:A02", "ISO27001:A.8.24"}, {"weak-tls"})

\* A spot is an open port; what is asked over HTTP needs an answer ("http").
Probed(spot) == Met(spot, ReachableTable \cup TlsTable \cup (IF "http" \in spot THEN WebTable ELSE {}))

\* A port's lines: open, HTTP status, paths and TLS; no header, no banner.
Lines(h, spot) == {h} \cup (spot \ HeaderRules)

Pentest(p, hosts) ==
  /\ Given(p) /\ hosts \subseteq Scope
  /\ LET transcript == Item("pentest", "pentest", UNION {{Lines(h, spot) : spot \in world[h]} : h \in hosts})
         found == UNION {UNION {{Finding("pentest", i.rule, i.severity, h, {transcript}) : i \in Probed(spot)} :
                                  spot \in world[h]} : h \in hosts}
     IN  /\ Recorded(p, transcript)
         /\ loc' = [loc EXCEPT ![p] = Local({}, transcript, "analyse", <<>>, {}, found)]
  /\ pc' = [pc EXCEPT ![p] = "store"]
  /\ UNCHANGED <<world, workdir, base>>

-----------------------------------------------------------------------------
\* What a process does on its own once it has begun.
Continue(p) ==
  \/ PassOver(p) \/ Register(p) \/ Store(p) \/ Fill(p)
  \/ LoadEvidence(p) \/ LoadFails(p)
  \/ RunCapability(p) \/ DeniedCapability(p) \/ Persist(p)
  \/ SaveBaseline(p) \/ IntegrityCheck(p)

Command(p) ==
  \/ Discover(p) \/ BaselineFiles(p) \/ Scan(p) \/ Check(p)
  \/ AttackPaths(p) \/ CiemAnalyze(p)
  \/ \E hosts \in Tests : Pentest(p, hosts)
  \/ Stop(p)

Next ==
  \/ \E s \in Subjects : Change(s)
  \/ \E p \in Procs : Start(p) \/ Kill(p) \/ Continue(p)
  \/ \E p \in Watchers : Tick(p)
  \/ \E p \in Humans : Command(p)

Spec == Init /\ [][Next]_vars

\* A live process goes on (the operating system runs it); a watcher is started
\* again (Restart=always) and ticks for ever (cmd_watch).
FairSpec ==
  /\ Spec
  /\ \A p \in Procs : WF_vars(Continue(p))
  /\ \A p \in Watchers : WF_vars(Start(p)) /\ WF_vars(Tick(p))

-----------------------------------------------------------------------------
Stages == {"down", "idle", "done", "collect", "store", "fill", "scan", "analyse", "check", "hash"}

TypeOK ==
  /\ pc \in [Procs -> Stages]
  /\ \A c \in Copies : known[c] \subseteq known["workdir"] /\ missing[c] \subseteq Procs \cup {"lost"}
  /\ \A p \in Procs : loc[p].todo \subseteq Subjects
  /\ torn \in BOOLEAN

\* The issue a finding reports is one that evidence e shows.
IsShownBy(f, e) == \E i \in IssuesOf(f.capability, e) : f = Finding(f.capability, i.rule, i.severity, e.subject, {e})

\* A line about the tested host shows the rule; of headers and the banner it only
\* shows that there was an answer to take them from.
IsTranscribed(f) ==
  \E e \in f.cites : \E line \in e.content :
    f.subject \in line /\ (f.rule \in line \/ (f.rule \in HeaderRules /\ "http" \in line))

\* What a finding says is so in the evidence it cites; for an attack path, of
\* both its ends.  The integrity monitor cites none.
IsShown(f) ==
  \/ f.capability = "fim"
  \/ /\ f.capability = "attackpath"
     /\ \E g, h \in findings :
          /\ g.rule \in ExposureRules /\ h.rule \in PrivilegeRules \cup DataRules
          /\ g.cites \cup h.cites \subseteq f.cites
  \/ /\ f.capability = "ciem" /\ f.cites # {}
     /\ \/ f \in Entitlements(Admins(f.cites))
        \/ f.rule = "ciem-admin-concentration" /\ f.cites = Admins(f.cites)
  \/ f.capability = "pentest" /\ f.subject \in Scope /\ IsTranscribed(f)
  \/ \E e \in f.cites : IsShownBy(f, e)

(* models.py: "A security finding, always traceable back to evidence", as  *)
(* far as that is so.  Whatever was killed, also while a content was being *)
(* written, and whatever was collected, changed or scanned at the same     *)
(* time: the evidence a finding cites is on record and can be read, and    *)
(* what can be read there shows what the finding says.  Two kinds of       *)
(* finding are not traceable in full: the integrity monitor's, which cite  *)
(* nothing, and those of a penetration test about headers and banners,     *)
(* which its transcript leaves out.                                        *)
FindingsAreShown ==
  \A f \in findings : f.cites \subseteq stored \cap known["workdir"] /\ IsShown(f)

(* What the audit log says a scan found is on file, or about to be written *)
(* by the process that found it, or its scan was cut off by a kill or by a *)
(* denied capability (scan writes nothing before all capabilities ran).    *)
AuditedReachFile == audited \subseteq findings \cup cut \cup UNION {loc[p].found : p \in Procs}

\* After a kill the workdir can be such that no scan, or no start, succeeds.
Damaged == torn \/ "lost" \in missing["workdir"]

\* What the ticks of watcher p look at, and what they are to report of it.
Visible(s, c) ==
  UNION {{[capability |-> TickPlan[n], rule |-> i.rule] :
            i \in Analyse(TickPlan[n], About[s].kind, About[s].fact, c)} : n \in DOMAIN TickPlan}

Reported(s, c) ==
  \A v \in Visible(s, c) : \E f \in findings : f.capability = v.capability /\ f.rule = v.rule /\ f.subject = s

(* A weakness that stays on a watched machine is reported in the end, and  *)
(* so is a baselined file that stays changed as long as the watcher keeps  *)
(* the baseline it has: through restarts, and beside humans who change     *)
(* baselines and scan, unless a kill damaged the workdir.                  *)
LastingWeaknessReported ==
  /\ \A s \in Of({"host-fact", "runtime-fact"}) : \A c \in {x \in Contents[s] : Visible(s, x) # {}} :
       (<>[](world[s] = c /\ ~Damaged)) => <>Reported(s, c)
  /\ \A p \in Watchers : \A s \in Of({"file"}) : \A c \in Contents[s] \ {{}} :
       (<>[](s \in DOMAIN base[p] /\ base[p][s] = c /\ world[s] # c /\ ~Damaged))
         => <>(\E f \in findings : f.capability = "fim" /\ f.subject = s)
=============================================================================
