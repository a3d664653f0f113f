------------------------------ MODULE Casebook ------------------------------
(* The SOC cycle over one work directory (engine.soc_detect, soc/soc.py,   *)
(* soc/casebook.py, soc/executors.py, notify/dispatcher.py): detection and *)
(* correlation file incidents, humans are told of them, triage and respond.*)
(* Every process reads alerts.json and incidents.json when it starts and   *)
(* rewrites them whole from its memory ever after.                         *)
(*                                                                         *)
(* An incident is named by the set of its entities, its severity is a rank *)
(* (0 critical .. 4 info).  A file is emptied and then filled: a kill      *)
(* between the two leaves nothing of what was in it.                       *)
EXTENDS Detection, Correlation, Sequences

CONSTANTS
  Procs,          \* processes of the agent
  Detectors,      \* those that run detection (`watch`, `soc detect`)
  Responders,     \* those a human starts and ends (`soc triage`, `soc respond`)
  Log,            \* the log: a sequence of chunks, each a set of events
  Feeds,          \* threat feeds, sets of known-bad values, to start with
  Executors,      \* policy response.executor may say "none", "command", "webhook"
  Templates,      \* the actions that have a command
  DomainAllowed,  \* the webhook's host is in the allowlist
  Malformed,      \* values that fail the validation patterns
  MinSeverity,    \* policy notify.min_severity
  Asked,          \* the response actions humans ask for
  Advice,         \* the priorities a reasoning provider may give
  MaxStarts, MaxKills, MaxActs   \* bounds

ContainmentActions == {"isolate_host", "disable_user", "block_ip"}

ResponseActions == ContainmentActions \cup {"notify", "review", "quarantine_file"}

ASSUME CasebookAssumption ==
  /\ IsFiniteSet(Procs) /\ Detectors \subseteq Procs /\ Responders \subseteq Procs
  /\ Len(Log) \in Nat /\ \A n \in 1..Len(Log) : IsFiniteSet(Log[n])
  /\ Asked \subseteq ResponseActions
  /\ Executors \subseteq {"none", "command", "webhook"}
  /\ MinSeverity \in Severities /\ Advice \subseteq 1..4
  /\ MaxStarts \in Nat /\ MaxKills \in Nat /\ MaxActs \in Nat

VARIABLES
  collected,     \* how much of the log is in the evidence store
  alerts,        \* soc/alerts.json: alert id -> severity
  incidents,     \* soc/incidents.json: entities -> incident
  notified,      \* notified_incidents.json
  torn,          \* those of the first two that a kill cut short
  responses,     \* soc/responses.jsonl
  memAlerts, memIncidents,   \* each process's copy
  feed,          \* the threat feed a detecting process started with
  pc, loc,       \* where each process is, and its local variables
  lastIncidents, \* history: the incidents as they were last saved whole
  behind,        \* history: processes whose incidents miss another's save
  offered,       \* history: how often each incident was handed to the dispatcher
  passed,        \* history: those below the threshold when looked at
  deeds,         \* history: response actions that changed another system
  starts, kills, acts

files == <<collected, alerts, incidents, notified, torn, responses>>
memory == <<memAlerts, memIncidents, feed, pc, loc>>
history == <<lastIncidents, behind, offered, passed, deeds, starts, kills, acts>>
vars == <<files, memory, history>>

Empty == <<>>

\* Local variables: the ids seen, the ids still to look at, the response at hand.
Telling(seen, todo) == [seen |-> seen, todo |-> todo, id |-> {}, action |-> "none", status |-> "none"]

Responding(i, action, status) == [seen |-> {}, todo |-> {}, id |-> i, action |-> action, status |-> status]

NoLocal == Telling({}, {})

Init ==
  /\ collected = 0 /\ alerts = Empty /\ incidents = Empty
  /\ notified = {} /\ torn = {} /\ responses = {}
  /\ memAlerts = [p \in Procs |-> Empty] /\ memIncidents = [p \in Procs |-> Empty]
  /\ feed = [p \in Procs |-> {}]
  /\ pc = [p \in Procs |-> "down"] /\ loc = [p \in Procs |-> NoLocal]
  /\ lastIncidents = Empty /\ behind = {} /\ offered = Empty /\ passed = {} /\ deeds = 0
  /\ starts = 0 /\ kills = 0 /\ acts = 0

Up(p) == pc[p] # "down"

\* The processes whose copies a save of the incidents by p leaves behind.
LeftBehind(p) == {q \in Procs \ {p} : Up(q)}

-----------------------------------------------------------------------------
\* A log grows; the ingestors register what is new.
Collect ==
  /\ collected < Len(Log)
  /\ collected' = collected + 1
  /\ UNCHANGED <<alerts, incidents, notified, torn, responses, memory, history>>

\* Casebook._load: a torn file raises, and the process does not come up.
Start(p) ==
  /\ ~Up(p)
  /\ p \in Responders => starts < MaxStarts
  /\ torn = {}
  /\ memAlerts' = [memAlerts EXCEPT ![p] = alerts]
  /\ memIncidents' = [memIncidents EXCEPT ![p] = incidents]
  /\ \E f \in (IF p \in Detectors THEN Feeds ELSE {{}}) : feed' = [feed EXCEPT ![p] = f]
  /\ pc' = [pc EXCEPT ![p] = "idle"]
  /\ loc' = [loc EXCEPT ![p] = NoLocal]
  /\ behind' = behind \ {p}
  /\ starts' = IF p \in Responders THEN starts + 1 ELSE starts
  /\ UNCHANGED <<files, lastIncidents, offered, passed, deeds, kills, acts>>

\* The process is gone, and its memory with it.
Ended(p) ==
  /\ memAlerts' = [memAlerts EXCEPT ![p] = Empty]
  /\ memIncidents' = [memIncidents EXCEPT ![p] = Empty]
  /\ feed' = [feed EXCEPT ![p] = {}]
  /\ pc' = [pc EXCEPT ![p] = "down"]
  /\ loc' = [loc EXCEPT ![p] = NoLocal]
  /\ behind' = behind \ {p}

Stop(p) ==
  /\ p \in Responders /\ pc[p] = "idle"
  /\ Ended(p)
  /\ UNCHANGED <<files, lastIncidents, offered, passed, deeds, starts, kills, acts>>

\* The files a process may be rewriting when the kill comes.
Writing(p) ==
  {f \in {"alerts", "incidents", "notified"} :
     \/ f = "alerts" /\ p \in Detectors /\ pc[p] = "idle"
     \/ f = "incidents" /\ pc[p] \in {"merge", "responded"}
     \/ f = "incidents" /\ p \in Responders /\ pc[p] = "idle"
     \/ f = "notified" /\ pc[p] = "notify" /\ loc[p].todo = {}}

\* A file emptied and not filled again.  Without the list of those told the
\* next run has told nobody; the other two cannot be loaded any more.
Emptied(f) ==
  /\ alerts' = IF f = "alerts" THEN Empty ELSE alerts
  /\ incidents' = IF f = "incidents" THEN Empty ELSE incidents
  /\ notified' = IF f = "notified" THEN {} ELSE notified
  /\ torn' = torn \cup ({f} \ {"notified"})

Kill(p) ==
  /\ Up(p) /\ kills < MaxKills
  /\ Ended(p)
  /\ \/ UNCHANGED <<alerts, incidents, notified, torn>>
     \/ \E f \in Writing(p) : Emptied(f)
  /\ kills' = kills + 1
  /\ UNCHANGED <<collected, responses, lastIncidents, offered, passed, deeds, starts, acts>>

-----------------------------------------------------------------------------
(* soc_detect: process_evidence, then _notify_new_incidents.               *)

\* Casebook.upsert_alerts
Upserted(old, found) ==
  LET ids == {a.id : a \in found} IN
  [i \in DOMAIN old \cup ids |->
     IF i \in ids THEN (CHOOSE a \in found : a.id = i).severity ELSE old[i]]

UpsertAlerts(p) ==
  /\ pc[p] = "idle"
  /\ memAlerts' = [memAlerts EXCEPT ![p] = Upserted(@, Alerts(UNION {Log[n] : n \in 1..collected}, feed[p]))]
  /\ alerts' = memAlerts'[p]
  /\ torn' = torn \ {"alerts"}
  /\ pc' = [pc EXCEPT ![p] = "merge"]
  /\ UNCHANGED <<collected, incidents, notified, responses, memIncidents, feed, loc, history>>

\* mutant: the status starts anew.
RefreshedAnew(old, i, found) ==
  LET known == i \in DOMAIN old IN
  [severity |-> found.severity,
   alerts   |-> found.alerts,
   priority |-> Priority(found.severity),
   status   |-> "new",
   summary  |-> IF known THEN old[i].summary ELSE "none",
   notes    |-> IF known THEN old[i].notes ELSE {}]

\* What a human decided on an incident is kept, the rest is refreshed.
Refreshed(old, i, found) ==
  LET known == i \in DOMAIN old IN
  [severity |-> found.severity,
   alerts   |-> found.alerts,
   priority |-> Priority(found.severity),
   status   |-> IF known THEN old[i].status ELSE "new",
   summary  |-> IF known THEN old[i].summary ELSE "none",
   notes    |-> IF known THEN old[i].notes ELSE {}]

\* The list is sorted by severity: of several incidents with one id the least
\* severe is filed last, over the others.
LastFiled(found, i) ==
  CHOOSE f \in found : f.id = i /\ \A g \in found : g.id = i => g.severity <= f.severity

\* Casebook.merge_incidents
Merged(old, found) ==
  LET ids == {f.id : f \in found} IN
  [i \in DOMAIN old \cup ids |->
     IF i \in ids THEN Refreshed(old, i, LastFiled(found, i)) ELSE old[i]]

MergeIncidents(p) ==
  /\ pc[p] = "merge"
  /\ memIncidents' = [memIncidents EXCEPT ![p] = Merged(@, Correlate(memAlerts[p]))]
  /\ incidents' = memIncidents'[p] /\ lastIncidents' = incidents'
  /\ torn' = torn \ {"incidents"}
  /\ behind' = LeftBehind(p)
  /\ pc' = [pc EXCEPT ![p] = "filed"]
  /\ UNCHANGED <<collected, alerts, notified, responses, memAlerts, feed, loc,
                 offered, passed, deeds, starts, kills, acts>>

ToNotify(p, seen, new) ==
  /\ loc' = [loc EXCEPT ![p] = Telling(seen, new)]
  /\ pc' = [pc EXCEPT ![p] = IF new = {} THEN "idle" ELSE "notify"]

\* mutant: the file is to name the new incidents only.
LoadOnlyNew(p) ==
  /\ pc[p] = "filed"
  /\ LET new == DOMAIN memIncidents[p] \ notified IN ToNotify(p, new, new)
  /\ UNCHANGED <<files, memAlerts, memIncidents, feed, history>>

\* mutant: the new incidents are not added to those seen.
LoadOnlyOld(p) ==
  /\ pc[p] = "filed"
  /\ ToNotify(p, notified, DOMAIN memIncidents[p] \ notified)
  /\ UNCHANGED <<files, memAlerts, memIncidents, feed, history>>

\* mutant: the file is written before anyone is told.
LoadAndSave(p) ==
  /\ pc[p] = "filed"
  /\ LET new == DOMAIN memIncidents[p] \ notified IN
     /\ ToNotify(p, notified \cup new, new)
     /\ notified' = notified \cup new
  /\ UNCHANGED <<collected, alerts, incidents, torn, responses, memAlerts, memIncidents, feed, history>>

\* _notify_new_incidents: a file that cannot be read counts as nothing seen.
LoadNotified(p) ==
  /\ pc[p] = "filed"
  /\ LET new == DOMAIN memIncidents[p] \ notified IN ToNotify(p, notified \cup new, new)
  /\ UNCHANGED <<files, memAlerts, memIncidents, feed, history>>

\* NotificationDispatcher.dispatch: the severity gate; what the channels answer
\* is collected and forgotten.
Gated(incident) == incident.severity > MinSeverity

Offered(i) == IF i \in DOMAIN offered THEN offered[i] ELSE 0

\* The list is sorted: the most severe come first.
MostSevere(book, ids) ==
  CHOOSE i \in ids : \A j \in ids : book[i].severity <= book[j].severity

Dispatch(p) ==
  /\ pc[p] = "notify" /\ loc[p].todo # {}
  /\ LET i == MostSevere(memIncidents[p], loc[p].todo) IN
     /\ loc' = [loc EXCEPT ![p] = Telling(@.seen, @.todo \ {i})]
     /\ IF Gated(memIncidents[p][i])
          THEN /\ passed' = passed \cup {i}
               /\ UNCHANGED offered
          ELSE /\ offered' = [j \in DOMAIN offered \cup {i} |->
                                IF j = i THEN Offered(i) + 1 ELSE offered[j]]
               /\ UNCHANGED passed
  /\ UNCHANGED <<files, memAlerts, memIncidents, feed, pc,
                 lastIncidents, behind, deeds, starts, kills, acts>>

SaveNotified(p) ==
  /\ pc[p] = "notify" /\ loc[p].todo = {}
  /\ notified' = loc[p].seen
  /\ pc' = [pc EXCEPT ![p] = "idle"]
  /\ loc' = [loc EXCEPT ![p] = NoLocal]
  /\ UNCHANGED <<collected, alerts, incidents, torn, responses,
                 memAlerts, memIncidents, feed, history>>

-----------------------------------------------------------------------------
(* soc_triage and, once the gate let it through, the response action.      *)

\* Casebook.update_incident: the whole copy of the process is saved.
Update(p, i, incident) ==
  /\ memIncidents' = [memIncidents EXCEPT ![p] = [@ EXCEPT ![i] = incident]]
  /\ incidents' = memIncidents'[p] /\ lastIncidents' = incidents'
  /\ torn' = torn \ {"incidents"}
  /\ behind' = LeftBehind(p)
  /\ acts' = acts + 1

\* A human's hand on an incident: severity and alerts stay.
Decided(inc, status, priority, summary, notes) ==
  [severity |-> inc.severity, alerts |-> inc.alerts, priority |-> priority,
   status |-> status, summary |-> summary, notes |-> notes]

\* SOC.triage without a reasoning provider: an automatic summary, no note.
TriageAlone(p, i) ==
  /\ pc[p] = "idle" /\ i \in DOMAIN memIncidents[p] /\ acts < MaxActs
  /\ LET inc == memIncidents[p][i] IN
     Update(p, i, Decided(inc, "triaged", inc.priority, "auto", inc.notes))
  /\ UNCHANGED <<collected, alerts, notified, responses, memAlerts, feed, pc, loc,
                 offered, passed, deeds, starts, kills>>

\* With one: its assessment and its priority are taken over, and noted.
TriageWithModel(p, i, priority) ==
  /\ pc[p] = "idle" /\ i \in DOMAIN memIncidents[p] /\ acts < MaxActs
  /\ LET inc == memIncidents[p][i] IN
     Update(p, i, Decided(inc, "triaged", priority, "assessed", inc.notes \cup {acts}))
  /\ UNCHANGED <<collected, alerts, notified, responses, memAlerts, feed, pc, loc,
                 offered, passed, deeds, starts, kills>>

\* action_params takes the first value of the kind, and _valid looks at it; a
\* file path is never among the parameters.
KeyOf(action) ==
  CASE action = "block_ip"     -> "ip"
    [] action = "disable_user" -> "user"
    [] action = "isolate_host" -> "host"

Valid(action, i) ==
  /\ action # "quarantine_file"
  /\ action \in ContainmentActions =>
       LET values == {e[2] : e \in {x \in i : x[1] = KeyOf(action)}} IN
       values # {} /\ First(values) \notin Malformed

Outcome(status, acted) == [status |-> status, acted |-> acted]

\* mutant: an action that took effect may be reported as rejected.
TriedOrRejected == {Outcome("executed", TRUE), Outcome("rejected", TRUE), Outcome("failed", FALSE)}

\* A command or call that fails, or answers too late, may have acted all the same.
Tried == {Outcome("executed", TRUE), Outcome("failed", TRUE), Outcome("failed", FALSE)}

DryRun == {Outcome("dry-run", FALSE)}

Rejected == {Outcome("rejected", FALSE)}

CommandOutcomes(action, i) ==
  IF action \notin Templates THEN DryRun
  ELSE IF ~Valid(action, i) THEN Rejected ELSE Tried

WebhookOutcomes(action, i) ==
  IF ~Valid(action, i) THEN Rejected
  ELSE IF ~DomainAllowed THEN {Outcome("blocked", FALSE)} ELSE Tried

\* build_executor: the policy of the process says which one it is.
Outcomes(executor, action, i) ==
  CASE executor = "none"    -> DryRun
    [] executor = "command" -> CommandOutcomes(action, i)
    [] executor = "webhook" -> WebhookOutcomes(action, i)

Execute(p, i, action) ==
  /\ pc[p] = "idle" /\ i \in DOMAIN memIncidents[p] /\ acts < MaxActs
  /\ \E executor \in Executors : \E o \in Outcomes(executor, action, i) :
       /\ loc' = [loc EXCEPT ![p] = Responding(i, action, o.status)]
       /\ deeds' = IF o.acted THEN deeds + 1 ELSE deeds
  /\ pc' = [pc EXCEPT ![p] = "acted"]
  /\ UNCHANGED <<files, memAlerts, memIncidents, feed,
                 lastIncidents, behind, offered, passed, starts, kills, acts>>

\* mutant: only what succeeded is put on record.
RecordSuccess(p) ==
  /\ pc[p] = "acted"
  /\ responses' = IF loc[p].status = "executed"
       THEN responses \cup {[number |-> Cardinality(responses), id |-> loc[p].id,
                             action |-> loc[p].action, status |-> loc[p].status]}
       ELSE responses
  /\ pc' = [pc EXCEPT ![p] = "responded"]
  /\ UNCHANGED <<collected, alerts, incidents, notified, torn,
                 memAlerts, memIncidents, feed, loc, history>>

\* Casebook.record_response: a line is appended.
RecordResponse(p) ==
  /\ pc[p] = "acted"
  /\ responses' = responses \cup {[number |-> Cardinality(responses), id |-> loc[p].id,
                                   action |-> loc[p].action, status |-> loc[p].status]}
  /\ pc' = [pc EXCEPT ![p] = "responded"]
  /\ UNCHANGED <<collected, alerts, incidents, notified, torn,
                 memAlerts, memIncidents, feed, loc, history>>

\* Only a dry run leaves the status alone, a failed or rejected action does not.
Contains(action, status) == action \in ContainmentActions /\ status # "dry-run"

NoteResponse(p) ==
  /\ pc[p] = "responded"
  /\ LET i == loc[p].id
         inc == memIncidents[p][i]
         status == IF Contains(loc[p].action, loc[p].status) THEN "contained" ELSE inc.status
     IN  Update(p, i, Decided(inc, status, inc.priority, inc.summary, inc.notes \cup {acts}))
  /\ pc' = [pc EXCEPT ![p] = "idle"]
  /\ loc' = [loc EXCEPT ![p] = NoLocal]
  /\ UNCHANGED <<collected, alerts, notified, responses, memAlerts, feed,
                 offered, passed, deeds, starts, kills>>

-----------------------------------------------------------------------------
DetectionStep(p) ==
  \/ UpsertAlerts(p) \/ MergeIncidents(p)
  \/ LoadNotified(p) \/ Dispatch(p) \/ SaveNotified(p)

HumanStep(p) ==
  \/ \E i \in DOMAIN memIncidents[p] :
       \/ TriageAlone(p, i)
       \/ \E priority \in Advice : TriageWithModel(p, i, priority)
       \/ \E action \in Asked : Execute(p, i, action)
  \/ RecordResponse(p) \/ NoteResponse(p)

Next ==
  \/ Collect
  \/ \E p \in Procs : Start(p) \/ Stop(p) \/ Kill(p)
  \/ \E p \in Detectors : DetectionStep(p)
  \/ \E p \in Responders : HumanStep(p)

Spec == Init /\ [][Next]_vars

-----------------------------------------------------------------------------
IsBook(alertBook, incidentBook) ==
  /\ \A a \in DOMAIN alertBook : alertBook[a] \in Severities
  /\ \A i \in DOMAIN incidentBook : incidentBook[i].severity \in Severities
                                    /\ incidentBook[i].status \in {"new", "triaged", "contained"}
                                    /\ incidentBook[i].notes \subseteq Nat

Locations == {"down", "idle", "merge", "filed", "notify", "acted", "responded"}

TypeOK ==
  /\ collected \in 0..Len(Log)
  /\ IsBook(alerts, incidents)
  /\ \A p \in Procs : IsBook(memAlerts[p], memIncidents[p])
  /\ torn \subseteq {"alerts", "incidents"}
  /\ pc \in [Procs -> Locations]
  /\ behind \subseteq Procs
  /\ \A p \in Procs : loc[p].todo \subseteq loc[p].seen
  /\ \A p \in Procs : pc[p] \in {"acted", "responded"} => loc[p].id \in DOMAIN memIncidents[p]

(* correlation.py: "Alerts that share an entity (an IP, a user, or a host) *)
(* are grouped into a single incident".  When detection has filed its      *)
(* incidents, alerts that share an entity are in one incident together,    *)
(* which names all their entities and is as severe as the worst.           *)
SharedEntityFiledTogether ==
  \A p \in Detectors : pc[p] \in {"filed", "notify"} =>
    \A a, b \in DOMAIN memAlerts[p] : a[2] \cap b[2] # {} =>
      \E i \in DOMAIN memIncidents[p] :
        /\ {a, b} \subseteq memIncidents[p][i].alerts
        /\ a[2] \cup b[2] \subseteq i
        /\ memIncidents[p][i].severity <= memAlerts[p][a]
        /\ memIncidents[p][i].severity <= memAlerts[p][b]

(* correlation.py: "Alerts that share ... are grouped into a single        *)
(* incident", each alert with an incident (`or [f"alert={alert.id}"]`).    *)
(* After a merge every alert in the book is among the alerts of some       *)
(* incident.  It is not: all groups without entities have one id.          *)
EveryAlertIsFiled ==
  \A p \in Detectors : pc[p] = "filed" =>
    \A a \in DOMAIN memAlerts[p] :
      \E i \in DOMAIN memIncidents[p] : a \in memIncidents[p][i].alerts

\* Nothing a human decided about incident i is taken back by a step.
HumanStateKept(i) ==
  /\ i \in DOMAIN lastIncidents'
  /\ lastIncidents[i].status # "new" => lastIncidents'[i].status # "new"
  /\ lastIncidents[i].summary # "none" => lastIncidents'[i].summary # "none"
  /\ lastIncidents[i].notes \subseteq lastIncidents'[i].notes

(* casebook.py: "human state on an incident (status, triage summary,       *)
(* notes) survives across runs".  From one whole save to the next, only a  *)
(* process whose copy misses what another saved in between takes it back,  *)
(* with the save that ends its lag.  The file holds the last whole save,   *)
(* unless a kill came inside the rewrite: then all of it is gone.          *)
HumanStateLostOnlyInRewrite ==
  /\ [][\/ \A i \in DOMAIN lastIncidents : HumanStateKept(i)
        \/ \E p \in behind : p \notin behind']_vars
  /\ [](incidents = lastIncidents \/ "incidents" \in torn)

(* An incident filed as contained has a response on record that was more   *)
(* than a dry run: through crashes between the two files and through       *)
(* processes that overwrite each other's incidents.                        *)
ContainedIsOnRecord ==
  \A i \in DOMAIN incidents :
    incidents[i].status = "contained" =>
      \E r \in responses : r.id = i /\ Contains(r.action, r.status)

(* Every action that changed another system is on record as executed or    *)
(* failed, unless the process was killed right after it: also one that     *)
(* took effect and then answered too late.                                 *)
DeedsOnRecord ==
  deeds - Cardinality({r \in responses : r.status \in {"executed", "failed"}})
    <= kills + Cardinality({p \in Procs : pc[p] = "acted"})

(* Humans are told of an incident once, and once more at most for each     *)
(* time the process was killed, also when the list of those told was torn. *)
ToldOncePerKill == \A i \in DOMAIN offered : offered[i] <= 1 + kills

(* dispatcher.py: "a new high-severity incident" is turned into a message. *)
(* What the file of those told names was handed to the dispatcher first,   *)
(* whatever channels it has, or was below the threshold when it was looked *)
(* at: no kill makes an incident count as told that was never handed over. *)
SeenWasTold == notified \subseteq DOMAIN offered \cup passed
=============================================================================
