# Virgent: TLA+ specifications

Specifications of the parts of Virgent whose correctness lies in the order of
events: what is executed on whose approval, what the audit log proves, what a
watcher that is killed leaves on disk, what becomes of an incident, a finding and
a deadline when several processes work on one directory. TLC checks them on
small instances; TLAPS proves the most important properties for every instance.

    tlc -config GateCrash.cfg MCResponseGate      # one run
    tlapm ResponseGateProofs.tla                  # one module of proofs

Source paths below are relative to `src/virgent/`.

## The system

Virgent is a security agent over one *workdir*. `SecurityAgent` (`engine.py`)
is built by every command, loads the workdir's files into memory, and is the
only way to the components:

| component | state | operations | interacts with |
|---|---|---|---|
| audit log (`audit.py`) | `audit.jsonl`; in memory the last number and hash | `record`, `verify` | called by everything |
| autonomy policy (`access.py`) | none (policy.yaml) | `evaluate`, `role_rank` | response gate, broker |
| decision broker (`access.py`) | `decisions.json` and a copy in memory | `open`, `approved_for`, `mark_consumed`, `resolve` | audits and notifies through a callback into the engine |
| action policy (`policy.py`) | approvals granted in this run | `evaluate`, `grant_approval`, domain and pentest scopes | every engine operation |
| response gate (`engine.py`) | none of its own | `soc_respond`, `resolve_decision`, `approve` | autonomy policy, broker, action policy, executor, casebook, audit log |
| log tailing (`ingest/tail.py`) | `tail_state.json`, a copy in memory | `collect` | `ingest` in the watch cycle |
| provenance (`provenance.py`) | `provenance.jsonl`, `evidence/<id>` | `register`, `load_evidence`, lineage | every ingestion, every scan |
| SOC (`soc/`) | `soc/alerts.json`, `incidents.json`, `responses.jsonl` | detect, correlate, merge, triage, respond | evidence in, incidents to the gate and the notifier |
| executors (`soc/executors.py`) | the outside world | `execute` by command or webhook | called by the gate |
| notifier (`notify/`) | `notified_incidents.json` | `dispatch` | broker events, new incidents |
| vulnerability register (`vulnmgmt.py`) | `vuln_register.json` | `sync`, `set_status` | all findings ever made |
| control monitor (`ccm.py`) | `ccm_state.json` | `assess` | findings, registered capabilities |
| integrity monitor (`integrity.py`) | `fim_baseline.json` | `baseline`, `check` | watch cycle |
| findings, index (`engine.py`, `store.py`) | `findings.jsonl`, `index.db` | append, load, `rebuild` | all capabilities, reports |
| discovery, cloud, identity, pentest | none, inventory goes to provenance | `discover`, `pentest` | action policy scopes |
| reasoning (`llm/`, `redaction.py`) | none | `reason` | policy, redaction, audit |
| capabilities, other ingestors, compliance, organisation, reports | none | analyse, render | evidence, findings |

**What makes it hard.** A workdir is shared: `virgent watch` runs for ever under
systemd, `virgent decide` and `virgent soc respond` are short processes beside
it, and `virgent serve` (`api.py`, a `ThreadingHTTPServer`) runs each request in
a thread over one `SecurityAgent`. There is no lock anywhere: each process works
on what it read when it started, and saving a JSON file replaces what others
saved. Files are written one after the other, in place, so a kill leaves some of
them behind; the service manager then starts the watcher again
(`deploy/virgent-watch.service:33`, `Restart=always`) on what is there. Outside,
logs are appended to, rotated and truncated while they are read.
`PROJECT.json` lists these hazards line by line, with the properties that watch
over them.

**What makes each component correct.** Audit log: what was recorded verifies,
and only that. Gate and broker: nothing consequential without a human of
sufficient rank, each approval worth one action, the trail complete. Watch: no
text twice, none lost but for named causes, everything audited can be read.
SOC: alerts that share an entity are filed together, human
triage survives re-runs and merges, who counts as told was told, every deed is on
record. Findings: what a finding says is so in evidence that can still be read;
what a scan found reaches the file; what stays wrong is reported. Register and
control monitor: verdicts and deadlines change by observations and decisions,
not by accident, and the log tells the status.

## The modules

### Audit log

`AuditChain` holds the record format and `verify()` as operators. A digest is
the identity of what it digests (SHA-256 without collisions); a body is what the
canonical JSON of a record contains, and is new in every call because of its
time stamp. `Faults`/`VerifyRecord` are the body of the loop of `verify`,
`VerifyWalk` what it knows after each record, `VerifyErrors` the errors at the
end; `ChainIntact` is the definition it should implement. A signature is the
key's, somebody else's, or missing.

`AuditDamage` writes a log with `record()` (`Recorded`), with a key or without, and
damages the file: records are edited, deleted, exchanged, and forged. A forger
(`Forge`) has no key, but puts records of his own with recomputed hashes and links
in the place of others, with the old signature, none, or one of his own.

`AuditLog` is `record()` as processes run it. `seq`, `head` are `_seq`, `_head`
of each process; a call is `TakeNumber` (line 109), `Build` (110-123),
`AppendLine` or `AppendFails` (124-127) and `Commit` (128), and a process can
end between any two of them (`Stop`) and `Start` again from the file
(`_load_tail`). A worker is a thread; threads of a process share `seq` and
`head`. `authors`, `run`, `faulty`, `overlap` are history.

### Autonomy policy

`AutonomyPolicy` has `evaluate`'s two results as `LevelFor` and `RequiredRole`,
`role_rank` as `RoleRank`. `AutonomyRisk` lets the risk of an incident rise.

### Response gate

`PolicyEngine` and `DecisionBroker` are operators on the state of those
components; `ResponseGate` composes them into the calls:

| action | code |
|---|---|
| `Start`, `Stop` | `SecurityAgent.__init__` (the broker reads `decisions.json`; grants are empty); end or kill |
| `Refuse`, `Proceed`, `Ask` | `soc_respond` up to its first effect: denied by autonomy, going to execute (with a decision if one is usable), request opened and saved |
| `Execute` | `SOC.execute_action`: the executor acts, `responses.jsonl` gets an entry |
| `MarkConsumed` | `broker.mark_consumed`: memory and save |
| `Resolve`, `CommitResolution` | `broker.resolve`: the checks; the verdict or the escalation, and save |
| `GrantApproved`, `Approve` | `resolve_decision`'s standing approval; `SecurityAgent.approve` |
| `Audit` | each `audit.record` that ends a stage of a call |

Steps of different threads and processes interleave; `disk` is what `_save`
wrote last, `mem[p]` the copy of a process. `loc` holds a call's locals, so what
was read before another thread's step is used after it. The risk score is an
input of every call: the incident's severity may have changed since the last.
Decision ids, hashes of time and context in the code, are a counter. The string
`""` of unset fields is `"none"`.

`OneShotApproval` is the promise: an action is free, or granted, or uses up one
approved decision. `ImplementsOneShot` says the gate implements it; the mapping
counts a decision as used as soon as its action has run.

### Following a log

`WatchIntake` is the watcher's cycle: snapshots of the host, scan of all
evidence, then for the log `stat` / `open` and read / save the offset (empty,
fill) / register (record, empty content, text) / audit, then detection over all evidence. Each
of these is a step, and the log can change or the watcher be killed before each.
`contents` are the items that have a file, `written` those whose file was filled.
`Readable` is the condition under which `load_evidence` does not raise: every item
has a file. One that is empty or cut short reads like any other, as the digest on
record is never compared on loading. When it
raises, the process ends (`cmd_watch` catches only `KeyboardInterrupt`). A unit
is a piece of log text, named by the number of its writing, so that text
ingested twice is visible.

### SOC

`Detection` is `DetectionEngine.run` with the sigma rules and threat feeds: from
the events of the log to alerts (which rule, which entities, which severity).
An event is what the parsers make of a line: a type, an address, a user, a host
and the signs its text carries. `Correlation` is `correlate()` with its
union-find; `Union` is what two `union` calls do to the results of `find`.

`Casebook` composes them into the cycle, and adds the humans:

| action | code |
|---|---|
| `Collect` | the log grows and is ingested |
| `Start`, `Stop`, `Kill` | `Casebook.__init__`, `_load`, which raises at an empty file; the end of a command; a kill, which may leave the file that is being rewritten empty (`Emptied`, `torn`) |
| `UpsertAlerts`, `MergeIncidents` | `SOC.process_evidence`: detect and save the alerts, correlate and save the incidents |
| `LoadNotified`, `Dispatch`, `SaveNotified` | `_notify_new_incidents`: the list of those told, one incident after another to the channels, the list again |
| `TriageAlone`, `TriageWithModel` | `SOC.triage` without and with a reasoning provider |
| `Execute`, `RecordResponse`, `NoteResponse` | `SOC.execute_action`: the executor acts, the response is recorded, the incident gets its note and status |

An incident is named by its entities, as in the code, where the id is their
hash. `memAlerts[p]`, `memIncidents[p]` are the casebook in the memory of a
process, read at `Start` and saved whole. `behind` (history) names the processes
whose incidents miss a save of another, `lastIncidents` is what was last saved
whole, whatever became of the file. Two processes never fill one file at once
here; their saves come one after the other. To be offered is to be handed to the
dispatcher, also to one that is disabled or has no channel
(`notify/dispatcher.py:138-139`). `deeds` counts the actions that really
changed something: `Tried` lets an action take effect and be reported as failed
(a time-out), but never be reported as rejected.

### Findings

`Capabilities` holds what the built-in capabilities report: per kind of
evidence a table of rules with severities and controls, and the checks where one
rule gives way to another (an exposed shadow file is not also reported as
world-writable). A content is a set of *spots* (a line, an account, an open
port), a spot the set of rules whose pattern it meets; the patterns are not
modelled.

`Findings` goes from the machine to `findings.jsonl`:

| action | code |
|---|---|
| `Change` | somebody changes a file, a port, an account |
| `Tick`, `Discover`, `BaselineFiles` | `monitor_tick`, `discover_cloud`/`discover_identity`, `integrity_baseline`: they begin by collecting |
| `Register`, `Store`, `Fill`, `PassOver` | `ProvenanceStore.register`: the record, then an empty content, then its text; an unreadable file is passed over |
| `Scan`, `LoadEvidence`, `LoadFails`, `RunCapability`, `DeniedCapability`, `Persist` | `SecurityAgent.scan` with `load_evidence` and `_persist_findings` |
| `SaveBaseline`, `Check`, `IntegrityCheck` | `integrity.py` and the calls to it |
| `AttackPaths`, `CiemAnalyze`, `Pentest` | the operations of that name |
| `Start`, `Stop`, `Kill` | as above; a kill while the baseline is written may tear it, one while a content is written leaves some part of it |

`known[c]`, `missing[c]`, `base[c]` are the provenance records, the records
without content and the baseline as the file (`"workdir"`) or the memory of a
process has them. Evidence is identified with its subject, kind and content. What
a kill inside the writing of a content leaves is given by `Remnants` (`CutShort`):
an item with less in it, which is read like any other. Every copy that has the
record is taken to know of it.
A penetration test cites its transcript, which holds only what `pentest.py`
writes into it (`Lines`): open ports, the answer's status, paths, TLS versions.

### Remediation

`Remediation` is `vulnmgmt.py` and `ccm.py` over findings that accumulate: `Sync`
and `SetStatus` with the log lines and the save that follow in either order
(`LogEvent`, `OpenRegister`, `WriteRegister`), and `assess`: `Assess` loads the
findings, `Look` and `Put` read and set the state of one control after another,
`Dump`, `OpenCcm`, `WriteCcm` save. The threads of `virgent serve` do this at once on
the one `ControlMonitor` of their process (`GET /controls`, `api.py:94-95`), so each
has its locals in `thread`. Opening a file empties it (`condition`), and a file that
two fill at once may be torn; after a kill in between nothing of it is left: a
register then fails every later start, a control state counts as none. `ccm` maps
a failing control to the day its deadline falls on. History: `lastRegister`,
`lastCcm`, what was last saved, whatever became of the file; `spoilt`, the files a
kill or a second writer left unreadable; `stale`, who has not read what was last
written; `together`, the threads that assessed beside another of their process;
`doubtful`, the entries an interrupted or overlapped operation touched.

## What TLC checks

| run | bounds | shows |
|---|---|---|
| `AuditDamage` | logs up to 5 records, 3 faults, with a key and without | `verify` is exactly "chained from genesis and signed"; with the key only a beginning of the written log passes, without it the same unless records were forged; one lost record inside is two messages |
| `AuditShared` | 2 processes, 3 starts, 4 calls, failing writes | the chain is resumed across stops and kills; with overlap or failures, breaks occur only at a handover and numbers of one start increase |
| `AutonomyRisk` | 2 chains, 5 levels, 5 roles (one unknown), 5 tiers, 5 scores | rising risk never relaxes; hot actions need a human below the top of the chain |
| `GateSequence` | 2 processes in turn, 5 calls, 3 starts | implements `OneShotApproval`, trail complete and in order, verdicts reach the log |
| `GateCrash` | the same, 5 starts, 2 kills, a hand grant, a denying policy | repeats need kills, the queue on disk is monotonic, the trail is backed by it |
| `GateParallel` | 1 responder beside a server with 2 threads, 2 incidents, 1 kill | authorisation and audit of executions without any serialisation, and no start of a process uses a decision twice |
| `WatchIntake` | 3 units, chunks of 2, 1 rotation, 1 truncation, 2 kills | no repetition, at most one chunk lost and one item spoilt for each kill, audited evidence whole, progress |
| `Casebook` | a watcher and an analyst, 2 chunks with 5 events, 1 kill, 2 human acts | alerts that share an entity are filed together, human state is lost only to who missed a save, or with the file in a kill, "contained" and every deed are on record, humans are told once, and who counts as told was told |
| `Findings` | a watcher and a human, a port, an account, a file and a host, 1 change, 1 kill, 2 commands | findings are shown by what can be read of their evidence, what was audited reaches the file, lasting weaknesses are reported |
| `Remediation` | a server with 2 threads and a command, 2 findings of different severity that fail one control, 2 statuses, 2 days, 1 kill, 3 operations | verdicts and deadlines are lost only to who missed a save, to threads that assess at once, or with the file in a kill; the log tells the status |

Why the bounds are enough for what they should show. A decision needs three calls from
asking to use, so 5 calls hold a full life and a competing second request, use,
verdict or grant; with 3 to 5 starts every one of them can be in another
process. `block_ip` and `isolate_host` differ in tier, level and role, the
scores 70 and 90 lie on both sides of the threshold, the roles below, at and
above what is required. Four audit calls in three starts let each process be
overtaken and resume. In the intake, chunks of 2 with 3 units make a file longer
than a chunk and one exactly as long; a rotation and a truncation can fall
before, inside and after a read; two kills can hit consecutive cycles.
In the casebook the first chunk makes two incidents, the second has the login
that joins them and an attack that names nobody, and two equal failed logins
reach the threshold that one would not; a kill can empty each of the
three files, the watcher starts again where it still can, and an analyst's copy
can be older or newer than the watcher's. In `Findings` the port is harmless
and exposed in turn (the change), the account is an administrator without a
second factor, so that an attack path can be found, the file can vanish, and the
capability `cloud` is denied after `identity` has found something. In
`Remediation` each process can miss the other's write, reopen, accept and be
killed between emptying and filling; of two threads one can assess with the
findings of before while the other sets a deadline, with the command's save in
between; the severities and a second day make a new deadline different from the old.
Each property was seen to fail on a mutated model (`mutants` in `PROJECT.json`).

`CHECK_DEADLOCK FALSE` stands where a bound on calls, faults or humans lets the
system stop, and in the watch, where a down system is not blocked but bounded.
`Remediation` is symmetric in the two threads of the server, which run the same
code; its temporal properties speak of single states and steps, for which that is sound.

**Fairness.** `ResponseGate!FairSpec`: weak fairness of the steps of a call that
has begun: the operating system runs the threads of a live process, and no step
waits for another. Calls, starts and stops are not fair. `WatchIntake!FairSpec`:
weak fairness of the cycle (an endless loop, `cmd_watch`) and of `Start`
(`Restart=always`). `Findings!FairSpec`: weak fairness of `Continue`, the steps of
a command that has begun, and, for watchers only, of `Start` and `Tick`, for the
same reasons. Nothing outside, no writer, rotation, change, human or kill, is fair.

### Where code and documents differ

Two runs end in a counterexample, on purpose:

- `GateStanding`: an approval, once used, has left a standing approval in the
  process that resolved it (`engine.py:851-852`), and the action runs again.
- `CaseFiled`: all groups of alerts that name nobody get the id of the empty set
  of entities (`soc/correlation.py:65`); the merge keeps the last, and the other
  alerts belong to no incident.

The following differences were met while modelling. The models contain them, so
the passing properties hold in spite of them; the property in parentheses bounds
the damage.

Response gate and audit log:

- `actions.deny` does not stop a response action that was approved in the queue
  (`engine.py:688-691`), although deny has precedence (`policy.py:7`).
- Two running processes can use one approval twice: the queue is read at start
  only, `access.py:237` (not in sequence: `ImplementsOneShot`; in parallel no start
  uses one twice: `OneUsePerStart`).
- `watch` beside `decide` forks the hash chain (`audit.py:118`), and `audit
  verify` reports a break nobody caused (`BreaksOnlyAtHandover`).

Evidence and findings:

- A kill between a provenance record and its content (`provenance.py:110-111`)
  ends every later scan in `load_evidence` (`KillsSpoilOneItem`; in
  `LastingWeaknessReported` it is one case of `Damaged`).
- A kill while the content is written (`provenance.py:111`) leaves an empty or partial
  one for good, which is read without an error, as nothing compares it with the
  hash on record: `verify_content` is never called on loading. Audited evidence is
  whole (`AuditedIsReadable`), a kill spoils one item (`KillsSpoilOneItem`), and findings
  still say no more than can be read (`FindingsAreShown`).
- A kill while `fim_baseline.json` is rewritten can make every later start fail.
- A capability denied in the middle of a scan loses the findings the audit log
  already counted (`AuditedReachFile` names that case).
- `models.py:90` says "always traceable". Integrity findings cite no evidence.
  Findings about missing headers and the server's version cite a transcript that
  does not show them: `pentest.py:138-196` writes open ports, the status, paths and
  TLS versions into it, no header and no banner. `FindingsAreShown` excepts the
  first, and asks of the second only that there was an answer. The content a baseline registers and the hash it saves are read
  one after the other (`engine.py:540-549`, `integrity.py:41`), so that the proof
  and the hash can be of different contents.
- `ciem` counts snapshots of administrators, not accounts.

SOC:

- A kill while `alerts.json` or `incidents.json` is rewritten loses everything in it, and
  every later start of the casebook fails (`HumanStateLostOnlyInRewrite`).
- `README.md:96-97` says human triage survives re-runs. An incident that grows by an
  entity has another id and starts as `new`; the old one stays with its triage.
- A priority the reasoning provider gave is lost at the next merge.
- An action that failed or was rejected sets the incident to `contained`
  (`soc/soc.py:112-113`); `quarantine_file` is always rejected, because
  `action_params` never gives a path.
- A success before the failures counts as a breach (`soc/detection.py:130-131`).
- An incident below the severity gate counts as told and is never announced when
  it rises above it.

Register and control monitor:

- A kill while `vuln_register.json` is rewritten (`vulnmgmt.py:104-109`) loses every
  verdict and first-seen day, and every later start fails
  (`VerdictLostOnlyInRewrite`). After one while `ccm_state.json` is rewritten the file
  counts as empty, and deadlines begin anew (`DeadlineMovesOnlyInRewrite`).
- Threads that answer `GET /controls` assess on one `ControlMonitor`
  (`api.py:94-95`, `ccm.py:110-155`): one with the findings of before clears
  (`ccm.py:141`) what another has just found failing, and the deadline begins anew.
- `findings.jsonl` only grows. A failing control never passes again, and every
  sync reopens resolved entries (`vulnmgmt.py:11`). Controls pass without their
  capability having run (`ccm.py:125-130`), and it does not matter which capability
  found what.
- A worse finding on a control that fails already keeps the old deadline
  (`ccm.py:138-140`).
- Titles with counts or process ids give new fingerprints at every scan.
- `program_posture` counts resolved entries among the open ones (`engine.py:818-842`).

## What is proved

Every safety property a run checks is a theorem of the specification, for all
values of the constants that satisfy the named assumptions of the modules (types
and finiteness; nothing about size). Hypotheses beyond that stand in the theorems:

- `SingleThreaded`, no process has two threads: every command but `virgent serve`.
- `Exclusive`, processes come one after another.
- `MaxCrashes = 0`, none is killed inside a call.
- `OneResponder`, `soc_respond` runs in one thread of each process: it is called
  by the command (`cli.py:268`) and by programs that embed the agent; the threads
  of `virgent serve` resolve decisions (`api.py:99`) and assess controls, and none
  of them responds.
- `OneDetector`, one process detects: `virgent watch`, while nobody runs
  `virgent soc detect` beside it.

`GateParallel`, `GateCrash`, `GateSequence`, `AuditShared` and `Casebook` are
instances in which the respective hypotheses hold; the properties are false
without them (two responding threads of a process take up one approval before
either has consumed it; two detectors both find an incident untold).

**Autonomy** (`AutonomyRiskProofs`): `RiskMonotonic`, `HotActionsGated`, from
`AutonomyPolicyProofs` (the order of levels; the rank of the required role is
the configured one, or one more when bumped; a bump stays when the risk
rises). The roles of a chain must differ (`AccessBlocks`).

**Response gate** (`ResponseGateProofs`)

- `TypeInvariant`, for all processes, threads and crashes. Its `ThreadsLive`
  conjunct, that a thread works on a decision its process has in memory, is what
  makes the other conjuncts inductive.
- `Authorised`: whatever overwrites whatever, an effect on a decision was
  vouched for. Inductive is that every approved request in any copy, on disk or
  in memory, and every call that goes to execute on one, is vouched for by an
  approval of that id, action and incident; ids are unique because `opened`
  only grows.
- `VerdictsAreFinal`, `TrailIsBacked`, with kills, under `Exclusive` and
  `SingleThreaded`. `CallInv` says that the memory of the live process is
  the disk, and what a thread in the middle of a call holds is there; each audit
  record is then written behind the save it tells of, and saves only add.
- `RepeatsAreCrashes`: a decision has no more uses than there were kills, or it
  has one more and is spent: consumed on disk, or its user stands before
  `mark_consumed` (`RepeatInv`).
- `GateImplementsOneShot`: every step of the gate is a step of
  `OneShotApproval` or leaves its variables as they are, one lemma for each action;
  `Execute` is the step that matters, and needs that the decision
  it goes by was not used before.
- `TrailIsComplete`: for each decision the records in the trail are exactly those
  of the stage its queue entry and its call have reached (`StoryInv`).
- `UsesPerStart`, `ExecutionsAreAudited`, for processes side by side
  under `OneResponder`. What a process used since it started is consumed in its
  memory or about to be (`SpentBy`), and no save of another process reaches its
  memory; so it never uses it again, and no two that run are one start (`UseInv`).
  Executions are counted against audit records, calls on their way to
  write one, and crashes (`TellInv`).

**Audit log** (`AuditLogProofs`)

- `LogTyped`; `ChainIsResumed` under `SingleThreaded`: what the running process
  knows is the end of the file, at each location of `record()`.
- `NumbersIncrease`, `BreaksAreHandovers`, for processes in parallel: of a
  start's own records the counter is ahead (`NumbersAhead`), and the head it
  remembers is the hash of the last one (`OwnTails`), until a write fails.
- What the loop of `verify` computes, for a log of any length
  (`VerifyMeansIntact`, `WalkCounts`, `NoErrorNoFault`): it reports no error exactly when the
  file is chained and signed. With it `ResumedLogVerifies`, and of a damaged log
  `DamageIsMeasured`, `OnlyPrefixesPass`, `LossIsReportedOnce`; inductive there
  (`DamageInv`) is that a content of `record()`'s stands under its own number and
  link, and a signature of the key's is one that `record()` made (`Known`); that without a
  forger each line is one that was written, edited or not (`Written`); that the file is
  the original before the first fault, and the original without one record after a
  single deletion.

**Following a log** (`WatchIntakeProofs`)

- `IntakeTyped`, `AuditedReadable`, `OneItemAKill`. The invariant (`Stored`)
  is that all records have a content between the scan and the next
  registration, and the audited ones a whole one. It is needed already for types: an
  item's content is only written when its record exists. Of the items that are not
  being stored those that are not whole are as few as the kills (`SpoiltInv`).
- `IngestedOnce`: a unit that is on record or in hand is covered by the offset
  the watcher would read from next, in memory and, once saved, on disk (`OnceInv`).
- `OneChunkAKill`: the units an offset has passed are ingested, in hand, or at
  most `MaxChunk` for each kill (`ChunkInv`, `StatesBehind`, `LossInv`); a kill
  makes the chunk in hand a lost one.

**Casebook** (`CasebookProofs`), for any number of processes that detect or
respond, any log, and kills, also those that leave a file empty

- `BooksTyped`, `SharedAreFiledTogether`. For any finite set of alerts, in
  whatever order the folds of `Linked` and `Roots` take them, the union-find gives
  all nodes of an alert one root (`RootsLink`): linking hangs trees together and
  never apart (`StaysLinked`). So alerts that share an entity are in one group, and no
  other group has this group's id, as it would have the entity too
  (`GroupsShare`); the merge then files this group under it. The detection
  finds finitely many alerts, rule by rule (`AlertsFindable`), so that the folds
  are defined. The invariant `Sound` says this of every copy and file, and that a
  process tells only of incidents that are in its copy.
- `HumanStateSurvives`: inductive is that every live process that is not
  `behind` has exactly the incidents last saved whole, and that the file has
  them too unless it is torn (`UpToDate`); a merge keeps status, summary and notes of what it finds.
- `ContainmentIsBacked`: every copy in which an incident is contained, on disk or
  in memory, has its response on record, and so has a process between record and
  status; a copy can be old, but `responses.jsonl` only grows.
- `DeedsAreRecorded`: deeds are counted against effective responses, processes
  between deed and record, and kills (`Accounted`).
- `ToldWereTold`: while a process notifies, every id it has in `seen` and no
  longer in `todo` was offered or below the gate. `ToldOnce` under `OneDetector`:
  what may still be told, because it is in `todo` or in no list, has been told no
  more often than there were kills (`Told`).

**Findings** (`FindingsProofs`)

- `AuditedFindingsReachFile`: findings are in the hands of a
  process only between analysis and writing (`Shape`), and each step leaves what
  is in hand there, on file, or cut off (`Accounted`).
- `FindingsTraceable`: whatever was killed, collected or scanned meanwhile, the
  evidence of a finding is on record and can be read, and what can be read, cut
  short or not, shows what the finding says; headers and banners excepted.
  Inductive (`Evidence`) is that every recorded item is stored, or is named in
  `missing` by a live process that holds it, or the loss of a killed process is noted, in
  each copy; that a process scans only when its own copy misses nothing;
  and that what is in hand cites readable items, or the transcript about to be stored. The
  other half (`AllShown`) is that every finding, in hand or on file, is shown
  already when it is made; attack paths need that findings are never taken away.
- `FindingsTyped` adds the types.

**Register and control monitor** (`RemediationProofs`)

- `VerdictsSurvive`: the register in the memory of a process
  that is not stale keeps what was last saved but for what it is about to save
  (`RegisterRead`); `sync` and `set_status` keep every entry's first day, and the status
  as `Kept` allows. A file that is whole holds what was last saved, and one that is
  not is being rewritten or spoilt (`FilesHeld`).
- `DeadlinesStay`: the same for the control states (`CcmRead`), through every
  `Look`, `Put` and `Dump` of a thread that assesses alone in its process, with
  `AllFailing`: a control that was saved as failing has findings and always will, as
  `findings.jsonl` only grows, so `assess` never drops it. Threads that are not alone
  are all in `together`, and their process counts as stale (`Beside`, `Apart`).
- `LogTells`: for each entry that is not doubtful, the log's last line is its
  status on file, or a process stands between the two writes: it logged the
  status it is about to save, or owes the line of what it saved (`LogFor`).
- `RemediationTyped` adds the types.

**How data is treated.** What a recursive function computes (the loop of
`verify`, the two folds of the correlation) is proved by induction over the number of
steps. The library's induction theorems take an operator, which the provers cannot
instantiate; here the induction is over a *set* of numbers: were some number
outside it, there would be a least one (`LeastMember`, from the well-foundedness of
`<` on `Nat`), and its predecessor is inside (`NatSet`, `SetInduct`). That the
recursion has a solution at all is proved the same way (`WalkSteps`, `FoldExists`).

**Only model-checked:** the liveness properties `VerdictsReachTheTrail`,
`LogIsFollowed`, `LastingWeaknessReported`, as fairness and `ENABLED` are out of
the provers' reach. `GateStanding` and `CaseFiled` are counterexamples.

## What is abstracted, and what is not modelled

- Saving `decisions.json` and appending a line (provenance, audit, responses, findings)
  is one step; what a kill inside it leaves, which makes later starts fail, is left
  out. Saving a content, `tail_state.json`, the casebook's files, the
  list of those told, the baseline, the register and the control state is
  opening and filling, with a kill in between. Two that fill one file at once can
  leave a mixture; this is in `Remediation`, and left out of `Casebook`.
- The types of `Findings` and `Remediation` are proved and not run.
- The executor's outcome, the notifications and the incident's status are left
  out of the gate, where no branch depends on them, and modelled in `Casebook`,
  which in turn takes a response after the gate let it through.
- `stat` and `open` failing is a log that is not there; a blank chunk, which
  yields no item, does not occur; inode numbers are not reused; units of text are
  whole lines.
- Text that is rotated away before it was read is lost by design of the code.
- That a pattern matches a text is an input: `Detection` gets events with signs,
  `Capabilities` spots with conditions. Parsers, regular expressions, wording of
  titles and remediation are not modelled, nor how a severity follows from a CVSS
  vector that is not at hand.
- Evidence numbers, how often a finding was written, the five members an attack
  path shows, owner, risk and counters of a register entry, and the history of a
  control are left out: no property here is about them.
- `ciem` compares the share of administrators with 40 %; as each snapshot counts,
  any number may be on file, and `Concentrations` allows what some number gives.
- Operations that read only (access reviews, reports, posture,
  lineage and `verify` of the provenance store) change no state and are not
  modelled, like `store.py`, a disposable index.
- Not modelled: the reasoning provider's calls, ticketing, signing, SBOM (one
  document each, no state), the compliance catalogue, reports and the
  organisation model (tables and layout), the cloud and identity providers and the
  probes (I/O), `llm_review` (free text), `soc/eval.py` (a test of the rules).

## Plan

1. Saving `decisions.json` in two steps in the gate, with torn files and audit lines;
   two writers of one file in the casebook.
2. Lines torn at a chunk's end, from `WatchIntake` into `Detection`.
3. Proofs about what 1 and 2 add; that groups of alerts have distinct ids when they
   have entities; the hypotheses of the gate, one by one, as weak as they can be.
