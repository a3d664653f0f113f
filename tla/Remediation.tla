---------------------------- MODULE Remediation ----------------------------
(* What is done about findings: the vulnerability register (vulnmgmt.py)    *)
(* and continuous control monitoring (ccm.py), as the processes that share  *)
(* a workdir use them.  Both keep a file that every process reads once, at  *)
(* its start, and writes from its own memory afterwards.  Commands run in   *)
(* one thread; the threads of the HTTP server assess the controls at once,  *)
(* on the one ControlMonitor of their process (a process of the model may   *)
(* do both, one after the other; those of the code do one or the other).    *)
(*                                                                          *)
(* A finding is what Capabilities says of it and the subject it is about;   *)
(* it is its own fingerprint.  What is computed from an entry and shown     *)
(* (risk, counters, owner, percentages) is not modelled.                    *)
EXTENDS Capabilities

CONSTANTS
  Procs, Threads,
  Home,         \* the process of each thread
  Detectable,   \* the findings that scans may write to findings.jsonl
  Statuses,     \* the states humans set, of STATES
  Active,       \* the capabilities that count as active
  Sla,          \* days to remediate, per severity (both modules have the same)
  MaxDays, MaxKills, MaxOps   \* bounds

ASSUME RemediationAssumption ==
  /\ Home \in [Threads -> Procs]
  /\ \A f \in Detectable : f.severity \in DOMAIN Sla
  /\ \A s \in DOMAIN Sla : Sla[s] \in Nat
  /\ MaxDays \in Nat /\ MaxKills \in Nat /\ MaxOps \in Nat

VARIABLES
  findings,     \* on file
  register, ccm,   \* what the two files hold: fingerprint -> entry, failing control -> due
  condition,    \* of the two files: "whole", "empty" or "torn"
  log,          \* vulnerabilities.log.jsonl: the last status of each fingerprint
  today,
  pc, memRegister, memCcm,
  toLog,        \* per process: the fingerprints whose events it has yet to log
  thread,       \* the local variables of each thread
  lastRegister, lastCcm,   \* history: what was last written, whatever became of it
  stale,        \* history, per file: who has not read what was last written
  together,     \* history: the threads that assess beside one of their process
  spoilt,       \* history: the files that a kill, or two writers at once, left unreadable
  doubtful,     \* history: the fingerprints an interrupted or overlapped operation touched
  kills, ops

disk == <<register, ccm, condition, log>>
memory == <<memRegister, memCcm, toLog, thread>>
written == <<lastRegister, lastCcm, spoilt>>
history == <<written, stale, together, doubtful, kills, ops>>
vars == <<findings, disk, today, pc, memory, history>>

Files == {"register", "ccm"}

\* Where a thread is, the findings and the day it has read, the controls it has
\* yet to judge, what it has read of the one at hand, and what it is to write.
At(stage, seen, day, left, prior, text) ==
  [stage |-> stage, seen |-> seen, day |-> day, left |-> left, prior |-> prior, text |-> text]

Rest == At("rest", {}, 0, {}, <<>>, <<>>)

Init ==
  /\ findings = {} /\ register = <<>> /\ ccm = <<>> /\ log = <<>> /\ today = 0
  /\ condition = [file \in Files |-> "whole"]
  /\ pc = [p \in Procs |-> "down"]
  /\ memRegister = [p \in Procs |-> <<>>] /\ memCcm = [p \in Procs |-> <<>>]
  /\ toLog = [p \in Procs |-> {}] /\ thread = [t \in Threads |-> Rest]
  /\ lastRegister = <<>> /\ lastCcm = <<>> /\ spoilt = {}
  /\ stale = [file \in Files |-> {}] /\ together = {} /\ doubtful = {} /\ kills = 0 /\ ops = 0

\* A scan appends a finding; nothing ever takes one away.
Scan(f) ==
  /\ findings' = findings \cup {f}
  /\ UNCHANGED <<disk, today, pc, memory, history>>

NextDay ==
  /\ today < MaxDays /\ today' = today + 1
  /\ UNCHANGED <<findings, disk, pc, memory, history>>

-----------------------------------------------------------------------------
\* SecurityAgent.__init__: an empty or torn register raises, such a control state
\* is taken for none.
Start(p) ==
  /\ pc[p] = "down" /\ condition["register"] = "whole"
  /\ memRegister' = [memRegister EXCEPT ![p] = register]
  /\ memCcm' = [memCcm EXCEPT ![p] = ccm]
  /\ stale' = [file \in Files |-> IF condition[file] = "whole" THEN stale[file] \ {p} ELSE stale[file] \cup {p}]
  /\ pc' = [pc EXCEPT ![p] = "idle"]
  /\ UNCHANGED <<findings, disk, today, toLog, thread, written, together, doubtful, kills, ops>>

Resting(p) == \A t \in Threads : Home[t] = p => thread[t] = Rest

Forgotten(p) ==
  /\ pc' = [pc EXCEPT ![p] = "down"]
  /\ memRegister' = [memRegister EXCEPT ![p] = <<>>] /\ memCcm' = [memCcm EXCEPT ![p] = <<>>]
  /\ toLog' = [toLog EXCEPT ![p] = {}]
  /\ thread' = [t \in Threads |-> IF Home[t] = p THEN Rest ELSE thread[t]]
  /\ stale' = [file \in Files |-> stale[file] \ {p}]
  /\ together' = {t \in together : Home[t] # p}

\* A command is done, a server is stopped.
Stop(p) ==
  /\ pc[p] = "idle" /\ Resting(p) /\ Forgotten(p)
  /\ UNCHANGED <<findings, disk, today, written, doubtful, kills, ops>>

\* The fingerprints whose status differs in the two registers.
Differing(old, new) ==
  {f \in DOMAIN old \cup DOMAIN new :
     \/ f \notin DOMAIN old \cap DOMAIN new
     \/ old[f].status # new[f].status}

Busy(p) == pc[p] \in {"logFirst", "open", "write", "logLast"}

\* The files p has emptied and not yet filled.
Rewriting(p) ==
  {file \in Files : \/ file = "register" /\ pc[p] = "write"
                    \/ file = "ccm" /\ \E t \in Threads : Home[t] = p /\ thread[t].stage = "write"}

\* Of a file killed in the middle of its rewriting nothing is left.
Kill(p) ==
  /\ pc[p] # "down" /\ kills < MaxKills
  /\ Forgotten(p) /\ kills' = kills + 1
  /\ spoilt' = spoilt \cup {file \in Rewriting(p) : condition[file] = "empty"}
  /\ doubtful' = doubtful \cup (IF Busy(p) THEN Differing(lastRegister, memRegister[p]) \cup toLog[p] ELSE {})
  /\ UNCHANGED <<findings, disk, today, lastRegister, lastCcm, ops>>

\* A command that works on the register.
Begin(p) ==
  /\ pc[p] = "idle" /\ Resting(p)
  /\ ops < MaxOps /\ ops' = ops + 1

-----------------------------------------------------------------------------
(* vulnmgmt.py                                                             *)

Entry(status, first) == [status |-> status, first |-> first]

Updated(e, status) == Entry(status, e.first)

\* mutant: what is observed again is entered anew.
SyncedAnew(r, found, now) ==
  [f \in DOMAIN r \cup found |-> IF f \in found THEN Entry("open", now) ELSE r[f]]

\* sync: what is new is open, what was resolved and is still on file is open
\* again, every other entry keeps its status; all keep first_seen.
Synced(r, found, now) ==
  [f \in DOMAIN r \cup found |->
     IF f \notin DOMAIN r THEN Entry("open", now)
     ELSE IF f \in found /\ r[f].status = "resolved" THEN Updated(r[f], "open")
     ELSE r[f]]

\* mutant: only what is new is logged.
SyncSilently(p) ==
  /\ Begin(p)
  /\ memRegister' = [memRegister EXCEPT ![p] = Synced(@, findings, today)]
  /\ toLog' = [toLog EXCEPT ![p] = findings \ DOMAIN memRegister[p]]
  /\ pc' = [pc EXCEPT ![p] = "logFirst"]
  /\ UNCHANGED <<findings, disk, today, memCcm, thread, written, stale, together, doubtful, kills>>

\* The events are logged one by one, and then the register is saved.
Sync(p) ==
  /\ Begin(p)
  /\ LET new == Synced(memRegister[p], findings, today) IN
     /\ memRegister' = [memRegister EXCEPT ![p] = new]
     /\ toLog' = [toLog EXCEPT ![p] = Differing(memRegister[p], new)]
  /\ pc' = [pc EXCEPT ![p] = "logFirst"]
  /\ UNCHANGED <<findings, disk, today, memCcm, thread, written, stale, together, doubtful, kills>>

WithStatus(r, f, status) == [r EXCEPT ![f] = Updated(@, status)]

\* set_status saves first and logs then; an unknown fingerprint raises.
SetStatus(p, f, status) ==
  /\ Begin(p) /\ f \in DOMAIN memRegister[p]
  /\ memRegister' = [memRegister EXCEPT ![p] = WithStatus(@, f, status)]
  /\ toLog' = [toLog EXCEPT ![p] = {f}]
  /\ pc' = [pc EXCEPT ![p] = "open"]
  /\ UNCHANGED <<findings, disk, today, memCcm, thread, written, stale, together, doubtful, kills>>

\* _log; an event logged while another process is at work may belie the file.
LogEvent(p) ==
  /\ pc[p] \in {"logFirst", "logLast"}
  /\ \E f \in toLog[p] :
       /\ log' = [g \in DOMAIN log \cup {f} |-> IF g = f THEN memRegister[p][f].status ELSE log[g]]
       /\ toLog' = [toLog EXCEPT ![p] = @ \ {f}]
       /\ doubtful' = IF \E q \in Procs \ {p} : Busy(q) THEN doubtful \cup {f} ELSE doubtful
  /\ UNCHANGED <<findings, register, ccm, condition, today, pc, memRegister, memCcm, thread>>
  /\ UNCHANGED <<written, stale, together, kills, ops>>

AllLogged(p) ==
  /\ pc[p] \in {"logFirst", "logLast"} /\ toLog[p] = {}
  /\ pc' = [pc EXCEPT ![p] = IF pc[p] = "logFirst" THEN "open" ELSE "idle"]
  /\ UNCHANGED <<findings, disk, today, memory, history>>

\* Path.write_text empties the file and then fills it.  Whoever fills a file that
\* somebody else has filled meanwhile may leave the end of theirs behind.
Opens(file) == condition' = [condition EXCEPT ![file] = "empty"]

Fills(file) ==
  \E c \in {"whole", "torn"} :
    /\ c = "torn" => condition[file] # "empty"
    /\ condition' = [condition EXCEPT ![file] = c]
    /\ spoilt' = IF c = "torn" THEN spoilt \cup {file} ELSE spoilt \ {file}

\* What can be read of a file that was filled with a content.
Legible(file, content) == IF condition'[file] = "whole" THEN content ELSE <<>>

OpenRegister(p) ==
  /\ pc[p] = "open" /\ Opens("register")
  /\ register' = <<>>
  /\ pc' = [pc EXCEPT ![p] = "write"]
  /\ UNCHANGED <<findings, ccm, log, today, memory, history>>

WriteRegister(p) ==
  /\ pc[p] = "write" /\ Fills("register")
  /\ register' = Legible("register", memRegister[p]) /\ lastRegister' = memRegister[p]
  /\ stale' = [stale EXCEPT !["register"] = {q \in Procs : pc[q] # "down"} \ {p}]
  /\ doubtful' = IF p \in stale["register"] THEN doubtful \cup Differing(lastRegister, memRegister[p]) ELSE doubtful
  /\ pc' = [pc EXCEPT ![p] = IF toLog[p] = {} THEN "idle" ELSE "logLast"]
  /\ UNCHANGED <<findings, ccm, log, today, memory, lastCcm, together, kills, ops>>

-----------------------------------------------------------------------------
(* ccm.py                                                                  *)

\* MONITORED_CONTROLS: the controls and the capability that tests each.
Monitored ==
  [secrets      |-> {"NIST:IA-5", "ISO27001:A.8.24", "SOC2:CC6.1"},
   dependencies |-> {"NIST:RA-5", "OWASP:A06", "NIST:SR-3"},
   iac          |-> {"NIST:CM-6", "SOC2:CC8.1", "OWASP:A05"},
   host         |-> {"CIS:5.2", "CIS:1.4", "CIS:3.3", "CIS:4.4"},
   runtime      |-> {"NIST:SI-4", "ISO27001:A.8.16"},
   fim          |-> {"NIST:SI-7"},
   cloud        |-> {"NIST:AC-3", "NIST:SC-7", "NIST:SC-28", "NIST:AC-2"},
   identity     |-> {"NIST:AC-17", "ISO27001:A.5.16", "ISO27001:A.5.15"},
   soc          |-> {"NIST:IR-4", "SOC2:CC7.2"}]

Assessed == UNION {Monitored[c] : c \in DOMAIN Monitored \cap Active}

\* The findings of any capability count, whichever tests the control.
Hits(found, control) == {f \in found : control \in f.controls}

Worst(hits) == CHOOSE s \in {f.severity : f \in hits} : \A f \in hits : s <= f.severity

\* The controls that may ever fail; the others stay as they are.
Failable == {c \in Assessed : Hits(Detectable, c) # {}}

\* ccm_assess loads the findings and assess reads the clock; a thread beside
\* another of its process shares the control states with it.
Assess(t) ==
  /\ pc[Home[t]] = "idle" /\ thread[t] = Rest
  /\ ops < MaxOps /\ ops' = ops + 1
  /\ thread' = [thread EXCEPT ![t] = At("look", findings, today, Failable, <<>>, <<>>)]
  /\ LET beside == {u \in Threads : Home[u] = Home[t] /\ thread[u] # Rest} IN
     IF beside = {} THEN UNCHANGED <<stale, together>>
     ELSE /\ together' = together \cup beside \cup {t}
          /\ stale' = [stale EXCEPT !["ccm"] = @ \cup {Home[t]}]
  /\ UNCHANGED <<findings, disk, today, pc, memRegister, memCcm, toLog, written, doubtful, kills>>

\* The controls are judged one after the other, always in one order.
Control(l) == CHOOSE c \in l.left : TRUE

Look(t) ==
  /\ thread[t].stage = "look" /\ thread[t].left # {}
  /\ LET l == thread[t]
         state == memCcm[Home[t]]
         prior == [c \in {Control(l)} \cap DOMAIN state |-> state[c]]
     IN  thread' = [thread EXCEPT ![t] = At("put", l.seen, l.day, l.left, prior, <<>>)]
  /\ UNCHANGED <<findings, disk, today, pc, memRegister, memCcm, toLog, history>>

\* mutant: the deadline is computed at every assessment.
DueAnew(l, c) == l.day + Sla[Worst(Hits(l.seen, c))]

\* A control that failed before keeps its deadline.
Due(l, c) == IF c \in DOMAIN l.prior THEN l.prior[c] ELSE l.day + Sla[Worst(Hits(l.seen, c))]

Judged(state, l, c) ==
  IF Hits(l.seen, c) = {} THEN [d \in DOMAIN state \ {c} |-> state[d]]
  ELSE [d \in DOMAIN state \cup {c} |-> IF d = c THEN Due(l, c) ELSE state[d]]

Put(t) ==
  /\ thread[t].stage = "put"
  /\ LET l == thread[t]
         c == Control(l)
     IN  /\ memCcm' = [memCcm EXCEPT ![Home[t]] = Judged(@, l, c)]
         /\ thread' = [thread EXCEPT ![t] = At("look", l.seen, l.day, l.left \ {c}, <<>>, <<>>)]
  /\ UNCHANGED <<findings, disk, today, pc, memRegister, toLog, history>>

\* _save: the text is made before the file is opened.
Dump(t) ==
  /\ thread[t].stage = "look" /\ thread[t].left = {}
  /\ thread' = [thread EXCEPT ![t] = At("open", {}, 0, {}, <<>>, memCcm[Home[t]])]
  /\ UNCHANGED <<findings, disk, today, pc, memRegister, memCcm, toLog, history>>

OpenCcm(t) ==
  /\ thread[t].stage = "open" /\ Opens("ccm")
  /\ ccm' = <<>>
  /\ thread' = [thread EXCEPT ![t] = At("write", {}, 0, {}, <<>>, @.text)]
  /\ UNCHANGED <<findings, register, log, today, pc, memRegister, memCcm, toLog, history>>

WriteCcm(t) ==
  /\ thread[t].stage = "write" /\ Fills("ccm")
  /\ ccm' = Legible("ccm", thread[t].text) /\ lastCcm' = thread[t].text
  /\ stale' = [stale EXCEPT !["ccm"] =
       {q \in Procs : pc[q] # "down" /\ (q = Home[t] => t \in together)}]
  /\ together' = together \ {t}
  /\ thread' = [thread EXCEPT ![t] = Rest]
  /\ UNCHANGED <<findings, register, log, today, pc, memRegister, memCcm, toLog, lastRegister, doubtful, kills, ops>>

-----------------------------------------------------------------------------
Next ==
  \/ \E f \in Detectable \ findings : Scan(f)
  \/ NextDay
  \/ \E p \in Procs :
       \/ Start(p) \/ Stop(p) \/ Kill(p)
       \/ Sync(p) \/ LogEvent(p) \/ AllLogged(p) \/ OpenRegister(p) \/ WriteRegister(p)
       \/ \E f \in Detectable, status \in Statuses : SetStatus(p, f, status)
  \/ \E t \in Threads : Assess(t) \/ Look(t) \/ Put(t) \/ Dump(t) \/ OpenCcm(t) \/ WriteCcm(t)

Spec == Init /\ [][Next]_vars

-----------------------------------------------------------------------------
Days == 0 .. MaxDays

Entries == [status : Statuses \cup {"open"}, first : Days]

IsRegister(r) == DOMAIN r \subseteq Detectable /\ \A f \in DOMAIN r : r[f] \in Entries

Stages == {"down", "idle", "logFirst", "open", "write", "logLast"}

TypeOK ==
  /\ findings \subseteq Detectable /\ today \in Days
  /\ \A r \in {register, lastRegister} : IsRegister(r)
  /\ \A p \in Procs : IsRegister(memRegister[p])
  /\ pc \in [Procs -> Stages] /\ toLog \in [Procs -> SUBSET Detectable]
  /\ \A t \in Threads : thread[t].stage \in {"rest", "look", "put", "open", "write"} /\ thread[t].left \subseteq Failable
  /\ condition \in [Files -> {"whole", "empty", "torn"}] /\ spoilt \subseteq Files
  /\ stale \in [Files -> SUBSET Procs] /\ together \subseteq Threads

\* An entry keeps the day it was first seen, and its status unless a human sets
\* another or a resolved one is still reported.
Kept(old, new, bySetting) ==
  /\ new.first = old.first
  /\ \/ new.status = old.status
     \/ old.status = "resolved" /\ new.status = "open"
     \/ bySetting

(* A verdict (accepted, false positive, acknowledged) and the day an entry  *)
(* was first seen, from which its deadline is counted, survive every sync   *)
(* and restart: what a process saves keeps those last saved, unless it has  *)
(* not read what another wrote meanwhile; and the file holds what was last  *)
(* saved, but while it is being rewritten.  A kill in that moment, or two   *)
(* that rewrite it at once, lose all of it.                                 *)
VerdictLostOnlyInRewrite ==
  /\ [][\A f \in DOMAIN lastRegister :
         \/ /\ f \in DOMAIN lastRegister'
            /\ Kept(lastRegister[f], lastRegister'[f], \E p \in Procs : pc[p] = "write" /\ f \in toLog[p])
         \/ \E p \in stale["register"] : pc[p] = "write" /\ pc'[p] # "write"]_vars
  /\ [](register = lastRegister \/ "register" \in spoilt \/ \E p \in Procs : "register" \in Rewriting(p))

(* "first_failed_at and history survive across runs" (ccm.py): a failing    *)
(* control keeps failing, with the deadline it was given, unless a process  *)
(* saves its own state that missed a write, that read the file while it was *)
(* empty or torn, or whose threads assessed the controls at once; and the   *)
(* file holds what was last saved, but for the same moment as above.        *)
DeadlineMovesOnlyInRewrite ==
  /\ [][\A c \in DOMAIN lastCcm :
         \/ c \in DOMAIN lastCcm' /\ lastCcm'[c] = lastCcm[c]
         \/ \E t \in Threads : Home[t] \in stale["ccm"] /\ thread[t].stage = "write" /\ thread'[t].stage # "write"]_vars
  /\ [](ccm = lastCcm \/ "ccm" \in spoilt \/ \E p \in Procs : "ccm" \in Rewriting(p))

(* "Status transitions are recorded in a JSONL log so the register is       *)
(* itself auditable": while no operation is under way the log's last word   *)
(* on an entry on file is its status, although sync logs before it saves    *)
(* and set_status after.  The two can differ where an operation on the      *)
(* entry was killed or ran beside another, and where a process that has not *)
(* read what another wrote saves, however much later, its own status of it. *)
(* Of a register that is empty or torn nothing is said.                     *)
LogTellsStatus ==
  (\A p \in Procs : ~Busy(p)) =>
    \A f \in DOMAIN register \ doubtful : f \in DOMAIN log /\ log[f] = register[f].status
=============================================================================
