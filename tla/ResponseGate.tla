---------------------------- MODULE ResponseGate ----------------------------
(***************************************************************************)
(* The gate in front of every response action: SecurityAgent.soc_respond,  *)
(* resolve_decision and approve (engine.py) over the decision queue        *)
(* (access.py) and the action policy (policy.py).                          *)
(*                                                                         *)
(* Processes share one workdir: `virgent soc respond` and `virgent decide` *)
(* run one call each, `virgent serve` resolves decisions in a thread per   *)
(* request, a program that embeds SecurityAgent makes many calls.  Each    *)
(* loads decisions.json once, when it starts, and writes the whole of its  *)
(* own copy at every change.  A call is the sequence of its effects on the *)
(* world: the executor's action, the save, the audit records.              *)
(***************************************************************************)
EXTENDS DecisionBroker, Sequences

PE == INSTANCE PolicyEngine

CONSTANTS Procs, Workers, Home,   \* processes, their threads, Home[w] = w's process
          Responders, Resolvers,  \* threads that call soc_respond, resolve_decision
          Incidents, Actions,     \* incidents; RESPONSE_ACTIONS they are met with
          Risks,                  \* risk scores an incident's severity can give it
          ApproverRoles,          \* roles named in calls of resolve_decision
          HandGrants,             \* patterns a human may pass to approve()
          Access, ActionRules,    \* policy.yaml: access, actions
          Exclusive,              \* TRUE: one process at a time
          MaxCalls, MaxStarts, MaxCrashes   \* bounds

ResponseActions ==
  [notify |-> "enrich", review |-> "observe", block_ip |-> "respond",
   disable_user |-> "respond", quarantine_file |-> "respond",
   isolate_host |-> "destructive"]

\* RESPONSE_ACTIONS.get(action, (action, Sensitivity.RESPOND))
SensitivityOf(a) == IF a \in DOMAIN ResponseActions THEN ResponseActions[a] ELSE "respond"

ASSUME GateAssumption ==
  /\ Home \in [Workers -> Procs]
  /\ Responders \subseteq Workers /\ Resolvers \subseteq Workers
  /\ Risks \subseteq Int /\ ApproverRoles \subseteq STRING
  /\ Access \in AccessBlocks
  /\ Exclusive \in BOOLEAN
  /\ MaxCalls \in Nat /\ MaxStarts \in Nat /\ MaxCrashes \in Nat

VARIABLES
  disk,       \* decisions.json
  mem,        \* mem[p]: DecisionBroker._requests
  grants,     \* grants[p]: PolicyEngine._approvals
  up,         \* up[p]: the process is running
  pc, loc,    \* where each thread is, and its local variables
  effects,    \* soc/responses.jsonl: the response actions executed
  trail,      \* audit.jsonl: what the gate wrote to the audit log
  opened,     \* number of requests opened: the source of ids
  approvals,  \* history: the approvals humans gave through resolve_decision
  calls, starts, crashes,
  run         \* history: run[p] is the number of p's last start

vars == <<disk, mem, grants, up, pc, loc, effects, trail, opened, approvals,
          calls, starts, run, crashes>>

\* A thread about to write an audit record is at the record's name.
AuditPoints == {"requested", "escalated", "resolved", "consumed", "executed", "granted"}
Locations   == {"idle", "execute", "consume", "resolve", "grant"} \cup AuditPoints

\* The local variables of soc_respond and of resolve_decision.
Responding(d, a, inc, level) ==
  [did |-> d, action |-> a, incident |-> inc, level |-> level, verdict |-> "none", role |-> "none"]

Resolving(d, verdict, role) ==
  [did |-> d, action |-> "none", incident |-> "none", level |-> "none", verdict |-> verdict, role |-> role]

NoLocals == Resolving(0, "none", "none")

Init ==
  /\ disk = NoRequests
  /\ mem = [p \in Procs |-> NoRequests]
  /\ grants = [p \in Procs |-> {}]
  /\ up = [p \in Procs |-> FALSE]
  /\ pc = [w \in Workers |-> "idle"]
  /\ loc = [w \in Workers |-> NoLocals]
  /\ effects = << >>
  /\ trail = << >>
  /\ opened = 0
  /\ approvals = {}
  /\ calls = 0 /\ starts = 0 /\ crashes = 0
  /\ run = [p \in Procs |-> 0]

-----------------------------------------------------------------------------
\* SecurityAgent.__init__: a broker that has read decisions.json, no grants.
Start(p) ==
  /\ ~up[p]
  /\ starts < MaxStarts
  /\ Exclusive => \A q \in Procs : ~up[q]
  /\ up' = [up EXCEPT ![p] = TRUE]
  /\ mem' = [mem EXCEPT ![p] = disk]
  /\ starts' = starts + 1
  /\ run' = [run EXCEPT ![p] = starts']
  /\ UNCHANGED <<disk, grants, pc, loc, effects, trail, opened, approvals, calls, crashes>>

Threads(p) == {w \in Workers : Home[w] = p}
AtRest(p)  == \A w \in Threads(p) : pc[w] = "idle"

\* The process ends; killed inside a call, it leaves the rest of it undone.
Stop(p) ==
  /\ up[p]
  /\ AtRest(p) \/ crashes < MaxCrashes
  /\ crashes' = IF AtRest(p) THEN crashes ELSE crashes + 1
  /\ up' = [up EXCEPT ![p] = FALSE]
  /\ mem' = [mem EXCEPT ![p] = NoRequests]
  /\ grants' = [grants EXCEPT ![p] = {}]
  /\ pc' = [w \in Workers |-> IF Home[w] = p THEN "idle" ELSE pc[w]]
  /\ loc' = [w \in Workers |-> IF Home[w] = p THEN NoLocals ELSE loc[w]]
  /\ UNCHANGED <<disk, effects, trail, opened, approvals, calls, starts, run>>

\* A thread of a running process takes the next call.
Called(w) ==
  /\ up[Home[w]]
  /\ pc[w] = "idle"
  /\ calls < MaxCalls
  /\ calls' = calls + 1

Goto(w, l, locals) ==
  /\ pc' = [pc EXCEPT ![w] = l]
  /\ loc' = [loc EXCEPT ![w] = IF l = "idle" THEN NoLocals ELSE locals]

-----------------------------------------------------------------------------
(* soc_respond(incident, a).  The risk is that of the incident's current   *)
(* severity, which correlation may have changed since an earlier call.     *)

Usable(p, inc, a) == ApprovedFor(mem[p], a, inc)

LevelOf(a, risk) == LevelFor(Access, SensitivityOf(a), risk)

MayProceed(p, inc, a, risk) ==
  \/ LevelOf(a, risk) \in {"auto", "notify"}
  \/ Usable(p, inc, a) # {}
  \/ PE!Standing(ActionRules, grants[p], a)

\* level == Autonomy.DENY: an audit record and a PolicyViolation.
Refuse(w, inc, a, risk) ==
  /\ Called(w)
  /\ LevelOf(a, risk) = "deny"
  /\ trail' = Append(trail, [event |-> "refused", did |-> 0])
  /\ UNCHANGED <<disk, mem, grants, up, pc, loc, effects, opened, approvals, starts, run, crashes>>

\* An approved decision is picked even when the action needs none.
Proceed(w, inc, a, risk) ==
  LET p == Home[w] IN
  /\ Called(w)
  /\ LevelOf(a, risk) # "deny"
  /\ MayProceed(p, inc, a, risk)
  /\ \E d \in IF Usable(p, inc, a) = {} THEN {0} ELSE Usable(p, inc, a) :
       Goto(w, "execute", Responding(d, a, inc, LevelOf(a, risk)))
  /\ UNCHANGED <<disk, mem, grants, up, effects, trail, opened, approvals, starts, run, crashes>>

\* DecisionBroker.open: a new request, saved before it is audited.
Ask(w, inc, a, risk) ==
  LET p   == Home[w]
      d   == opened + 1
      req == NewRequest(a, inc, RequiredRole(Access, SensitivityOf(a), risk))
  IN
  /\ Called(w)
  /\ LevelOf(a, risk) # "deny"
  /\ ~MayProceed(p, inc, a, risk)
  /\ mem' = [mem EXCEPT ![p] = Opened(@, d, req)]
  /\ disk' = mem'[p]
  /\ opened' = d
  /\ Goto(w, "requested", Responding(d, a, inc, LevelOf(a, risk)))
  /\ UNCHANGED <<grants, up, effects, trail, approvals, starts, run, crashes>>

Respond(w) ==
  /\ w \in Responders
  /\ \E inc \in Incidents, a \in Actions, risk \in Risks :
       Refuse(w, inc, a, risk) \/ Proceed(w, inc, a, risk) \/ Ask(w, inc, a, risk)

\* SOC.execute_action: the executor acts, the response is recorded.
Execute(w) ==
  /\ pc[w] = "execute"
  /\ effects' = Append(effects, [did |-> loc[w].did, action |-> loc[w].action,
                                 incident |-> loc[w].incident, level |-> loc[w].level,
                                 start |-> run[Home[w]]])
  /\ pc' = [pc EXCEPT ![w] = IF loc[w].did = 0 THEN "executed" ELSE "consume"]
  /\ UNCHANGED <<disk, mem, grants, up, loc, trail, opened, approvals, calls, starts, run, crashes>>

\* Mutants: the use is not saved; it is saved but not audited.
MarkConsumedInMemory(w) ==
  /\ pc[w] = "consume"
  /\ mem' = [mem EXCEPT ![Home[w]] = Consumed(@, loc[w].did)]
  /\ pc' = [pc EXCEPT ![w] = "consumed"]
  /\ UNCHANGED <<disk, grants, up, loc, effects, trail, opened, approvals, calls, starts, run, crashes>>

MarkConsumedUnlogged(w) ==
  LET p == Home[w] IN
  /\ pc[w] = "consume"
  /\ mem' = [mem EXCEPT ![p] = Consumed(@, loc[w].did)]
  /\ disk' = mem'[p]
  /\ pc' = [pc EXCEPT ![w] = "executed"]
  /\ UNCHANGED <<grants, up, loc, effects, trail, opened, approvals, calls, starts, run, crashes>>

\* DecisionBroker.mark_consumed
MarkConsumed(w) ==
  LET p == Home[w] IN
  /\ pc[w] = "consume"
  /\ mem' = [mem EXCEPT ![p] = Consumed(@, loc[w].did)]
  /\ disk' = mem'[p]
  /\ pc' = [pc EXCEPT ![w] = "consumed"]
  /\ UNCHANGED <<grants, up, loc, effects, trail, opened, approvals, calls, starts, run, crashes>>

-----------------------------------------------------------------------------
(* resolve_decision(d, verdict, resolver, role).  An unknown or already    *)
(* resolved decision raises and changes nothing.                           *)

Resolve(w) ==
  /\ w \in Resolvers
  /\ Called(w)
  /\ \E d \in Pending(mem[Home[w]]), verdict \in {"approve", "deny"}, role \in ApproverRoles :
       Goto(w, "resolve", Resolving(d, verdict, role))
  /\ UNCHANGED <<disk, mem, grants, up, effects, trail, opened, approvals, starts, run, crashes>>

\* Another thread may have resolved it since the check; it is not repeated.
CommitResolution(w) ==
  LET p   == Home[w]
      d   == loc[w].did
      req == mem[p][d]
      new == Resolved(Access, req, loc[w].verdict, loc[w].role)
      junior == TooJunior(Access, req, loc[w].verdict, loc[w].role)
  IN
  /\ pc[w] = "resolve"
  /\ mem' = [mem EXCEPT ![p][d] = new]
  /\ disk' = mem'[p]
  /\ approvals' = IF ~junior /\ loc[w].verdict = "approve"
                  THEN approvals \cup {[did |-> d, action |-> req.action,
                                        incident |-> req.incident,
                                        required |-> req.required, role |-> loc[w].role]}
                  ELSE approvals
  /\ pc' = [pc EXCEPT ![w] = IF junior THEN "escalated" ELSE "resolved"]
  /\ UNCHANGED <<grants, up, loc, effects, trail, opened, calls, starts, run, crashes>>

\* Back in the engine: an approved request also grants this run its action.
GrantApproved(w) ==
  LET p   == Home[w]
      req == mem[p][loc[w].did]
  IN
  /\ pc[w] = "grant"
  /\ \/ /\ req.status = "approved"
        /\ grants' = [grants EXCEPT ![p] = @ \cup {{req.action}}]
        /\ Goto(w, "granted", loc[w])
     \/ /\ req.status # "approved"
        /\ Goto(w, "idle", loc[w])
        /\ UNCHANGED grants
  /\ UNCHANGED <<disk, mem, up, effects, trail, opened, approvals, calls, starts, run, crashes>>

\* SecurityAgent.approve(pattern, approver)
Approve(w) ==
  /\ w \in Responders
  /\ Called(w)
  /\ \E pattern \in HandGrants :
       grants' = [grants EXCEPT ![Home[w]] = @ \cup {pattern}]
  /\ Goto(w, "granted", NoLocals)
  /\ UNCHANGED <<disk, mem, up, effects, trail, opened, approvals, starts, run, crashes>>

-----------------------------------------------------------------------------
\* Mutant: the record of a resolution leaves the verdict out.
EventWithoutVerdict(w) == [event |-> pc[w], did |-> loc[w].did]

\* The audit record that ends a stage of a call.
EventAt(w) ==
  [event |-> IF pc[w] = "resolved" THEN mem[Home[w]][loc[w].did].status ELSE pc[w],
   did   |-> loc[w].did]

\* Mutant: consuming the decision is the last thing audited.
AfterAuditOfUse(l) == IF l \in {"escalated", "resolved"} THEN "grant" ELSE "idle"

AfterAudit(l) ==
  CASE l \in {"escalated", "resolved"} -> "grant"
    [] l = "consumed" -> "executed"
    [] OTHER -> "idle"

Audit(w) ==
  /\ pc[w] \in AuditPoints
  /\ trail' = Append(trail, EventAt(w))
  /\ Goto(w, AfterAudit(pc[w]), loc[w])
  /\ UNCHANGED <<disk, mem, grants, up, effects, opened, approvals, calls, starts, run, crashes>>

\* What a call that has begun does next.
Step(w) ==
  \/ Execute(w) \/ MarkConsumed(w)
  \/ CommitResolution(w) \/ GrantApproved(w)
  \/ Audit(w)

Next ==
  \/ \E p \in Procs : Start(p) \/ Stop(p)
  \/ \E w \in Workers : Respond(w) \/ Resolve(w) \/ Approve(w) \/ Step(w)

Spec == Init /\ [][Next]_vars

\* The operating system keeps running the threads of a live process.
FairSpec == Spec /\ \A w \in Workers : WF_vars(Step(w))

-----------------------------------------------------------------------------
\* One thread per process: every process but `virgent serve`.
SingleThreaded == \A v, w \in Workers : Home[v] = Home[w] => v = w

Ids == 1..opened

Request == [action : Actions, incident : Incidents,
            required : STRING, status : Statuses, resolvedRole : STRING \cup {"none"},
            escalations : Nat, consumed : BOOLEAN]

IsQueue(requests, n) ==
  /\ DOMAIN requests \subseteq 1..n
  /\ \A d \in DOMAIN requests : requests[d] \in Request

Local == [did : Nat, action : Actions \cup {"none"}, incident : Incidents \cup {"none"},
          level : LevelNames \cup {"none"}, verdict : {"approve", "deny", "none"}, role : STRING \cup {"none"}]

Effect == [did : Nat, action : Actions \cup {"none"}, incident : Incidents \cup {"none"},
           level : LevelNames \cup {"none"}, start : Nat]

QueuesTyped ==
  /\ opened \in Nat
  /\ IsQueue(disk, opened)
  /\ DOMAIN mem = Procs /\ \A p \in Procs : IsQueue(mem[p], opened)

ThreadsTyped ==
  /\ pc \in [Workers -> Locations]
  /\ loc \in [Workers -> Local]

LogsTyped ==
  /\ effects \in Seq(Effect)
  /\ trail \in Seq([event : AuditPoints \cup Statuses \cup {"refused"}, did : Nat])

RunsTyped ==
  /\ up \in [Procs -> BOOLEAN]
  /\ grants \in [Procs -> SUBSET ({{a} : a \in Actions} \cup HandGrants)]
  /\ calls \in Nat /\ starts \in Nat /\ crashes \in Nat
  /\ run \in [Procs -> Nat]

\* Only a running process has busy threads, and a thread that works on a
\* decision has it in its process's memory.
ThreadsLive ==
  \A w \in Workers :
    /\ pc[w] # "idle" => up[Home[w]]
    /\ \/ pc[w] = "execute" /\ loc[w].did # 0
       \/ pc[w] \in {"consume", "resolve", "escalated", "resolved", "grant"}
       => loc[w].did \in DOMAIN mem[Home[w]]

TypeOK == QueuesTyped /\ ThreadsTyped /\ LogsTyped /\ RunsTyped /\ ThreadsLive

\* Among the approvals given, one of sufficient rank is of decision d for a, on inc.
Vouched(given, d, a, inc) ==
  \E app \in given :
    /\ app.did = d /\ app.action = a /\ app.incident = inc
    /\ MayApprove(Access, app.role, app.required)

UsesOf(d) == {i \in DOMAIN effects : effects[i].did = d}

(* Every action executed on the strength of a decision was approved by a   *)
(* human whose role ranks at least as high as the one required when the    *)
(* decision was asked for, for this very action and this very incident:    *)
(* through disk, copies in memory, several processes, threads and crashes. *)
EffectsAuthorised ==
  \A i \in DOMAIN effects :
    effects[i].did # 0 =>
      Vouched(approvals, effects[i].did, effects[i].action, effects[i].incident)

(* ARCHITECTURE.md: an approval authorises the action across processes and *)
(* "is consumed once (replay-protected)".  Processes that come one after   *)
(* another use a decision once more only for a crash inside soc_respond.   *)
RepeatsNeedCrashes ==
  \A d \in Ids : Cardinality(UsesOf(d)) <= 1 + crashes

(* What the queue on disk says of a decision is final: a decision does not *)
(* disappear, a verdict and its author do not change, a used decision does *)
(* not become usable again.                                                *)
DiskIsFinal ==
  [][\A d \in DOMAIN disk :
       /\ d \in DOMAIN disk'
       /\ disk[d].status # "pending" => /\ disk'[d].status = disk[d].status
                                        /\ disk'[d].resolvedRole = disk[d].resolvedRole
       /\ disk[d].consumed => disk'[d].consumed]_vars

(* The audit log never runs ahead of the queue: what it says was asked,    *)
(* decided or used is so on disk, even after a crash between the two.      *)
TrailBacked ==
  \A i \in DOMAIN trail :
    LET d == trail[i].did IN
    /\ trail[i].event \in {"requested", "escalated", "approved", "denied", "consumed"}
         => d \in DOMAIN disk
    /\ trail[i].event \in {"approved", "denied"} => disk[d].status = trail[i].event
    /\ trail[i].event = "consumed" => disk[d].consumed
    /\ trail[i].event = "executed" /\ d # 0 => UsesOf(d) # {}

\* The queue on disk, with a decision counted as used once its action ran.
OneShot == INSTANCE OneShotApproval WITH
  FreeActions <- {a \in Actions : \E risk \in Risks :
                    LevelOf(a, risk) \in {"auto", "notify"} \/ PE!Standing(ActionRules, {}, a)},
  decisions <- [d \in DOMAIN disk |->
                  [action |-> disk[d].action, incident |-> disk[d].incident,
                   state  |-> IF UsesOf(d) = {} THEN disk[d].status ELSE "used"]],
  standing  <- {a \in Actions : \E p \in Procs : PE!Granted(grants[p], a)},
  acts      <- [i \in DOMAIN effects |->
                  [did |-> effects[i].did, action |-> effects[i].action,
                   incident |-> effects[i].incident]]

(* Processes that come one after another and are not killed implement the  *)
(* promise: every executed action is free, granted, or uses up the one     *)
(* approved decision it names.                                             *)
ImplementsOneShot == OneShot!Spec

Mentions(event, d) == {i \in DOMAIN trail : trail[i].event = event /\ trail[i].did = d}

Before(S, T) == \A i \in S, j \in T : i < j

(* access.py: "Every request and resolution is persisted and audited, so   *)
(* the full decision trail ... is reconstructable": when no call is in     *)
(* progress the log tells of every decision, in the order it happened.     *)
TrailComplete ==
  (\A w \in Workers : pc[w] = "idle") =>
    /\ \A d \in DOMAIN disk :
         /\ Cardinality(Mentions("requested", d)) = 1
         /\ disk[d].status # "pending" => Cardinality(Mentions(disk[d].status, d)) = 1
         /\ disk[d].consumed => Cardinality(Mentions("consumed", d)) = 1
         /\ Before(Mentions("requested", d), Mentions(disk[d].status, d))
         /\ Before(Mentions(disk[d].status, d), Mentions("consumed", d))
         /\ Before(Mentions("consumed", d), Mentions("executed", d))

(* Whatever runs side by side, the audit log tells of every action that    *)
(* was executed, unless the process was killed before it could.            *)
ExecutionsAudited ==
  (\A w \in Workers : pc[w] = "idle") =>
    Len(effects) - Cardinality({i \in DOMAIN trail : trail[i].event = "executed"}) \in 0..crashes

(* Whatever runs side by side, no start of a process uses a decision       *)
(* twice: what it consumed stays consumed in the copy of the queue it      *)
(* picks from for as long as it runs.  (Another start may: its copy can be *)
(* older.)                                                                 *)
OneUsePerStart ==
  \A d \in Ids : \A i, j \in UsesOf(d) : effects[i].start = effects[j].start => i = j

(* Once a human's verdict is on disk the audit log comes to say so.        *)
VerdictsReachTheTrail ==
  \A d \in 1..MaxCalls :
    (d \in DOMAIN disk /\ disk[d].status # "pending")
      ~> (\E i \in DOMAIN trail : trail[i].did = d /\ trail[i].event \in {"approved", "denied"})

-----------------------------------------------------------------------------
(* README.md: "Approvals persist and are consumed once": as many actions   *)
(* that needed a human are executed as humans approved.                    *)
OneActionPerApproval ==
  \A a \in Actions :
    Cardinality({i \in DOMAIN effects :
                   effects[i].action = a /\ effects[i].level \notin {"auto", "notify"}})
      <= Cardinality({app \in approvals : app.action = a})
=============================================================================
