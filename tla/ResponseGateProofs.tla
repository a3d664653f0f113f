------------------------- MODULE ResponseGateProofs -------------------------
(***************************************************************************)
(* Proofs about the response gate (engine.py, access.py), for every value  *)
(* of its constants: who authorised what, how often an approval is used,   *)
(* what the audit log tells of it, and the step simulation of              *)
(* OneShotApproval.                                                        *)
(***************************************************************************)
EXTENDS ResponseGate, AutonomyPolicyProofs, FiniteSetTheorems,
        SequenceTheorems

-----------------------------------------------------------------------------
(* Type correctness. *)

(* Every response action has a tier. *)
LEMMA TierOfAction == \A a : SensitivityOf(a) \in TierNames
  BY DEF SensitivityOf, ResponseActions, TierNames, Tiers

(* A level of autonomy and a role the gate computes are what they should be. *)
LEMMA GateVerdicts ==
  ASSUME NEW a \in Actions, NEW risk \in Risks
  PROVE  /\ LevelOf(a, risk) \in LevelNames
         /\ RequiredRole(Access, SensitivityOf(a), risk) \in STRING
<1>1. SensitivityOf(a) \in TierNames /\ risk \in Int /\ Access \in AccessBlocks
  BY TierOfAction, GateAssumption
<1>2. Access.autonomy[SensitivityOf(a)] \in LevelNames
  BY <1>1 DEF AccessBlocks
<1>3. "confirm" \in LevelNames
  BY DEF LevelNames, Levels
<1>4. QED
  BY <1>1, <1>2, <1>3, RequiredRoleRank DEF LevelOf, LevelFor

(* The operations of the broker keep a queue a queue. *)
LEMMA OpenedQueue ==
  ASSUME NEW n \in Nat, NEW requests, IsQueue(requests, n), NEW req \in Request
  PROVE  IsQueue(Opened(requests, n + 1, req), n + 1)
<1>1. n + 1 \in 1..(n + 1) /\ 1..n \subseteq 1..(n + 1)
  OBVIOUS
<1>2. QED
  BY <1>1 DEF IsQueue, Opened

LEMMA QueueStays ==
  ASSUME NEW n \in Nat, NEW requests, IsQueue(requests, n)
  PROVE  IsQueue(requests, n + 1)
<1>1. 1..n \subseteq 1..(n + 1)
  OBVIOUS
<1>2. QED
  BY <1>1 DEF IsQueue

LEMMA ConsumedQueue ==
  ASSUME NEW n \in Nat, NEW requests, IsQueue(requests, n), NEW d
  PROVE  IsQueue(Consumed(requests, d), n)
  BY DEF IsQueue, Consumed, Request

LEMMA ResolvedRequest ==
  ASSUME NEW req \in Request, NEW verdict, NEW role \in STRING \cup {"none"}
  PROVE  Resolved(Access, req, verdict, role) \in Request
  BY DEF Resolved, RequestWith, Request, Statuses

(* The queues keep their types in every step. *)
LEMMA QueuesTypedStep ==
  ASSUME TypeOK, [Next]_vars
  PROVE  QueuesTyped'
<1> USE GateAssumption DEF TypeOK, QueuesTyped
<1>1. ASSUME NEW p \in Procs, Start(p) \/ Stop(p)
      PROVE  QueuesTyped'
  BY <1>1 DEF Start, Stop, IsQueue, NoRequests
<1>2. ASSUME NEW w \in Workers, NEW inc \in Incidents, NEW a \in Actions,
             NEW risk \in Risks, Ask(w, inc, a, risk)
      PROVE  QueuesTyped'
  <2> DEFINE req == NewRequest(a, inc, RequiredRole(Access, SensitivityOf(a), risk))
  <2>1. req \in Request
    BY GateVerdicts DEF NewRequest, RequestWith, Request, Statuses
  <2>2. /\ opened' = opened + 1
        /\ mem' = [mem EXCEPT ![Home[w]] = Opened(@, opened + 1, req)]
        /\ disk' = mem'[Home[w]]
    BY <1>2 DEF Ask
  <2>3. IsQueue(Opened(mem[Home[w]], opened + 1, req), opened + 1)
    BY <2>1, OpenedQueue
  <2>4. \A p \in Procs : IsQueue(mem[p], opened + 1)
    BY QueueStays
  <2>5. QED
    BY <2>2, <2>3, <2>4
<1>3. ASSUME NEW w \in Workers, MarkConsumed(w)
      PROVE  QueuesTyped'
  <2>1. IsQueue(Consumed(mem[Home[w]], loc[w].did), opened)
    BY ConsumedQueue
  <2>2. QED
    BY <1>3, <2>1 DEF MarkConsumed
<1>4. ASSUME NEW w \in Workers, CommitResolution(w)
      PROVE  QueuesTyped'
  <2> DEFINE p == Home[w]
             d == loc[w].did
             new == Resolved(Access, mem[p][d], loc[w].verdict, loc[w].role)
  <2>1. loc[w].role \in STRING \cup {"none"}
    BY DEF ThreadsTyped, Local
  <2>2. d \in DOMAIN mem[p] => new \in Request
    BY <2>1, ResolvedRequest DEF IsQueue
  <2>3. /\ mem' = [mem EXCEPT ![p] = [@ EXCEPT ![d] = new]]
        /\ disk' = mem'[p]
        /\ opened' = opened
    BY <1>4 DEF CommitResolution
  <2>4. IsQueue([mem[p] EXCEPT ![d] = new], opened)
    BY <2>2 DEF IsQueue
  <2>5. mem'[p] = [mem[p] EXCEPT ![d] = new] /\ \A q \in Procs : q # p => mem'[q] = mem[q]
    BY <2>3
  <2>6. QED
    BY <2>3, <2>4, <2>5
<1>5. ASSUME UNCHANGED <<opened, disk, mem>>
      PROVE  QueuesTyped'
  BY <1>5
<1>6. ASSUME NEW w \in Workers, Respond(w)
      PROVE  QueuesTyped'
  BY <1>2, <1>5, <1>6 DEF Respond, Refuse, Proceed
<1>7. ASSUME NEW w \in Workers, Resolve(w) \/ Approve(w)
      PROVE  QueuesTyped'
  BY <1>5, <1>7 DEF Resolve, Approve
<1>8. ASSUME NEW w \in Workers, Step(w)
      PROVE  QueuesTyped'
  BY <1>3, <1>4, <1>5, <1>8 DEF Step, Execute, GrantApproved, Audit
<1>9. CASE UNCHANGED vars
  BY <1>5, <1>9 DEF vars
<1>10. QED
  BY <1>1, <1>6, <1>7, <1>8, <1>9 DEF Next

(* So do the threads. *)
LEMMA ThreadsTypedStep ==
  ASSUME TypeOK, [Next]_vars
  PROVE  ThreadsTyped'
<1> USE GateAssumption DEF TypeOK, ThreadsTyped
<1>1. /\ NoLocals \in Local
      /\ \A d \in Nat, a \in Actions, inc \in Incidents, l \in LevelNames :
           Responding(d, a, inc, l) \in Local
      /\ \A d \in Nat, verdict \in {"approve", "deny"}, role \in STRING :
           Resolving(d, verdict, role) \in Local
  BY DEF NoLocals, Responding, Resolving, Local
<1>2. ASSUME NEW w \in Workers, NEW l \in Locations, NEW x \in Local, Goto(w, l, x)
      PROVE  ThreadsTyped'
  BY <1>1, <1>2 DEF Goto
<1>3. ASSUME NEW p \in Procs, NEW d \in DOMAIN mem[p]
      PROVE  d \in Nat
  BY DEF QueuesTyped, IsQueue
<1>4. ASSUME NEW p \in Procs, Start(p) \/ Stop(p)
      PROVE  ThreadsTyped'
  BY <1>1, <1>4 DEF Start, Stop, Locations
<1>5. ASSUME NEW w \in Workers, NEW inc \in Incidents, NEW a \in Actions,
             NEW risk \in Risks, Proceed(w, inc, a, risk)
      PROVE  ThreadsTyped'
  <2>1. PICK d \in IF Usable(Home[w], inc, a) = {} THEN {0} ELSE Usable(Home[w], inc, a) :
          Goto(w, "execute", Responding(d, a, inc, LevelOf(a, risk)))
    BY <1>5 DEF Proceed
  <2>2. d \in Nat
    BY <1>3 DEF Usable, ApprovedFor
  <2>3. QED
    BY <1>1, <1>2, <2>1, <2>2, GateVerdicts DEF Locations
<1>6. ASSUME NEW w \in Workers, NEW inc \in Incidents, NEW a \in Actions,
             NEW risk \in Risks, Ask(w, inc, a, risk)
      PROVE  ThreadsTyped'
  <2>1. Goto(w, "requested", Responding(opened + 1, a, inc, LevelOf(a, risk)))
    BY <1>6 DEF Ask
  <2>2. opened + 1 \in Nat
    BY DEF QueuesTyped
  <2>3. QED
    BY <1>1, <1>2, <2>1, <2>2, GateVerdicts DEF Locations, AuditPoints
<1>7. ASSUME NEW w \in Workers, Resolve(w)
      PROVE  ThreadsTyped'
  <2>1. PICK d \in Pending(mem[Home[w]]), verdict \in {"approve", "deny"},
             role \in ApproverRoles : Goto(w, "resolve", Resolving(d, verdict, role))
    BY <1>7 DEF Resolve
  <2>2. d \in Nat /\ role \in STRING
    BY <1>3 DEF Pending
  <2>3. QED
    BY <1>1, <1>2, <2>1, <2>2 DEF Locations
<1>8. ASSUME NEW w \in Workers, Approve(w)
      PROVE  ThreadsTyped'
  BY <1>1, <1>2, <1>8 DEF Approve, Locations, AuditPoints
<1>9. ASSUME NEW w \in Workers, Execute(w) \/ MarkConsumed(w) \/ CommitResolution(w)
      PROVE  ThreadsTyped'
  BY <1>9 DEF Execute, MarkConsumed, CommitResolution, Locations, AuditPoints
<1>10. ASSUME NEW w \in Workers, GrantApproved(w) \/ Audit(w)
       PROVE  ThreadsTyped'
  <2>1. loc[w] \in Local
    OBVIOUS
  <2>2. \A l : AfterAudit(l) \in Locations
    BY DEF AfterAudit, Locations, AuditPoints
  <2>3. QED
    BY <1>2, <1>10, <2>1, <2>2 DEF GrantApproved, Audit, Locations, AuditPoints
<1>11. ASSUME UNCHANGED <<pc, loc>>
       PROVE  ThreadsTyped'
  BY <1>11
<1>12. QED
  BY <1>4, <1>5, <1>6, <1>7, <1>8, <1>9, <1>10, <1>11
     DEF Next, Respond, Refuse, Step, vars

(* So do the logs. *)
LEMMA LogsTypedStep ==
  ASSUME TypeOK, [Next]_vars
  PROVE  LogsTyped'
<1> USE GateAssumption DEF TypeOK, LogsTyped
<1>1. ASSUME NEW w \in Workers, Execute(w)
      PROVE  LogsTyped'
  <2> DEFINE e == [did |-> loc[w].did, action |-> loc[w].action,
                   incident |-> loc[w].incident, level |-> loc[w].level,
                 start |-> run[Home[w]]]
  <2>1. e \in Effect
    BY DEF ThreadsTyped, Local, Effect, RunsTyped
  <2>2. effects' = Append(effects, e) /\ trail' = trail
    BY <1>1 DEF Execute
  <2>3. QED
    BY <2>1, <2>2
<1>2. ASSUME NEW w \in Workers, Audit(w)
      PROVE  LogsTyped'
  <2>1. loc[w].did \in Nat
    BY DEF ThreadsTyped, Local
  <2>2. EventAt(w).event \in AuditPoints \cup Statuses
    <3>1. pc[w] \in AuditPoints /\ Home[w] \in Procs
      BY <1>2 DEF Audit
    <3>2. ASSUME pc[w] = "resolved"
          PROVE  mem[Home[w]][loc[w].did].status \in Statuses
      <4>1. mem[Home[w]][loc[w].did] \in Request
        BY <3>1, <3>2 DEF ThreadsLive, QueuesTyped, IsQueue
      <4>2. QED
        BY <4>1 DEF Request
    <3>3. QED
      BY <3>1, <3>2 DEF EventAt
  <2>3. QED
    BY <1>2, <2>1, <2>2 DEF Audit, EventAt
<1>3. ASSUME NEW w \in Workers, Respond(w) \/ Resolve(w) \/ Approve(w)
      PROVE  LogsTyped'
  <2>1. CASE UNCHANGED <<effects, trail>>
    BY <2>1
  <2>2. CASE /\ UNCHANGED effects
             /\ trail' = Append(trail, [event |-> "refused", did |-> 0])
    BY <2>2
  <2>3. QED
    BY <1>3, <2>1, <2>2 DEF Respond, Refuse, Proceed, Ask, Resolve, Approve
<1>4. CASE UNCHANGED <<effects, trail>>
  BY <1>4
<1>5. QED
  BY <1>1, <1>2, <1>3, <1>4 DEF Next, Step, Start, Stop, MarkConsumed, CommitResolution,
     GrantApproved, vars

(* So do the processes, their grants and the counters. *)
LEMMA RunsTypedStep ==
  ASSUME TypeOK, [Next]_vars
  PROVE  RunsTyped'
<1> USE GateAssumption DEF TypeOK, RunsTyped
<1>1. ASSUME NEW p \in Procs, Start(p)
      PROVE  RunsTyped'
  BY <1>1 DEF Start
<1>2. ASSUME NEW p \in Procs, Stop(p)
      PROVE  RunsTyped'
  BY <1>2 DEF Stop
<1>3. ASSUME NEW w \in Workers, Respond(w) \/ Resolve(w)
      PROVE  RunsTyped'
  BY <1>3 DEF Respond, Refuse, Proceed, Ask, Resolve, Called
<1>4. ASSUME NEW w \in Workers, Approve(w)
      PROVE  RunsTyped'
  BY <1>4 DEF Approve, Called
<1>5. ASSUME NEW w \in Workers, GrantApproved(w)
      PROVE  RunsTyped'
  <2>1. Home[w] \in Procs /\ pc[w] = "grant"
    BY <1>5 DEF GrantApproved
  <2>2. mem[Home[w]][loc[w].did] \in Request
    BY <2>1 DEF ThreadsLive, QueuesTyped, IsQueue
  <2>3. mem[Home[w]][loc[w].did].action \in Actions
    BY <2>2 DEF Request
  <2>4. QED
    BY <1>5, <2>3 DEF GrantApproved
<1>6. CASE UNCHANGED <<up, grants, calls, starts, run, crashes>>
  BY <1>6
<1>7. QED
  BY <1>1, <1>2, <1>3, <1>4, <1>5, <1>6
     DEF Next, Step, Execute, MarkConsumed, CommitResolution, Audit, vars

(* A thread stays in its running process and keeps its decision. *)
LEMMA ThreadsLiveStep ==
  ASSUME TypeOK, [Next]_vars
  PROVE  ThreadsLive'
<1> USE GateAssumption DEF TypeOK, ThreadsTyped, ThreadsLive
<1>1. DOMAIN mem = Procs /\ up \in [Procs -> BOOLEAN]
  BY DEF QueuesTyped, RunsTyped
<1>2. ASSUME NEW p \in Procs, Start(p)
      PROVE  ThreadsLive'
  BY <1>1, <1>2 DEF Start
<1>3. ASSUME NEW p \in Procs, Stop(p)
      PROVE  ThreadsLive'
  BY <1>1, <1>3 DEF Stop
<1>4. ASSUME NEW w \in Workers, NEW inc \in Incidents, NEW a \in Actions,
             NEW risk \in Risks, Ask(w, inc, a, risk)
      PROVE  ThreadsLive'
  BY <1>1, <1>4 DEF Ask, Called, Opened, Goto
<1>5. ASSUME NEW w \in Workers, NEW inc \in Incidents, NEW a \in Actions,
             NEW risk \in Risks, Refuse(w, inc, a, risk) \/ Proceed(w, inc, a, risk)
      PROVE  ThreadsLive'
  BY <1>1, <1>5 DEF Refuse, Proceed, Called, Goto, Responding, Usable, ApprovedFor
<1>6. ASSUME NEW w \in Workers, Resolve(w)
      PROVE  ThreadsLive'
  BY <1>1, <1>6 DEF Resolve, Called, Goto, Pending, Resolving
<1>7. ASSUME NEW w \in Workers, Approve(w)
      PROVE  ThreadsLive'
  BY <1>1, <1>7 DEF Approve, Called, Goto
<1>8. ASSUME NEW w \in Workers, Step(w)
      PROVE  ThreadsLive'
  <2>1. CASE Execute(w)
    BY <2>1 DEF Execute
  <2>2. CASE MarkConsumed(w)
    BY <1>1, <2>2 DEF MarkConsumed, Consumed
  <2>3. CASE CommitResolution(w)
    BY <1>1, <2>3 DEF CommitResolution
  <2>4. CASE GrantApproved(w)
    BY <2>4 DEF GrantApproved, Goto
  <2>5. CASE Audit(w)
    BY <2>5 DEF Audit, Goto, AfterAudit, AuditPoints
  <2>6. QED
    BY <1>8, <2>1, <2>2, <2>3, <2>4, <2>5 DEF Step
<1>9. CASE UNCHANGED vars
  BY <1>9 DEF vars
<1>10. QED
  BY <1>2, <1>3, <1>4, <1>5, <1>6, <1>7, <1>8, <1>9 DEF Next, Respond

THEOREM TypeInvariant == Spec => []TypeOK
<1> USE GateAssumption
<1>1. Init => TypeOK
  <2> SUFFICES ASSUME Init PROVE TypeOK
    OBVIOUS
  <2>1. QueuesTyped
    BY DEF Init, QueuesTyped, IsQueue, NoRequests
  <2>2. ThreadsTyped
    BY DEF Init, ThreadsTyped, Local, NoLocals, Resolving, Locations
  <2>3. LogsTyped
    BY DEF Init, LogsTyped
  <2>4. RunsTyped
    BY DEF Init, RunsTyped
  <2>5. ThreadsLive
    BY DEF Init, ThreadsLive
  <2>6. QED
    BY <2>1, <2>2, <2>3, <2>4, <2>5 DEF TypeOK
<1>2. TypeOK /\ [Next]_vars => TypeOK'
  BY QueuesTypedStep, ThreadsTypedStep, LogsTypedStep, RunsTypedStep, ThreadsLiveStep
     DEF TypeOK
<1>3. QED
  BY <1>1, <1>2, PTL DEF Spec

-----------------------------------------------------------------------------
(* Authorisation: EffectsAuthorised, whatever runs side by side or crashes. *)

\* Every approved request, on disk or in a process's memory, was vouched for.
Backed(given, requests) ==
  \A d \in DOMAIN requests :
    requests[d].status = "approved" =>
      Vouched(given, d, requests[d].action, requests[d].incident)

AuthorisedInv ==
  /\ Backed(approvals, disk)
  /\ \A p \in Procs : Backed(approvals, mem[p])
  /\ \A w \in Workers : pc[w] = "execute" /\ loc[w].did # 0
       => Vouched(approvals, loc[w].did, loc[w].action, loc[w].incident)
  /\ EffectsAuthorised

(* Approvals are not withdrawn. *)
LEMMA VouchedStays ==
  ASSUME NEW given, NEW later, given \subseteq later, NEW d, NEW a, NEW inc,
         Vouched(given, d, a, inc)
  PROVE  Vouched(later, d, a, inc)
  BY DEF Vouched

LEMMA AuthorisedStep ==
  ASSUME TypeOK, AuthorisedInv, [Next]_vars
  PROVE  AuthorisedInv'
<1> USE GateAssumption DEF TypeOK, QueuesTyped, ThreadsTyped, AuthorisedInv
<1>1. ASSUME UNCHANGED <<disk, mem, approvals, effects>>,
             \A w \in Workers : pc'[w] = "execute" => pc[w] = "execute" /\ loc'[w] = loc[w]
      PROVE  AuthorisedInv'
  BY <1>1 DEF Backed, Vouched, EffectsAuthorised
<1>2. ASSUME NEW p \in Procs, Start(p) \/ Stop(p)
      PROVE  AuthorisedInv'
  BY <1>2 DEF Start, Stop, Backed, Vouched, EffectsAuthorised, NoRequests
<1>3. ASSUME NEW w \in Workers, NEW inc \in Incidents, NEW a \in Actions,
             NEW risk \in Risks, Proceed(w, inc, a, risk)
      PROVE  AuthorisedInv'
  <2>1. PICK d \in IF Usable(Home[w], inc, a) = {} THEN {0} ELSE Usable(Home[w], inc, a) :
          Goto(w, "execute", Responding(d, a, inc, LevelOf(a, risk)))
    BY <1>3 DEF Proceed
  <2>2. d # 0 => Vouched(approvals, d, a, inc)
    BY <2>1 DEF Usable, ApprovedFor, Backed
  <2>3. UNCHANGED <<disk, mem, approvals, effects>>
    BY <1>3 DEF Proceed
  <2>4. QED
    BY <2>1, <2>2, <2>3 DEF Goto, Responding, Backed, Vouched, EffectsAuthorised
<1>4. ASSUME NEW w \in Workers, NEW inc \in Incidents, NEW a \in Actions,
             NEW risk \in Risks, Ask(w, inc, a, risk)
      PROVE  AuthorisedInv'
  <2> DEFINE req == NewRequest(a, inc, RequiredRole(Access, SensitivityOf(a), risk))
             p   == Home[w]
  <2>1. /\ UNCHANGED <<approvals, effects>>
        /\ mem' = [mem EXCEPT ![p] = Opened(@, opened + 1, req)]
        /\ disk' = mem'[p]
        /\ Goto(w, "requested", Responding(opened + 1, a, inc, LevelOf(a, risk)))
    BY <1>4 DEF Ask
  <2>2. req.status = "pending"
    BY DEF NewRequest, RequestWith
  <2>3. Backed(approvals, Opened(mem[p], opened + 1, req))
    BY <2>2 DEF Backed, Opened
  <2>4. mem'[p] = Opened(mem[p], opened + 1, req) /\ \A q \in Procs : q # p => mem'[q] = mem[q]
    BY <2>1
  <2>5. \A v \in Workers : pc'[v] = "execute" => pc[v] = "execute" /\ loc'[v] = loc[v]
    BY <2>1 DEF Goto
  <2>6. QED
    BY <2>1, <2>3, <2>4, <2>5 DEF EffectsAuthorised
<1>5. ASSUME NEW w \in Workers, Execute(w)
      PROVE  AuthorisedInv'
  <2> DEFINE e == [did |-> loc[w].did, action |-> loc[w].action,
                   incident |-> loc[w].incident, level |-> loc[w].level,
                 start |-> run[Home[w]]]
  <2>1. effects' = Append(effects, e) /\ effects \in Seq(Effect) /\ e \in Effect
    BY <1>5, LogsTypedStep DEF Execute, LogsTyped, Effect, Local
  <2>2. e.did # 0 => Vouched(approvals, e.did, e.action, e.incident)
    BY <1>5 DEF Execute
  <2>3. EffectsAuthorised'
    BY <1>5, <2>1, <2>2 DEF EffectsAuthorised, Execute, Vouched
  <2>4. QED
    BY <1>5, <2>3 DEF Execute, Backed, Vouched
<1>6. ASSUME NEW w \in Workers, MarkConsumed(w)
      PROVE  AuthorisedInv'
  <2>1. Backed(approvals, Consumed(mem[Home[w]], loc[w].did))
    BY DEF Backed, Consumed, IsQueue, Request
  <2>2. QED
    BY <1>6, <2>1 DEF MarkConsumed, Backed, Vouched, EffectsAuthorised
<1>7. ASSUME NEW w \in Workers, CommitResolution(w)
      PROVE  AuthorisedInv'
  <2> DEFINE p == Home[w]
             d == loc[w].did
             req == mem[p][d]
             new == Resolved(Access, req, loc[w].verdict, loc[w].role)
  <2>1. /\ mem' = [mem EXCEPT ![p] = [@ EXCEPT ![d] = new]]
        /\ disk' = mem'[p]
        /\ effects' = effects /\ loc' = loc
        /\ pc' = [pc EXCEPT ![w] = pc'[w]] /\ pc'[w] # "execute"
        /\ approvals \subseteq approvals'
    BY <1>7 DEF CommitResolution
  <2>2. d \in DOMAIN mem[p] /\ req \in Request
    BY <1>7 DEF CommitResolution, ThreadsLive, IsQueue
  <2>3. new.action = req.action /\ new.incident = req.incident
    BY DEF Resolved, RequestWith
  <2>4. ASSUME new.status = "approved"
        PROVE  Vouched(approvals', d, req.action, req.incident)
    <3>1. CASE TooJunior(Access, req, loc[w].verdict, loc[w].role)
      <4>1. req.status = "approved"
        BY <2>4, <3>1 DEF Resolved, RequestWith
      <4>2. QED
        BY <2>1, <2>2, <4>1, VouchedStays DEF Backed
    <3>2. CASE ~TooJunior(Access, req, loc[w].verdict, loc[w].role)
      <4> DEFINE app == [did |-> d, action |-> req.action, incident |-> req.incident,
                         required |-> req.required, role |-> loc[w].role]
      <4>1. loc[w].verdict = "approve"
        BY <2>4, <3>2 DEF Resolved, RequestWith
      <4>2. MayApprove(Access, app.role, app.required)
        BY <3>2, <4>1 DEF TooJunior
      <4>3. app \in approvals'
        BY <1>7, <3>2, <4>1 DEF CommitResolution
      <4>4. QED
        BY <4>2, <4>3 DEF Vouched
    <3>3. QED
      BY <3>1, <3>2
  <2>5. Backed(approvals', [mem[p] EXCEPT ![d] = new])
    BY <2>1, <2>2, <2>3, <2>4, VouchedStays DEF Backed
  <2>6. \A q \in Procs : Backed(approvals', mem[q])
    BY <2>1, VouchedStays DEF Backed
  <2>7. QED
    BY <2>1, <2>5, <2>6, VouchedStays DEF EffectsAuthorised
<1>8. ASSUME NEW w \in Workers,
             Resolve(w) \/ Approve(w) \/ GrantApproved(w) \/ Audit(w)
      PROVE  AuthorisedInv'
  BY <1>1, <1>8 DEF Resolve, Approve, GrantApproved, Audit, Goto, AfterAudit
<1>9. ASSUME NEW w \in Workers, NEW inc \in Incidents, NEW a \in Actions,
             NEW risk \in Risks, Refuse(w, inc, a, risk)
      PROVE  AuthorisedInv'
  BY <1>1, <1>9 DEF Refuse
<1>10. CASE UNCHANGED vars
  BY <1>1, <1>10 DEF vars
<1>11. QED
  BY <1>2, <1>3, <1>4, <1>5, <1>6, <1>7, <1>8, <1>9, <1>10 DEF Next, Respond, Step

THEOREM Authorised == Spec => []EffectsAuthorised
<1>1. Init => AuthorisedInv
  BY DEF Init, AuthorisedInv, Backed, EffectsAuthorised, NoRequests
<1>2. TypeOK /\ AuthorisedInv /\ [Next]_vars => AuthorisedInv'
  BY AuthorisedStep
<1>3. AuthorisedInv => EffectsAuthorised
  BY DEF AuthorisedInv
<1>4. QED
  BY <1>1, <1>2, <1>3, TypeInvariant, PTL DEF Spec

-----------------------------------------------------------------------------
(* Processes of one thread each that come one after another, killed at any *)
(* moment (`virgent soc respond`, `virgent decide`): no call is disturbed  *)
(* by another, and the running process remembers what is on disk.          *)

\* The one running process remembers what is on disk.
MemoryIsDisk ==
  /\ \A p, q \in Procs : up[p] /\ up[q] => p = q
  /\ \A p \in Procs : up[p] => mem[p] = disk

LEMMA MemoryIsDiskStep ==
  ASSUME Exclusive, TypeOK, MemoryIsDisk, [Next]_vars
  PROVE  MemoryIsDisk'
<1> USE GateAssumption DEF TypeOK, QueuesTyped, ThreadsLive, MemoryIsDisk
<1>1. up \in [Procs -> BOOLEAN]
  BY DEF RunsTyped
<1>2. ASSUME NEW p \in Procs, Start(p)
      PROVE  MemoryIsDisk'
  BY <1>1, <1>2 DEF Start
<1>3. ASSUME NEW p \in Procs, Stop(p)
      PROVE  MemoryIsDisk'
  BY <1>1, <1>3 DEF Stop
<1>4. ASSUME NEW p \in Procs, up[p], UNCHANGED up, disk' = mem'[p]
      PROVE  MemoryIsDisk'
  BY <1>4
<1>5. ASSUME UNCHANGED <<up, mem, disk>>
      PROVE  MemoryIsDisk'
  BY <1>5
<1>6. ASSUME NEW w \in Workers, Respond(w)
      PROVE  MemoryIsDisk'
  BY <1>4, <1>5, <1>6 DEF Respond, Refuse, Proceed, Ask, Called
<1>7. ASSUME NEW w \in Workers, Resolve(w) \/ Approve(w)
      PROVE  MemoryIsDisk'
  BY <1>5, <1>7 DEF Resolve, Approve
<1>8. ASSUME NEW w \in Workers, Step(w)
      PROVE  MemoryIsDisk'
  BY <1>4, <1>5, <1>8
     DEF Step, Execute, MarkConsumed, CommitResolution, GrantApproved, Audit
<1>9. CASE UNCHANGED vars
  BY <1>5, <1>9 DEF vars
<1>10. QED
  BY <1>2, <1>3, <1>6, <1>7, <1>8, <1>9 DEF Next

\* Only approved decisions are used, and only those marked as used.
DiskSound ==
  /\ \A d \in DOMAIN disk : disk[d].consumed => disk[d].status = "approved"
  /\ \A i \in DOMAIN effects : effects[i].did # 0 =>
       /\ effects[i].did \in DOMAIN disk
       /\ disk[effects[i].did].status = "approved"

\* What needs no decision: it is free at some risk, or stands by a rule.
Free(a) ==
  \E risk \in Risks : LevelOf(a, risk) \in {"auto", "notify"} \/ PE!Standing(ActionRules, {}, a)

\* What a thread knows of the queue on disk while it is inside a call.
KnowsToAct(w) ==
  LET d == loc[w].did IN
  pc[w] = "execute" =>
    /\ loc[w].action \in Actions /\ loc[w].incident \in Incidents
    /\ d # 0 => /\ d \in DOMAIN disk
                /\ disk[d].status = "approved" /\ ~disk[d].consumed
                /\ disk[d].action = loc[w].action /\ disk[d].incident = loc[w].incident
    /\ d = 0 => Free(loc[w].action) \/ PE!Granted(grants[Home[w]], loc[w].action)

KnowsOfUse(w) ==
  LET d == loc[w].did IN
  /\ pc[w] = "consume" => d # 0 /\ d \in DOMAIN disk /\ disk[d].status = "approved"
  /\ pc[w] = "consumed" => d # 0 /\ d \in DOMAIN disk /\ disk[d].consumed
  /\ pc[w] \in {"consume", "consumed", "executed"} /\ d # 0 => UsesOf(d) # {}

KnowsOfVerdict(w) ==
  LET d == loc[w].did IN
  /\ pc[w] \in {"requested", "resolve", "escalated", "resolved"} => d \in DOMAIN disk
  /\ pc[w] = "resolve" => disk[d].status = "pending"
  /\ pc[w] = "resolved" => disk[d].status # "pending" /\ ~disk[d].consumed

Informed(w) == KnowsToAct(w) /\ KnowsOfUse(w) /\ KnowsOfVerdict(w)

CallInv == MemoryIsDisk /\ DiskSound /\ \A w \in Workers : Informed(w)

(* The threads of the other processes are idle. *)
LEMMA OneBusy ==
  ASSUME SingleThreaded, TypeOK, MemoryIsDisk, NEW w \in Workers, up[Home[w]]
  PROVE  \A v \in Workers : v # w => pc[v] = "idle"
<1> SUFFICES ASSUME NEW v \in Workers, pc[v] # "idle"
             PROVE  v = w
  OBVIOUS
<1>1. up[Home[v]] /\ Home[v] \in Procs /\ Home[w] \in Procs
  BY GateAssumption DEF TypeOK, ThreadsLive
<1>2. Home[v] = Home[w]
  BY <1>1 DEF MemoryIsDisk
<1>3. QED
  BY <1>2 DEF SingleThreaded

(* Decisions have positive numbers. *)
LEMMA IdsArePositive ==
  ASSUME TypeOK
  PROVE  /\ 0 \notin DOMAIN disk /\ opened + 1 \notin DOMAIN disk
         /\ \A d \in DOMAIN disk : d \in 1..opened /\ disk[d] \in Request
  BY DEF TypeOK, QueuesTyped, IsQueue

(* A grant apart, what stands now stands always. *)
LEMMA StandingIsFree ==
  ASSUME NEW a \in Actions, NEW risk \in Risks, NEW given,
         PE!Standing(ActionRules, given, a), ~PE!Granted(given, a)
  PROVE  Free(a)
<1>1. PE!Evaluate(ActionRules, given, a) = PE!Evaluate(ActionRules, {}, a)
  BY DEF PE!Evaluate, PE!Granted, PE!Match
<1>2. PE!Standing(ActionRules, {}, a)
  BY <1>1 DEF PE!Standing, PE!Allowed
<1>3. QED
  BY <1>2 DEF Free

LEMMA CallStep ==
  ASSUME SingleThreaded, TypeOK, CallInv, MemoryIsDisk', [Next]_vars
  PROVE  CallInv'
<1> USE GateAssumption
<1>1. \A v \in Workers : pc'[v] = "idle" => Informed(v)'
  BY DEF Informed, KnowsToAct, KnowsOfUse, KnowsOfVerdict
<1>2. DOMAIN mem = Procs /\ pc \in [Workers -> Locations] /\ loc \in [Workers -> Local]
      /\ MemoryIsDisk /\ DiskSound /\ up \in [Procs -> BOOLEAN]
  BY DEF TypeOK, QueuesTyped, ThreadsTyped, RunsTyped, CallInv
\* One thread makes the step; the others are idle.
<1>3. ASSUME NEW w \in Workers, up[Home[w]], \A v \in Workers : v # w => pc'[v] = pc[v],
             DiskSound', Informed(w)'
      PROVE  CallInv'
  <2>1. ASSUME NEW v \in Workers, v # w
        PROVE  Informed(v)'
    BY <1>1, <1>2, <1>3, <2>1, OneBusy
  <2>2. QED
    BY <1>3, <2>1 DEF CallInv
<1>4. ASSUME UNCHANGED <<disk, effects>>
      PROVE  DiskSound'
  BY <1>2, <1>4 DEF DiskSound
<1>5. ASSUME NEW p \in Procs, Start(p)
      PROVE  CallInv'
  <2>1. \A v \in Workers : pc'[v] = "idle"
    BY <1>2, <1>5 DEF Start, TypeOK, ThreadsLive, MemoryIsDisk
  <2>2. QED
    BY <1>1, <1>4, <1>5, <2>1 DEF Start, CallInv
<1>6. ASSUME NEW p \in Procs, Stop(p)
      PROVE  CallInv'
  <2>1. \A v \in Workers : pc'[v] = "idle"
    BY <1>2, <1>6 DEF Stop, TypeOK, ThreadsLive, MemoryIsDisk
  <2>2. QED
    BY <1>1, <1>4, <1>6, <2>1 DEF Stop, CallInv
<1>7. ASSUME NEW w \in Workers, NEW inc \in Incidents, NEW a \in Actions,
             NEW risk \in Risks, Refuse(w, inc, a, risk)
      PROVE  CallInv'
  BY <1>1, <1>2, <1>3, <1>4, <1>7 DEF Refuse, Called
<1>8. ASSUME NEW w \in Workers, NEW inc \in Incidents, NEW a \in Actions,
             NEW risk \in Risks, Proceed(w, inc, a, risk)
      PROVE  CallInv'
  <2>1. PICK d \in IF Usable(Home[w], inc, a) = {} THEN {0} ELSE Usable(Home[w], inc, a) :
          Goto(w, "execute", Responding(d, a, inc, LevelOf(a, risk)))
    BY <1>8 DEF Proceed
  <2>2. /\ UNCHANGED <<disk, effects, grants>> /\ up[Home[w]] /\ Home[w] \in Procs
        /\ mem[Home[w]] = disk /\ MayProceed(Home[w], inc, a, risk)
    BY <1>2, <1>8 DEF Proceed, Called, MemoryIsDisk
  <2>3. /\ pc' = [pc EXCEPT ![w] = "execute"]
        /\ loc' = [loc EXCEPT ![w] = Responding(d, a, inc, LevelOf(a, risk))]
    BY <2>1 DEF Goto
  <2>4. pc'[w] = "execute" /\ loc'[w].did = d /\ loc'[w].action = a /\ loc'[w].incident = inc
    BY <1>2, <2>3 DEF Responding
  <2>5. ASSUME d # 0
        PROVE  /\ d \in DOMAIN disk /\ disk[d].status = "approved" /\ ~disk[d].consumed
               /\ disk[d].action = a /\ disk[d].incident = inc
    BY <2>1, <2>2, <2>5 DEF Usable, ApprovedFor
  <2>6. ASSUME d = 0
        PROVE  Free(a) \/ PE!Granted(grants[Home[w]], a)
    <3>1. Usable(Home[w], inc, a) = {}
      BY <2>1, <2>2, <2>6, IdsArePositive DEF Usable, ApprovedFor
    <3>2. CASE LevelOf(a, risk) \in {"auto", "notify"}
      BY <3>2 DEF Free
    <3>3. CASE PE!Standing(ActionRules, grants[Home[w]], a)
      BY <3>3, StandingIsFree
    <3>4. QED
      BY <2>2, <3>1, <3>2, <3>3 DEF MayProceed
  <2>7. Informed(w)'
    BY <2>2, <2>4, <2>5, <2>6 DEF Informed, KnowsToAct, KnowsOfUse, KnowsOfVerdict
  <2>8. QED
    BY <1>3, <1>4, <2>2, <2>3, <2>7
<1>9. ASSUME NEW w \in Workers, NEW inc \in Incidents, NEW a \in Actions,
             NEW risk \in Risks, Ask(w, inc, a, risk)
      PROVE  CallInv'
  <2> DEFINE req == NewRequest(a, inc, RequiredRole(Access, SensitivityOf(a), risk))
             n   == opened + 1
  <2>1. /\ UNCHANGED effects /\ up[Home[w]] /\ Home[w] \in Procs
        /\ disk' = Opened(disk, n, req)
        /\ Goto(w, "requested", Responding(n, a, inc, LevelOf(a, risk)))
    BY <1>2, <1>9 DEF Ask, Called, MemoryIsDisk
  <2>2. /\ DOMAIN disk' = DOMAIN disk \cup {n} /\ disk'[n] = req
        /\ \A d \in DOMAIN disk : disk'[d] = disk[d]
    BY <2>1, IdsArePositive DEF Opened
  <2>3. ~req.consumed
    BY DEF NewRequest, RequestWith
  <2>4. DiskSound'
    BY <1>2, <2>1, <2>2, <2>3 DEF DiskSound
  <2>5. pc'[w] = "requested" /\ loc'[w].did = n /\ \A v \in Workers : v # w => pc'[v] = pc[v]
    BY <1>2, <2>1 DEF Goto, Responding
  <2>6. Informed(w)'
    BY <2>2, <2>5 DEF Informed, KnowsToAct, KnowsOfUse, KnowsOfVerdict
  <2>7. QED
    BY <1>3, <2>1, <2>4, <2>5, <2>6
<1>10. ASSUME NEW w \in Workers, Resolve(w)
       PROVE  CallInv'
  <2>1. PICK d \in Pending(mem[Home[w]]), verdict \in {"approve", "deny"},
             role \in ApproverRoles : Goto(w, "resolve", Resolving(d, verdict, role))
    BY <1>10 DEF Resolve
  <2>2. /\ UNCHANGED <<disk, effects>> /\ up[Home[w]] /\ mem[Home[w]] = disk
    BY <1>2, <1>10 DEF Resolve, Called, MemoryIsDisk
  <2>3. /\ pc'[w] = "resolve" /\ loc'[w].did = d
        /\ \A v \in Workers : v # w => pc'[v] = pc[v]
    BY <1>2, <2>1 DEF Goto, Resolving
  <2>4. d \in DOMAIN disk /\ disk[d].status = "pending"
    BY <2>1, <2>2 DEF Pending
  <2>5. Informed(w)'
    BY <2>2, <2>3, <2>4 DEF Informed, KnowsToAct, KnowsOfUse, KnowsOfVerdict
  <2>6. QED
    BY <1>3, <1>4, <2>2, <2>3, <2>5
<1>11. ASSUME NEW w \in Workers, Approve(w)
       PROVE  CallInv'
  <2>1. /\ UNCHANGED <<disk, effects>> /\ up[Home[w]] /\ pc' = [pc EXCEPT ![w] = "granted"]
    BY <1>11 DEF Approve, Called, Goto
  <2>2. pc'[w] = "granted" /\ \A v \in Workers : v # w => pc'[v] = pc[v]
    BY <1>2, <2>1
  <2>3. Informed(w)'
    BY <2>2 DEF Informed, KnowsToAct, KnowsOfUse, KnowsOfVerdict
  <2>4. QED
    BY <1>3, <1>4, <2>1, <2>2, <2>3
<1>12. ASSUME NEW w \in Workers, Execute(w)
       PROVE  CallInv'
  <2> DEFINE d == loc[w].did
             n == Len(effects)
  <2>1. /\ pc[w] = "execute" /\ UNCHANGED <<disk, loc>> /\ up[Home[w]]
        /\ effects \in Seq(Effect)
        /\ pc' = [pc EXCEPT ![w] = IF d = 0 THEN "executed" ELSE "consume"]
    BY <1>12 DEF Execute, TypeOK, LogsTyped, ThreadsLive
  <2>2. /\ DOMAIN effects' = DOMAIN effects \cup {n + 1}
        /\ \A i \in DOMAIN effects : effects'[i] = effects[i]
        /\ effects'[n + 1].did = d
    BY <1>12, <2>1 DEF Execute
  <2>3. Informed(w)
    BY DEF CallInv
  <2>4. d # 0 => d \in DOMAIN disk /\ disk[d].status = "approved"
    BY <2>1, <2>3 DEF Informed, KnowsToAct
  <2>5. DiskSound'
    BY <1>2, <2>1, <2>2, <2>4 DEF DiskSound
  <2>6. /\ pc'[w] = IF d = 0 THEN "executed" ELSE "consume"
        /\ \A v \in Workers : v # w => pc'[v] = pc[v]
    BY <1>2, <2>1
  <2>7. UsesOf(d)' # {}
    BY <2>1, <2>2 DEF UsesOf
  <2>8. Informed(w)'
    BY <2>1, <2>4, <2>6, <2>7 DEF Informed, KnowsToAct, KnowsOfUse, KnowsOfVerdict
  <2>9. QED
    BY <1>3, <2>1, <2>5, <2>6, <2>8
<1>13. ASSUME NEW w \in Workers, MarkConsumed(w)
       PROVE  CallInv'
  <2> DEFINE d == loc[w].did
  <2>1. /\ pc[w] = "consume" /\ UNCHANGED <<effects, loc>> /\ up[Home[w]]
        /\ mem[Home[w]] = disk /\ pc' = [pc EXCEPT ![w] = "consumed"]
        /\ disk' = Consumed(disk, d)
    BY <1>2, <1>13 DEF MarkConsumed, TypeOK, ThreadsLive, MemoryIsDisk
  <2>2. /\ d # 0 /\ d \in DOMAIN disk /\ disk[d].status = "approved" /\ UsesOf(d) # {}
    BY <2>1 DEF CallInv, Informed, KnowsOfUse
  <2>3. /\ DOMAIN disk' = DOMAIN disk
        /\ \A e \in DOMAIN disk : /\ disk'[e].status = disk[e].status
                                  /\ e # d => disk'[e] = disk[e]
        /\ disk'[d].consumed
    BY <2>1, <2>2, IdsArePositive DEF Consumed, Request
  <2>4. DiskSound'
    BY <1>2, <2>1, <2>2, <2>3 DEF DiskSound
  <2>5. pc'[w] = "consumed" /\ \A v \in Workers : v # w => pc'[v] = pc[v]
    BY <1>2, <2>1
  <2>6. Informed(w)'
    BY <2>1, <2>2, <2>3, <2>5 DEF Informed, KnowsToAct, KnowsOfUse, KnowsOfVerdict, UsesOf
  <2>7. QED
    BY <1>3, <2>1, <2>4, <2>5, <2>6
<1>14. ASSUME NEW w \in Workers, CommitResolution(w)
       PROVE  CallInv'
  <2> DEFINE d   == loc[w].did
             new == Resolved(Access, disk[d], loc[w].verdict, loc[w].role)
             junior == TooJunior(Access, disk[d], loc[w].verdict, loc[w].role)
  <2>1. /\ pc[w] = "resolve" /\ UNCHANGED <<effects, loc>> /\ up[Home[w]]
        /\ mem[Home[w]] = disk /\ Home[w] \in Procs
        /\ pc' = [pc EXCEPT ![w] = IF junior THEN "escalated" ELSE "resolved"]
    BY <1>2, <1>14 DEF CommitResolution, TypeOK, ThreadsLive, MemoryIsDisk
  <2>2. d \in DOMAIN disk /\ disk[d].status = "pending"
    BY <2>1 DEF CallInv, Informed, KnowsOfVerdict
  <2>3. disk' = [disk EXCEPT ![d] = new]
    BY <1>2, <1>14, <2>1 DEF CommitResolution
  <2>4. new.consumed = disk[d].consumed /\ (~junior => new.status # "pending")
    BY DEF Resolved, RequestWith
  <2>5. ~disk[d].consumed
    BY <1>2, <2>2 DEF DiskSound
  <2>6. DiskSound'
    BY <1>2, <2>1, <2>2, <2>3, <2>4, <2>5 DEF DiskSound
  <2>7. /\ pc'[w] = IF junior THEN "escalated" ELSE "resolved"
        /\ \A v \in Workers : v # w => pc'[v] = pc[v]
    BY <1>2, <2>1
  <2>8. Informed(w)'
    BY <2>1, <2>2, <2>3, <2>4, <2>5, <2>7
       DEF Informed, KnowsToAct, KnowsOfUse, KnowsOfVerdict
  <2>9. QED
    BY <1>3, <2>1, <2>6, <2>7, <2>8
<1>15. ASSUME NEW w \in Workers, GrantApproved(w)
       PROVE  CallInv'
  <2>1. /\ pc[w] = "grant" /\ UNCHANGED <<disk, effects>> /\ up[Home[w]]
        /\ \/ pc' = [pc EXCEPT ![w] = "granted"]
           \/ pc' = [pc EXCEPT ![w] = "idle"]
    BY <1>15 DEF GrantApproved, Goto, TypeOK, ThreadsLive
  <2>2. pc'[w] \in {"granted", "idle"} /\ \A v \in Workers : v # w => pc'[v] = pc[v]
    BY <1>2, <2>1
  <2>3. Informed(w)'
    BY <2>2 DEF Informed, KnowsToAct, KnowsOfUse, KnowsOfVerdict
  <2>4. QED
    BY <1>3, <1>4, <2>1, <2>2, <2>3
<1>16. ASSUME NEW w \in Workers, Audit(w)
       PROVE  CallInv'
  <2>1. /\ pc[w] \in AuditPoints /\ UNCHANGED <<disk, effects>> /\ up[Home[w]]
        /\ Goto(w, AfterAudit(pc[w]), loc[w])
    BY <1>16 DEF Audit, TypeOK, ThreadsLive, AuditPoints
  <2>2. \A v \in Workers : v # w => pc'[v] = pc[v]
    BY <2>1 DEF Goto
  <2>3. CASE pc[w] = "consumed"
    <3>1. pc'[w] = "executed" /\ loc'[w] = loc[w]
      BY <1>2, <2>1, <2>3 DEF Goto, AfterAudit
    <3>2. loc[w].did # 0 => UsesOf(loc[w].did) # {}
      BY <2>3 DEF CallInv, Informed, KnowsOfUse
    <3>3. Informed(w)'
      BY <2>1, <3>1, <3>2 DEF Informed, KnowsToAct, KnowsOfUse, KnowsOfVerdict, UsesOf
    <3>4. QED
      BY <1>3, <1>4, <2>1, <2>2, <3>3
  <2>4. CASE pc[w] # "consumed"
    <3>1. pc'[w] \in {"grant", "idle"}
      BY <1>2, <2>1, <2>4 DEF Goto, AfterAudit
    <3>2. Informed(w)'
      BY <3>1 DEF Informed, KnowsToAct, KnowsOfUse, KnowsOfVerdict
    <3>3. QED
      BY <1>3, <1>4, <2>1, <2>2, <3>2
  <2>5. QED
    BY <2>3, <2>4
<1>17. CASE UNCHANGED vars
  BY <1>4, <1>17 DEF vars, CallInv, Informed, KnowsToAct, KnowsOfUse, KnowsOfVerdict, UsesOf, Free
<1>18. QED
  BY <1>5, <1>6, <1>7, <1>8, <1>9, <1>10, <1>11, <1>12, <1>13, <1>14, <1>15, <1>16, <1>17
     DEF Next, Respond, Step

LEMMA CallsAreInformed ==
  ASSUME Exclusive, SingleThreaded
  PROVE  Spec => []CallInv
<1>1. Init => CallInv
  <2> SUFFICES ASSUME Init
               PROVE  CallInv
    OBVIOUS
  <2>1. MemoryIsDisk /\ DiskSound
    BY DEF Init, NoRequests, MemoryIsDisk, DiskSound
  <2>2. \A w \in Workers : Informed(w)
    BY DEF Init, Informed, KnowsToAct, KnowsOfUse, KnowsOfVerdict
  <2>3. QED
    BY <2>1, <2>2 DEF CallInv
<1>2. TypeOK /\ CallInv /\ [Next]_vars => CallInv'
  BY CallStep, MemoryIsDiskStep DEF CallInv
<1>3. QED
  BY <1>1, <1>2, TypeInvariant, PTL DEF Spec

(***************************************************************************)
(* The queue on disk: what a step may do to it.                            *)
(***************************************************************************)
LEMMA DiskStep ==
  ASSUME TypeOK, CallInv, [Next]_vars
  PROVE  \A d \in DOMAIN disk :
           /\ d \in DOMAIN disk'
           /\ disk[d].status # "pending" => /\ disk'[d].status = disk[d].status
                                            /\ disk'[d].resolvedRole = disk[d].resolvedRole
           /\ disk[d].consumed => disk'[d].consumed
<1> USE GateAssumption
<1> DEFINE Final == \A d \in DOMAIN disk :
             /\ d \in DOMAIN disk'
             /\ disk[d].status # "pending" => /\ disk'[d].status = disk[d].status
                                              /\ disk'[d].resolvedRole = disk[d].resolvedRole
             /\ disk[d].consumed => disk'[d].consumed
<1>1. DOMAIN mem = Procs /\ MemoryIsDisk
  BY DEF TypeOK, QueuesTyped, CallInv
<1>2. ASSUME UNCHANGED disk
      PROVE  Final
  BY <1>2
<1>3. ASSUME NEW w \in Workers, NEW inc \in Incidents, NEW a \in Actions,
             NEW risk \in Risks, Ask(w, inc, a, risk)
      PROVE  Final
  <2>1. PICK req : disk' = Opened(disk, opened + 1, req)
    BY <1>1, <1>3 DEF Ask, Called, MemoryIsDisk
  <2>2. QED
    BY <2>1, IdsArePositive DEF Opened
<1>4. ASSUME NEW w \in Workers, MarkConsumed(w)
      PROVE  Final
  <2>1. disk' = Consumed(disk, loc[w].did)
    BY <1>1, <1>4 DEF MarkConsumed, TypeOK, ThreadsLive, MemoryIsDisk
  <2>2. QED
    BY <2>1, IdsArePositive DEF Consumed, Request
<1>5. ASSUME NEW w \in Workers, CommitResolution(w)
      PROVE  Final
  <2> DEFINE d   == loc[w].did
             new == Resolved(Access, disk[d], loc[w].verdict, loc[w].role)
  <2>1. pc[w] = "resolve" /\ mem[Home[w]] = disk /\ disk' = [disk EXCEPT ![d] = new]
    BY <1>1, <1>5 DEF CommitResolution, TypeOK, ThreadsLive, MemoryIsDisk
  <2>2. disk[d].status = "pending"
    BY <2>1 DEF CallInv, Informed, KnowsOfVerdict
  <2>3. new.consumed = disk[d].consumed
    BY DEF Resolved, RequestWith
  <2>4. QED
    BY <2>1, <2>2, <2>3
<1>6. ASSUME NEW w \in Workers, Respond(w)
      PROVE  Final
  BY <1>2, <1>3, <1>6 DEF Respond, Refuse, Proceed
<1>7. ASSUME NEW w \in Workers, Step(w)
      PROVE  Final
  BY <1>2, <1>4, <1>5, <1>7 DEF Step, Execute, GrantApproved, Audit
<1>8. QED
  BY <1>2, <1>6, <1>7 DEF Next, Start, Stop, Resolve, Approve, vars

(* What the queue says of a decision is final, kills included: a decision  *)
(* stays, a verdict and its author stay, a used decision stays used.       *)
THEOREM VerdictsAreFinal ==
  ASSUME Exclusive, SingleThreaded
  PROVE  Spec => DiskIsFinal
<1>1. TypeOK /\ CallInv /\ [Next]_vars =>
        [\A d \in DOMAIN disk :
           /\ d \in DOMAIN disk'
           /\ disk[d].status # "pending" => /\ disk'[d].status = disk[d].status
                                            /\ disk'[d].resolvedRole = disk[d].resolvedRole
           /\ disk[d].consumed => disk'[d].consumed]_vars
  BY DiskStep
<1>2. QED
  BY <1>1, CallsAreInformed, TypeInvariant, PTL DEF Spec, DiskIsFinal

(* Only the execution of an action adds an effect, and it adds one. *)
LEMMA EffectsStay ==
  ASSUME [Next]_vars, \A w \in Workers : ~Execute(w)
  PROVE  effects' = effects
<1>1. ASSUME NEW w \in Workers, Respond(w) \/ Resolve(w) \/ Approve(w)
      PROVE  effects' = effects
  BY <1>1 DEF Respond, Refuse, Proceed, Ask, Resolve, Approve
<1>2. ASSUME NEW w \in Workers, Step(w), ~Execute(w)
      PROVE  effects' = effects
  BY <1>2 DEF Step, MarkConsumed, CommitResolution, GrantApproved, Audit
<1>3. QED
  BY <1>1, <1>2 DEF Next, Start, Stop, vars

LEMMA UsesGrow ==
  ASSUME TypeOK, NEW w \in Workers, Execute(w), NEW d
  PROVE  /\ d # loc[w].did => UsesOf(d)' = UsesOf(d)
         /\ d = loc[w].did => /\ UsesOf(d)' = UsesOf(d) \cup {Len(effects) + 1}
                              /\ Len(effects) + 1 \notin UsesOf(d)
<1> DEFINE e == [did |-> loc[w].did, action |-> loc[w].action,
                 incident |-> loc[w].incident, level |-> loc[w].level,
                 start |-> run[Home[w]]]
<1>1. effects \in Seq(Effect) /\ effects' = Append(effects, e) /\ e.did = loc[w].did
  BY DEF Execute, TypeOK, LogsTyped
<1>2. /\ DOMAIN effects' = DOMAIN effects \cup {Len(effects) + 1}
      /\ Len(effects) + 1 \notin DOMAIN effects
      /\ \A i \in DOMAIN effects : effects'[i] = effects[i]
      /\ effects'[Len(effects) + 1] = e
  BY <1>1
<1>3. QED
  BY <1>1, <1>2 DEF UsesOf

LEMMA UsesFinite ==
  ASSUME TypeOK, NEW d
  PROVE  IsFiniteSet(UsesOf(d)) /\ Cardinality(UsesOf(d)) \in Nat
<1>1. Len(effects) \in Nat /\ DOMAIN effects = 1..Len(effects)
  BY DEF TypeOK, LogsTyped
<1>2. IsFiniteSet(1..Len(effects)) /\ UsesOf(d) \in SUBSET (1..Len(effects))
  BY <1>1, FS_Interval DEF UsesOf
<1>3. IsFiniteSet(UsesOf(d))
  BY <1>2, FS_Subset
<1>4. QED
  BY <1>3, FS_CardinalityType

(* One more use of the decision at hand, none of another. *)
LEMMA UsesCounted ==
  ASSUME TypeOK, NEW w \in Workers, Execute(w), NEW d
  PROVE  Cardinality(UsesOf(d))' = Cardinality(UsesOf(d)) + IF d = loc[w].did THEN 1 ELSE 0
<1>1. CASE d = loc[w].did
  <2>1. UsesOf(d)' = UsesOf(d) \cup {Len(effects) + 1} /\ Len(effects) + 1 \notin UsesOf(d)
    BY <1>1, UsesGrow
  <2>2. Cardinality(UsesOf(d)') = Cardinality(UsesOf(d)) + 1
    BY <2>1, UsesFinite, FS_AddElement
  <2>3. QED
    BY <1>1, <2>2
<1>2. CASE d # loc[w].did
  <2>1. UsesOf(d)' = UsesOf(d)
    BY <1>2, UsesGrow
  <2>2. QED
    BY <1>2, <2>1, UsesFinite
<1>3. QED
  BY <1>1, <1>2

\* What one record of the trail says is so on disk and among the effects.
Backs(event, d) ==
  /\ event \in {"requested", "escalated", "approved", "denied", "consumed"} => d \in DOMAIN disk
  /\ event \in {"approved", "denied"} => disk[d].status = event
  /\ event = "consumed" => disk[d].consumed
  /\ event = "executed" /\ d # 0 => UsesOf(d) # {}

LEMMA BacksStays ==
  ASSUME TypeOK, CallInv, [Next]_vars, NEW event, NEW d, Backs(event, d)
  PROVE  Backs(event, d)'
<1>1. ASSUME UsesOf(d) # {}
      PROVE  UsesOf(d)' # {}
  <2>1. CASE effects' = effects
    BY <1>1, <2>1 DEF UsesOf
  <2>2. ASSUME NEW w \in Workers, Execute(w)
        PROVE  UsesOf(d)' # {}
    BY <1>1, <2>2, UsesGrow
  <2>3. QED
    BY <2>1, <2>2, EffectsStay
<1>2. d \in DOMAIN disk => /\ d \in DOMAIN disk'
                           /\ disk[d].status # "pending" => disk'[d].status = disk[d].status
                           /\ disk[d].consumed => disk'[d].consumed
  BY DiskStep
<1>3. QED
  BY <1>1, <1>2 DEF Backs

(* The audit log never runs ahead of the queue, wherever a process is      *)
(* killed: each call saves before it writes the record that tells of it.   *)
THEOREM TrailIsBacked ==
  ASSUME Exclusive, SingleThreaded
  PROVE  Spec => []TrailBacked
<1> USE GateAssumption
<1> DEFINE Told == \A i \in DOMAIN trail : Backs(trail[i].event, trail[i].did)
<1>1. Init => Told
  BY DEF Init
<1>2. TypeOK /\ CallInv /\ CallInv' /\ Told /\ [Next]_vars => Told'
  <2> SUFFICES ASSUME TypeOK, CallInv, CallInv', Told, [Next]_vars
               PROVE  Told'
    OBVIOUS
  <2>1. trail \in Seq([event : AuditPoints \cup Statuses \cup {"refused"}, did : Nat])
    BY DEF TypeOK, LogsTyped
  <2>2. \A x, y : Backs(x, y) => Backs(x, y)'
    BY BacksStays
  <2>3. CASE UNCHANGED trail
    <3>1. ASSUME NEW i \in DOMAIN trail'
          PROVE  Backs(trail[i].event, trail[i].did)'
      <4>1. Backs(trail[i].event, trail[i].did)
        BY <2>3, <3>1
      <4>2. PICK x, y : x = trail[i].event /\ y = trail[i].did
        OBVIOUS
      <4>3. Backs(x, y)'
        BY <2>2, <4>1, <4>2
      <4>4. x = trail'[i].event /\ y = trail'[i].did
        BY <2>3, <4>2
      <4>5. QED
        BY <4>3, <4>4 DEF Backs
    <3>2. QED
      BY <3>1
  <2>4. ASSUME NEW x, NEW y, Backs(x, y)', trail' = Append(trail, [event |-> x, did |-> y])
        PROVE  Told'
    <3>1. \A i \in DOMAIN trail' : \/ i \in DOMAIN trail /\ trail'[i] = trail[i]
                                   \/ trail'[i] = [event |-> x, did |-> y]
      BY <2>1, <2>4
    <3>2. ASSUME NEW i \in DOMAIN trail'
          PROVE  Backs(trail[i].event, trail[i].did)'
      <4>1. CASE i \in DOMAIN trail /\ trail'[i] = trail[i]
        <5>1. PICK e, d : e = trail[i].event /\ d = trail[i].did
          OBVIOUS
        <5>2. Backs(e, d)'
          BY <2>2, <4>1, <5>1
        <5>3. trail'[i].event = e /\ trail'[i].did = d
          BY <4>1, <5>1
        <5>4. QED
          BY <5>2, <5>3 DEF Backs, UsesOf
      <4>2. CASE trail'[i] = [event |-> x, did |-> y]
        BY <2>4, <4>2 DEF Backs, UsesOf
      <4>3. QED
        BY <3>1, <4>1, <4>2
    <3>3. QED
      BY <3>2
  <2>5. ASSUME NEW w \in Workers, NEW inc \in Incidents, NEW a \in Actions,
               NEW risk \in Risks, Refuse(w, inc, a, risk)
        PROVE  Told'
    <3>1. Backs("refused", 0)'
      BY DEF Backs
    <3>2. QED
      BY <2>4, <2>5, <3>1 DEF Refuse
  <2>6. ASSUME NEW w \in Workers, Audit(w)
        PROVE  Told'
    <3>1. /\ trail' = Append(trail, EventAt(w))
          /\ pc[w] \in AuditPoints /\ mem[Home[w]] = disk
      BY <2>6 DEF Audit, TypeOK, ThreadsLive, CallInv, MemoryIsDisk, AuditPoints
    <3>2. KnowsOfUse(w) /\ KnowsOfVerdict(w)
      BY DEF CallInv, Informed
    <3>3. PICK x, y : x = EventAt(w).event /\ y = EventAt(w).did
      OBVIOUS
    <3>4. EventAt(w) = [event |-> x, did |-> y] /\ y = loc[w].did
      BY <3>3 DEF EventAt
    <3>5. Backs(x, y)
      <4>1. CASE pc[w] = "resolved"
        <5>1. x = disk[y].status /\ y \in DOMAIN disk /\ ~disk[y].consumed
          BY <3>1, <3>2, <3>3, <3>4, <4>1 DEF EventAt, KnowsOfVerdict
        <5>2. x \in Statuses
          BY <5>1, IdsArePositive DEF Request
        <5>3. QED
          BY <5>1, <5>2 DEF Backs, Statuses
      <4>2. CASE pc[w] # "resolved"
        <5>1. x = pc[w]
          BY <3>3, <4>2 DEF EventAt
        <5>2. QED
          BY <3>1, <3>2, <3>4, <5>1, <4>2 DEF Backs, AuditPoints, KnowsOfUse, KnowsOfVerdict
      <4>3. QED
        BY <4>1, <4>2
    <3>6. QED
      BY <2>2, <2>4, <3>1, <3>4, <3>5
  <2>7. ASSUME NEW w \in Workers, Respond(w)
        PROVE  Told'
    BY <2>3, <2>5, <2>7 DEF Respond, Proceed, Ask
  <2>8. ASSUME NEW w \in Workers, Resolve(w) \/ Approve(w)
        PROVE  Told'
    BY <2>3, <2>8 DEF Resolve, Approve
  <2>9. ASSUME NEW w \in Workers, Step(w)
        PROVE  Told'
    BY <2>3, <2>6, <2>9 DEF Step, Execute, MarkConsumed, CommitResolution, GrantApproved
  <2>10. QED
    BY <2>3, <2>7, <2>8, <2>9 DEF Next, Start, Stop, vars
<1>3. Told => TrailBacked
  BY DEF Backs, TrailBacked
<1>4. QED
  BY <1>1, <1>2, <1>3, CallsAreInformed, TypeInvariant, PTL DEF Spec

-----------------------------------------------------------------------------
(* How often a decision is used: RepeatsNeedCrashes.                       *)

\* A decision no call can pick any more, unless the process is killed.
Spent(d) ==
  \/ d \in DOMAIN disk /\ disk[d].consumed
  \/ \E w \in Workers : pc[w] = "consume" /\ loc[w].did = d

\* Only a kill between the action and the save gives a decision back.
RepeatInv ==
  /\ crashes <= MaxCrashes
  /\ \A d \in Nat \ {0} :
       /\ Cardinality(UsesOf(d)) <= crashes + 1
       /\ ~Spent(d) => Cardinality(UsesOf(d)) <= crashes

LEMMA RepeatStep ==
  ASSUME SingleThreaded, TypeOK, CallInv, RepeatInv, [Next]_vars
  PROVE  RepeatInv'
<1> USE GateAssumption
<1>1. /\ pc \in [Workers -> Locations] /\ loc \in [Workers -> Local] /\ DOMAIN mem = Procs
      /\ crashes \in Nat /\ MaxCrashes \in Nat /\ MemoryIsDisk
      /\ \A d : Cardinality(UsesOf(d)) \in Nat
  BY UsesFinite DEF TypeOK, QueuesTyped, ThreadsTyped, RunsTyped, CallInv
\* A step that executes nothing and takes no thread out of "consume".
<1>2. ASSUME UNCHANGED <<effects, crashes>>,
             \A w \in Workers : pc[w] = "consume" =>
               \/ pc'[w] = "consume" /\ loc'[w] = loc[w]
               \/ loc[w].did \in DOMAIN disk' /\ disk'[loc[w].did].consumed
      PROVE  RepeatInv'
  <2>1. ASSUME NEW d, Spent(d)
        PROVE  Spent(d)'
    BY <1>2, <2>1, DiskStep DEF Spent
  <2>2. \A d : UsesOf(d)' = UsesOf(d)
    BY <1>2 DEF UsesOf
  <2>3. QED
    BY <1>2, <2>1, <2>2 DEF RepeatInv
<1>3. ASSUME NEW p \in Procs, Stop(p)
      PROVE  RepeatInv'
  <2>1. CASE AtRest(p)
    <3>1. \A w \in Workers : Home[w] = p => pc[w] = "idle"
      BY <2>1 DEF AtRest, Threads
    <3>2. UNCHANGED <<effects, crashes>>
      BY <1>3, <2>1 DEF Stop
    <3>3. \A w \in Workers : pc[w] = "consume" => pc'[w] = "consume" /\ loc'[w] = loc[w]
      BY <1>3, <3>1 DEF Stop
    <3>4. QED
      BY <1>2, <3>2, <3>3
  <2>2. CASE ~AtRest(p)
    <3>1. effects' = effects /\ crashes' = crashes + 1 /\ crashes < MaxCrashes
      BY <1>3, <2>2 DEF Stop
    <3>2. \A d : UsesOf(d)' = UsesOf(d)
      BY <3>1 DEF UsesOf
    <3>3. QED
      BY <1>1, <3>1, <3>2 DEF RepeatInv
  <2>3. QED
    BY <2>1, <2>2
<1>4. ASSUME NEW w \in Workers, Execute(w)
      PROVE  RepeatInv'
  <2> DEFINE e == loc[w].did
  <2>1. /\ pc[w] = "execute" /\ up[Home[w]] /\ UNCHANGED <<disk, loc, crashes>>
        /\ pc' = [pc EXCEPT ![w] = IF e = 0 THEN "executed" ELSE "consume"]
    BY <1>4 DEF Execute, TypeOK, ThreadsLive
  <2>2. \A v \in Workers : v # w => pc[v] = "idle"
    BY <1>1, <2>1, OneBusy
  <2>3. /\ e # 0 => ~Spent(e)
        /\ \A d \in Nat \ {0} : d = e => Spent(d)'
    <3>1. e # 0 => ~(e \in DOMAIN disk /\ disk[e].consumed)
      BY <2>1 DEF CallInv, Informed, KnowsToAct
    <3>2. e # 0 => ~Spent(e)
      BY <2>1, <2>2, <3>1 DEF Spent
    <3>3. e # 0 => pc'[w] = "consume" /\ loc'[w].did = e
      BY <1>1, <2>1
    <3>4. \A d \in Nat \ {0} : d = e => Spent(d)'
      BY <3>3 DEF Spent
    <3>5. QED
      BY <3>2, <3>4
  <2>4. ASSUME NEW d \in Nat \ {0}
        PROVE  /\ Cardinality(UsesOf(d))' <= crashes + 1
               /\ ~Spent(d)' => Cardinality(UsesOf(d))' <= crashes
    <3>1. CASE d = e
      <4>1. Cardinality(UsesOf(d)) <= crashes
        BY <2>3, <3>1 DEF RepeatInv
      <4>2. Cardinality(UsesOf(d))' = Cardinality(UsesOf(d)) + 1
        BY <1>4, <3>1, UsesCounted
      <4>3. QED
        BY <1>1, <2>3, <3>1, <4>1, <4>2
    <3>2. CASE d # e
      <4>1. Cardinality(UsesOf(d))' = Cardinality(UsesOf(d)) + 0
        BY <1>4, <3>2, UsesCounted
      <4>2. Spent(d) => Spent(d)'
        BY <2>1, <2>2, <3>2 DEF Spent
      <4>3. QED
        BY <1>1, <4>1, <4>2 DEF RepeatInv
    <3>3. QED
      BY <3>1, <3>2
  <2>5. QED
    BY <2>1, <2>4 DEF RepeatInv
<1>5. ASSUME NEW w \in Workers, MarkConsumed(w)
      PROVE  RepeatInv'
  <2>1. /\ UNCHANGED <<effects, crashes, loc>> /\ pc[w] = "consume"
        /\ pc' = [pc EXCEPT ![w] = "consumed"] /\ disk' = Consumed(disk, loc[w].did)
    BY <1>1, <1>5 DEF MarkConsumed, TypeOK, ThreadsLive, MemoryIsDisk
  <2>2. loc[w].did \in DOMAIN disk' /\ disk'[loc[w].did].consumed
    BY <2>1, IdsArePositive DEF CallInv, Informed, KnowsOfUse, Consumed, Request
  <2>3. \A v \in Workers : v # w => pc'[v] = pc[v]
    BY <2>1
  <2>4. QED
    BY <1>2, <2>1, <2>2, <2>3
<1>6. ASSUME NEW w \in Workers, Respond(w)
      PROVE  RepeatInv'
  <2>1. pc[w] = "idle" /\ UNCHANGED <<effects, crashes>>
    BY <1>6 DEF Respond, Refuse, Proceed, Ask, Called
  <2>2. \A v \in Workers : v # w => pc'[v] = pc[v] /\ loc'[v] = loc[v]
    BY <1>1, <1>6 DEF Respond, Refuse, Proceed, Ask, Goto
  <2>3. QED
    BY <1>2, <2>1, <2>2
<1>7. ASSUME NEW w \in Workers, Resolve(w) \/ Approve(w)
      PROVE  RepeatInv'
  <2>1. pc[w] = "idle" /\ UNCHANGED <<effects, crashes>>
    BY <1>7 DEF Resolve, Approve, Called
  <2>2. \A v \in Workers : v # w => pc'[v] = pc[v] /\ loc'[v] = loc[v]
    BY <1>1, <1>7 DEF Resolve, Approve, Goto
  <2>3. QED
    BY <1>2, <2>1, <2>2
<1>8. ASSUME NEW w \in Workers, CommitResolution(w) \/ GrantApproved(w) \/ Audit(w)
      PROVE  RepeatInv'
  <2>1. pc[w] # "consume" /\ UNCHANGED <<effects, crashes>>
    BY <1>8 DEF CommitResolution, GrantApproved, Audit, AuditPoints
  <2>2. \A v \in Workers : v # w => pc'[v] = pc[v] /\ loc'[v] = loc[v]
    BY <1>1, <1>8 DEF CommitResolution, GrantApproved, Audit, Goto
  <2>3. QED
    BY <1>2, <2>1, <2>2
<1>9. CASE UNCHANGED vars
  BY <1>2, <1>9 DEF vars
<1>10. ASSUME NEW p \in Procs, Start(p)
       PROVE  RepeatInv'
  BY <1>2, <1>10 DEF Start
<1>11. QED
  BY <1>3, <1>4, <1>5, <1>6, <1>7, <1>8, <1>9, <1>10 DEF Next, Step

LEMMA RepeatsAreBounded ==
  ASSUME Exclusive, SingleThreaded
  PROVE  Spec => []RepeatInv
<1>1. Init => RepeatInv
  <2> SUFFICES ASSUME Init
               PROVE  RepeatInv
    OBVIOUS
  <2>1. \A d : UsesOf(d) = {}
    BY DEF Init, UsesOf
  <2>2. \A d : Cardinality(UsesOf(d)) = 0
    BY <2>1, FS_EmptySet
  <2>3. crashes = 0 /\ MaxCrashes \in Nat
    BY GateAssumption DEF Init
  <2>4. QED
    BY <2>2, <2>3 DEF RepeatInv
<1>2. TypeOK /\ CallInv /\ RepeatInv /\ [Next]_vars => RepeatInv'
  BY RepeatStep
<1>3. QED
  BY <1>1, <1>2, CallsAreInformed, TypeInvariant, PTL DEF Spec

(* One thread per process, one process after another: a decision is used   *)
(* once more only for a process killed inside a call (between the action   *)
(* and mark_consumed, engine.py).                                          *)
THEOREM RepeatsAreCrashes ==
  ASSUME Exclusive, SingleThreaded
  PROVE  Spec => []RepeatsNeedCrashes
<1>1. TypeOK /\ RepeatInv => RepeatsNeedCrashes
  <2> SUFFICES ASSUME TypeOK, RepeatInv, NEW d \in Ids
               PROVE  Cardinality(UsesOf(d)) <= 1 + crashes
    BY DEF RepeatsNeedCrashes
  <2>1. d \in Nat \ {0} /\ crashes \in Nat
    BY DEF Ids, TypeOK, QueuesTyped, RunsTyped
  <2>2. Cardinality(UsesOf(d)) \in Nat
    BY UsesFinite
  <2>3. QED
    BY <2>1, <2>2 DEF RepeatInv
<1>2. QED
  BY <1>1, RepeatsAreBounded, TypeInvariant, PTL

-----------------------------------------------------------------------------
(* Refinement: processes of one thread each that come one after another    *)
(* and are not killed inside a call implement OneShotApproval.             *)

\* What the refinement mapping makes of the queue, the grants and the effects.
Mapped(d) ==
  [action |-> disk[d].action, incident |-> disk[d].incident,
   state  |-> IF UsesOf(d) = {} THEN disk[d].status ELSE "used"]

MappedQueue  == [d \in DOMAIN disk |-> Mapped(d)]
MappedGrants == {a \in Actions : \E p \in Procs : PE!Granted(grants[p], a)}
MappedActs   == [i \in DOMAIN effects |->
                   [did |-> effects[i].did, action |-> effects[i].action,
                    incident |-> effects[i].incident]]

FreeActions == {a \in Actions : Free(a)}

\* A process that does not run holds no grants.
GrantsAreOfRuns == \A p \in Procs : ~up[p] => grants[p] = {}

LEMMA GrantsStep ==
  ASSUME TypeOK, GrantsAreOfRuns, [Next]_vars
  PROVE  GrantsAreOfRuns'
<1> USE GateAssumption DEF GrantsAreOfRuns
<1>1. DOMAIN grants = Procs /\ up \in [Procs -> BOOLEAN]
  BY DEF TypeOK, RunsTyped
<1>2. ASSUME NEW w \in Workers, up[Home[w]], UNCHANGED up,
             \A p \in Procs : p # Home[w] => grants'[p] = grants[p]
      PROVE  GrantsAreOfRuns'
  BY <1>2
<1>3. ASSUME UNCHANGED <<up, grants>>
      PROVE  GrantsAreOfRuns'
  BY <1>3
<1>4. ASSUME NEW p \in Procs, Start(p) \/ Stop(p)
      PROVE  GrantsAreOfRuns'
  BY <1>1, <1>4 DEF Start, Stop
<1>5. ASSUME NEW w \in Workers, Respond(w) \/ Resolve(w)
      PROVE  GrantsAreOfRuns'
  BY <1>3, <1>5 DEF Respond, Refuse, Proceed, Ask, Resolve
<1>6. ASSUME NEW w \in Workers, Approve(w)
      PROVE  GrantsAreOfRuns'
  BY <1>1, <1>2, <1>6 DEF Approve, Called
<1>7. ASSUME NEW w \in Workers, GrantApproved(w)
      PROVE  GrantsAreOfRuns'
  BY <1>1, <1>2, <1>7 DEF GrantApproved, TypeOK, ThreadsLive
<1>8. ASSUME NEW w \in Workers, Execute(w) \/ MarkConsumed(w) \/ CommitResolution(w) \/ Audit(w)
      PROVE  GrantsAreOfRuns'
  BY <1>3, <1>8 DEF Execute, MarkConsumed, CommitResolution, Audit
<1>9. QED
  BY <1>3, <1>4, <1>5, <1>6, <1>7, <1>8 DEF Next, Step, vars

(* Steps of the abstract specification, in the words of the mapping.       *)
LEMMA MapsToAsk ==
  ASSUME NEW d \in DOMAIN MappedQueue', d \notin DOMAIN MappedQueue, d \in Nat \ {0},
         DOMAIN MappedQueue' = DOMAIN MappedQueue \cup {d},
         \A e \in DOMAIN MappedQueue : MappedQueue'[e] = MappedQueue[e],
         NEW a \in Actions, NEW inc \in Incidents,
         MappedQueue'[d] = [action |-> a, incident |-> inc, state |-> "pending"],
         UNCHANGED <<MappedGrants, MappedActs>>
  PROVE  OneShot!Next
  BY DEF OneShot!Next, OneShot!Ask, MappedQueue, Mapped, MappedGrants, MappedActs

LEMMA MapsToDecide ==
  ASSUME NEW d \in DOMAIN MappedQueue, MappedQueue[d].state = "pending",
         NEW verdict \in {"approved", "denied"},
         MappedQueue' = [MappedQueue EXCEPT ![d].state = verdict],
         UNCHANGED <<MappedGrants, MappedActs>>
  PROVE  OneShot!Next
<1>1. OneShot!Decide(d)
  BY DEF OneShot!Decide, MappedQueue, Mapped, MappedGrants, MappedActs
<1>2. QED
  BY <1>1 DEF OneShot!Next, MappedQueue, Mapped

LEMMA MapsToUse ==
  ASSUME NEW d \in DOMAIN MappedQueue, MappedQueue[d].state = "approved",
         MappedQueue' = [MappedQueue EXCEPT ![d].state = "used"],
         MappedActs' = Append(MappedActs, [did |-> d, action |-> MappedQueue[d].action,
                                           incident |-> MappedQueue[d].incident]),
         UNCHANGED MappedGrants
  PROVE  OneShot!Next
<1>1. OneShot!Use(d)
  BY DEF OneShot!Use, MappedQueue, Mapped, MappedGrants, MappedActs
<1>2. QED
  BY <1>1 DEF OneShot!Next, MappedQueue, Mapped

LEMMA MapsToActFreely ==
  ASSUME NEW a \in FreeActions \cup MappedGrants, NEW inc \in Incidents,
         MappedActs' = Append(MappedActs, [did |-> 0, action |-> a, incident |-> inc]),
         UNCHANGED <<MappedQueue, MappedGrants>>
  PROVE  OneShot!Next
  BY DEF OneShot!Next, OneShot!ActFreely, MappedQueue, Mapped, MappedGrants, MappedActs,
         FreeActions, Free

LEMMA MapsToGrant ==
  ASSUME MappedGrants \subseteq MappedGrants' \/ MappedGrants' = {},
         UNCHANGED <<MappedQueue, MappedActs>>
  PROVE  OneShot!Next
<1>1. MappedGrants' \in SUBSET Actions
  BY DEF MappedGrants
<1>2. QED
  BY <1>1 DEF OneShot!Next, OneShot!Grant, MappedQueue, Mapped, MappedGrants, MappedActs

LEMMA MapsToStutter ==
  ASSUME UNCHANGED <<MappedQueue, MappedGrants, MappedActs>>
  PROVE  UNCHANGED OneShot!vars
  BY DEF OneShot!vars, MappedQueue, Mapped, MappedGrants, MappedActs

(* A step that runs no action and leaves the queue's words unchanged.      *)
LEMMA QueueUnmoved ==
  ASSUME UNCHANGED effects, DOMAIN disk' = DOMAIN disk,
         \A d \in DOMAIN disk : /\ disk'[d].action = disk[d].action
                                /\ disk'[d].incident = disk[d].incident
                                /\ disk'[d].status = disk[d].status
  PROVE  UNCHANGED <<MappedQueue, MappedActs>>
<1>1. \A d : UsesOf(d)' = UsesOf(d)
  BY DEF UsesOf
<1>2. ASSUME NEW d \in DOMAIN disk
      PROVE  Mapped(d)' = Mapped(d)
  BY <1>1 DEF Mapped
<1>3. QED
  BY <1>2 DEF MappedQueue, MappedActs

(* A function on 1..n is a sequence, and what appending to it gives.       *)
LEMMA AppendTo ==
  ASSUME NEW S, NEW n \in Nat, NEW f \in [1..n -> S], NEW x \in S
  PROVE  Append(f, x) = [i \in 1..(n + 1) |-> IF i = n + 1 THEN x ELSE f[i]]
<1>1. f \in Seq(S)
  OBVIOUS
<1>2. Len(f) = n
  BY <1>1
<1> DEFINE h == [i \in 1..(n + 1) |-> IF i = n + 1 THEN x ELSE f[i]]
<1>3. h \in Seq(S) /\ Len(h) = n + 1
  <2>1. h \in [1..(n + 1) -> S]
    OBVIOUS
  <2>2. h \in Seq(S)
    BY <2>1
  <2>3. QED
    BY <2>2
<1>4. /\ Append(f, x) \in Seq(S) /\ Len(Append(f, x)) = n + 1
      /\ \A i \in 1..n : Append(f, x)[i] = f[i]
      /\ Append(f, x)[n + 1] = x
  BY <1>1, <1>2, AppendProperties
<1>5. \A i \in 1..Len(h) : Append(f, x)[i] = h[i]
  BY <1>3, <1>4
<1> HIDE DEF h
<1>6. Append(f, x) = h
  BY <1>3, <1>4, <1>5, SeqEqual
<1>7. QED
  BY <1>6 DEF h

LEMMA ActsAppended ==
  ASSUME TypeOK, NEW w \in Workers, Execute(w)
  PROVE  MappedActs' = Append(MappedActs, [did |-> loc[w].did, action |-> loc[w].action,
                                           incident |-> loc[w].incident])
<1> DEFINE e == [did |-> loc[w].did, action |-> loc[w].action,
                 incident |-> loc[w].incident, level |-> loc[w].level,
                 start |-> run[Home[w]]]
           act == [did |-> loc[w].did, action |-> loc[w].action,
                   incident |-> loc[w].incident]
           Act(x) == [did |-> x.did, action |-> x.action, incident |-> x.incident]
<1>1. effects \in Seq(Effect) /\ effects' = Append(effects, e)
  BY DEF Execute, TypeOK, LogsTyped
<1>2. PICK n \in Nat : n = Len(effects)
  BY <1>1
<1>3. /\ DOMAIN effects = 1..n /\ DOMAIN effects' = 1..(n + 1)
      /\ effects'[n + 1] = e /\ \A i \in 1..n : effects'[i] = effects[i]
  BY <1>1, <1>2
<1>4. MappedActs = [i \in 1..n |-> Act(effects[i])]
  BY <1>3 DEF MappedActs
<1>5. MappedActs' = [i \in 1..(n + 1) |-> Act(effects'[i])]
  BY <1>3 DEF MappedActs
<1>6. PICK acts, a : acts = MappedActs /\ a = act
  OBVIOUS
<1>7. Append(acts, a) = [i \in 1..(n + 1) |-> IF i = n + 1 THEN a ELSE acts[i]]
  <2>1. acts = [i \in 1..n |-> Act(effects[i])]
    BY <1>4, <1>6
  <2>2. PICK S : S = {acts[i] : i \in 1..n} \cup {a}
    OBVIOUS
  <2>3. acts \in [1..n -> S] /\ a \in S
    BY <2>1, <2>2
  <2>4. QED
    BY <2>3, AppendTo
<1>8. \A i \in 1..(n + 1) : Act(effects'[i]) = IF i = n + 1 THEN a ELSE acts[i]
  <2>1. Act(effects'[n + 1]) = a
    BY <1>3, <1>6
  <2>2. \A i \in 1..n : Act(effects'[i]) = acts[i]
    BY <1>3, <1>4, <1>6
  <2>3. \A i \in 1..(n + 1) : i = n + 1 \/ i \in 1..n
    OBVIOUS
  <2>4. n + 1 \notin 1..n
    OBVIOUS
  <2>5. QED
    BY <2>1, <2>2, <2>3, <2>4
<1>9. MappedActs' = Append(acts, a)
  BY <1>5, <1>7, <1>8
<1>10. QED
  BY <1>6, <1>9

LEMMA StepMaps ==
  ASSUME SingleThreaded, MaxCrashes = 0, TypeOK, CallInv, RepeatInv, GrantsAreOfRuns,
         [Next]_vars
  PROVE  [OneShot!Next]_(OneShot!vars)
<1> DEFINE Goal == OneShot!Next \/ UNCHANGED OneShot!vars
<1> USE GateAssumption
<1>1. /\ pc \in [Workers -> Locations] /\ loc \in [Workers -> Local]
      /\ DOMAIN mem = Procs /\ DOMAIN grants = Procs
      /\ MemoryIsDisk /\ DiskSound /\ crashes = 0
  BY DEF TypeOK, QueuesTyped, ThreadsTyped, RunsTyped, CallInv, RepeatInv
<1>2. ASSUME UNCHANGED <<MappedQueue, MappedGrants, MappedActs>>
      PROVE  Goal
  BY <1>2, MapsToStutter
<1>3. ASSUME UNCHANGED <<disk, effects, grants>>
      PROVE  Goal
  BY <1>2, <1>3, QueueUnmoved DEF MappedGrants
\* More grants, or none once the process ends.
<1>4. ASSUME UNCHANGED <<disk, effects>>,
             (\A p \in Procs : grants[p] \subseteq grants'[p]) \/ (\A p \in Procs : grants'[p] = {})
      PROVE  Goal
  <2>1. UNCHANGED <<MappedQueue, MappedActs>>
    BY <1>4, QueueUnmoved
  <2>2. MappedGrants \subseteq MappedGrants' \/ MappedGrants' = {}
    BY <1>4 DEF MappedGrants, PE!Granted, PE!Match
  <2>3. QED
    BY <2>1, <2>2, MapsToGrant
<1>5. ASSUME NEW p \in Procs, Stop(p)
      PROVE  Goal
  <2>1. \A q \in Procs : q # p => grants[q] = {}
    BY <1>1, <1>5 DEF Stop, MemoryIsDisk, GrantsAreOfRuns
  <2>2. \A q \in Procs : grants'[q] = {}
    BY <1>1, <1>5, <2>1 DEF Stop
  <2>3. QED
    BY <1>4, <1>5, <2>2 DEF Stop
<1>6. ASSUME NEW w \in Workers, NEW inc \in Incidents, NEW a \in Actions,
             NEW risk \in Risks, Ask(w, inc, a, risk)
      PROVE  Goal
  <2> DEFINE req == NewRequest(a, inc, RequiredRole(Access, SensitivityOf(a), risk))
  <2>1. PICK n \in Nat \ {0} : n = opened + 1
    BY DEF TypeOK, QueuesTyped
  <2>2. UNCHANGED <<effects, grants>> /\ disk' = Opened(disk, n, req) /\ n \notin DOMAIN disk
    BY <1>1, <1>6, <2>1, IdsArePositive DEF Ask, Called, MemoryIsDisk
  <2>3. /\ DOMAIN disk' = DOMAIN disk \cup {n} /\ disk'[n] = req
        /\ \A d \in DOMAIN disk : disk'[d] = disk[d]
    BY <2>2 DEF Opened
  <2>4. \A d : UsesOf(d)' = UsesOf(d)
    BY <2>2 DEF UsesOf
  <2>5. UsesOf(n) = {}
    BY <1>1, <2>2 DEF UsesOf, DiskSound
  <2>6. Mapped(n)' = [action |-> a, incident |-> inc, state |-> "pending"]
    BY <2>3, <2>4, <2>5 DEF Mapped, NewRequest, RequestWith
  <2>7. \A d \in DOMAIN disk : Mapped(d)' = Mapped(d)
    BY <2>3, <2>4 DEF Mapped
  <2>8. /\ DOMAIN MappedQueue = DOMAIN disk /\ DOMAIN MappedQueue' = DOMAIN disk \cup {n}
        /\ MappedQueue'[n] = Mapped(n)'
        /\ \A d \in DOMAIN disk : MappedQueue'[d] = MappedQueue[d]
    BY <2>3, <2>7 DEF MappedQueue
  <2>9. UNCHANGED <<MappedGrants, MappedActs>>
    BY <2>2 DEF MappedGrants, MappedActs
  <2>10. QED
    BY <2>2, <2>6, <2>8, <2>9, MapsToAsk
<1>7. ASSUME NEW w \in Workers, Execute(w)
      PROVE  Goal
  <2>1. PICK d \in Nat, a \in Actions, inc \in Incidents :
          loc[w].did = d /\ loc[w].action = a /\ loc[w].incident = inc
    BY <1>1, <1>7 DEF Execute, Local, CallInv, Informed, KnowsToAct
  <2>2. /\ pc[w] = "execute" /\ UNCHANGED <<disk, grants>> /\ KnowsToAct(w)
        /\ Home[w] \in Procs
    BY <1>7 DEF Execute, CallInv, Informed
  <2>3. UNCHANGED MappedGrants
    BY <2>2 DEF MappedGrants
  <2>4. MappedActs' = Append(MappedActs, [did |-> d, action |-> a, incident |-> inc])
    BY <1>7, <2>1, ActsAppended
  <2>5. CASE d = 0
    <3>1. ASSUME NEW e \in DOMAIN disk
          PROVE  Mapped(e)' = Mapped(e)
      <4>1. UsesOf(e)' = UsesOf(e)
        BY <1>7, <2>1, <2>5, UsesGrow, IdsArePositive
      <4>2. QED
        BY <2>2, <4>1 DEF Mapped
    <3>2. UNCHANGED MappedQueue
      BY <2>2, <3>1 DEF MappedQueue
    <3>3. a \in FreeActions \cup MappedGrants
      BY <2>1, <2>2, <2>5 DEF KnowsToAct, FreeActions, MappedGrants
    <3>4. QED
      BY <2>3, <2>4, <2>5, <3>2, <3>3, MapsToActFreely
  <2>6. CASE d # 0
    <3>1. /\ d \in DOMAIN disk /\ disk[d].status = "approved" /\ ~disk[d].consumed
          /\ disk[d].action = a /\ disk[d].incident = inc
      BY <2>1, <2>2, <2>6 DEF KnowsToAct
    <3>2. ~Spent(d)
      <4>1. up[Home[w]]
        BY <2>2 DEF TypeOK, ThreadsLive
      <4>2. \A v \in Workers : v # w => pc[v] = "idle"
        BY <1>1, <4>1, OneBusy
      <4>3. QED
        BY <2>2, <3>1, <4>2 DEF Spent
    <3>3. UsesOf(d) = {}
      <4>1. IsFiniteSet(UsesOf(d)) /\ Cardinality(UsesOf(d)) \in Nat
        BY UsesFinite
      <4>2. Cardinality(UsesOf(d)) <= 0
        BY <1>1, <2>6, <3>2 DEF RepeatInv
      <4>3. Cardinality(UsesOf(d)) = 0
        BY <4>1, <4>2
      <4>4. QED
        BY <4>1, <4>3, FS_EmptySet
    <3>4. UsesOf(d)' # {} /\ \A e : e # d => UsesOf(e)' = UsesOf(e)
      <4>1. UsesOf(d)' # {}
        BY <1>7, <2>1, UsesGrow
      <4>2. \A e : e # d => UsesOf(e)' = UsesOf(e)
        BY <1>7, <2>1, UsesGrow
      <4>3. QED
        BY <4>1, <4>2
    <3>5. /\ Mapped(d) = [action |-> a, incident |-> inc, state |-> "approved"]
          /\ Mapped(d)' = [action |-> a, incident |-> inc, state |-> "used"]
          /\ \A e \in DOMAIN disk : e # d => Mapped(e)' = Mapped(e)
      BY <2>2, <3>1, <3>3, <3>4 DEF Mapped
    <3>6. MappedQueue' = [MappedQueue EXCEPT ![d].state = "used"]
      <4>1. /\ DOMAIN MappedQueue = DOMAIN disk /\ MappedQueue[d] = Mapped(d)
            /\ MappedQueue' = [e \in DOMAIN disk |-> Mapped(e)']
            /\ \A e \in DOMAIN disk : MappedQueue[e] = Mapped(e)
        BY <2>2, <3>1 DEF MappedQueue
      <4>2. [MappedQueue EXCEPT ![d].state = "used"]
              = [e \in DOMAIN disk |-> IF e = d THEN [Mapped(d) EXCEPT !.state = "used"]
                                       ELSE Mapped(e)]
        BY <3>1, <4>1 DEF MappedQueue
      <4>3. [Mapped(d) EXCEPT !.state = "used"] = Mapped(d)'
        BY <3>5
      <4>4. QED
        BY <3>5, <4>1, <4>2, <4>3
    <3>7. /\ d \in DOMAIN MappedQueue /\ MappedQueue[d].state = "approved"
          /\ MappedQueue[d].action = a /\ MappedQueue[d].incident = inc
      BY <3>1, <3>5 DEF MappedQueue
    <3>8. QED
      BY <2>3, <2>4, <3>6, <3>7, MapsToUse
  <2>7. QED
    BY <2>5, <2>6
<1>8. ASSUME NEW w \in Workers, MarkConsumed(w)
      PROVE  Goal
  <2>1. UNCHANGED <<effects, grants>> /\ disk' = Consumed(disk, loc[w].did)
    BY <1>1, <1>8 DEF MarkConsumed, TypeOK, ThreadsLive, MemoryIsDisk
  <2>2. /\ DOMAIN disk' = DOMAIN disk
        /\ \A d \in DOMAIN disk : /\ disk'[d].action = disk[d].action
                                  /\ disk'[d].incident = disk[d].incident
                                  /\ disk'[d].status = disk[d].status
    BY <2>1, IdsArePositive DEF Consumed, Request
  <2>3. UNCHANGED MappedGrants
    BY <2>1 DEF MappedGrants
  <2>4. QED
    BY <1>2, <2>1, <2>2, <2>3, QueueUnmoved
<1>9. ASSUME NEW w \in Workers, CommitResolution(w)
      PROVE  Goal
  <2> DEFINE new(d) == Resolved(Access, disk[d], loc[w].verdict, loc[w].role)
  <2>1. PICK d : d = loc[w].did
    OBVIOUS
  <2>2. /\ pc[w] = "resolve" /\ UNCHANGED <<effects, grants>>
        /\ mem[Home[w]] = disk /\ disk' = [disk EXCEPT ![d] = new(d)]
    BY <1>1, <1>9, <2>1 DEF CommitResolution, TypeOK, ThreadsLive, MemoryIsDisk
  <2>3. d \in DOMAIN disk /\ disk[d].status = "pending"
    BY <2>1, <2>2 DEF CallInv, Informed, KnowsOfVerdict
  <2>4. new(d).action = disk[d].action /\ new(d).incident = disk[d].incident
    BY DEF Resolved, RequestWith
  <2>5. UNCHANGED MappedGrants
    BY <2>2 DEF MappedGrants
  <2>6. CASE new(d).status = "pending"
    <3>1. UNCHANGED <<MappedQueue, MappedActs>>
      BY <2>2, <2>3, <2>4, <2>6, QueueUnmoved
    <3>2. QED
      BY <1>2, <2>5, <3>1
  <2>7. CASE new(d).status # "pending"
    <3>1. PICK verdict \in {"approved", "denied"} : new(d).status = verdict
      BY <2>3, <2>7 DEF Resolved, RequestWith
    <3>2. UsesOf(d) = {} /\ \A e : UsesOf(e)' = UsesOf(e)
      BY <1>1, <2>2, <2>3, IdsArePositive DEF UsesOf, DiskSound
    <3>3. /\ Mapped(d).state = "pending"
          /\ Mapped(d)' = [Mapped(d) EXCEPT !.state = verdict]
          /\ \A e \in DOMAIN disk : e # d => Mapped(e)' = Mapped(e)
      BY <2>2, <2>3, <2>4, <3>1, <3>2 DEF Mapped
    <3>4. /\ DOMAIN MappedQueue = DOMAIN disk /\ MappedQueue[d] = Mapped(d)
          /\ MappedQueue' = [e \in DOMAIN disk |-> Mapped(e)']
          /\ \A e \in DOMAIN disk : MappedQueue[e] = Mapped(e)
      BY <2>2, <2>3 DEF MappedQueue
    <3>5. [MappedQueue EXCEPT ![d].state = verdict]
            = [e \in DOMAIN disk |-> IF e = d THEN [Mapped(d) EXCEPT !.state = verdict]
                                     ELSE Mapped(e)]
      BY <2>3, <3>4 DEF MappedQueue
    <3>6. MappedQueue' = [MappedQueue EXCEPT ![d].state = verdict]
      BY <3>3, <3>4, <3>5
    <3>7. UNCHANGED MappedActs
      BY <2>2 DEF MappedActs
    <3>8. QED
      BY <2>3, <2>5, <3>3, <3>4, <3>6, <3>7, MapsToDecide
  <2>8. QED
    BY <2>6, <2>7
<1>10. ASSUME NEW w \in Workers, GrantApproved(w)
       PROVE  Goal
  <2>1. UNCHANGED <<disk, effects>> /\ \A p \in Procs : grants[p] \subseteq grants'[p]
    BY <1>1, <1>10 DEF GrantApproved
  <2>2. QED
    BY <1>4, <2>1
<1>11. ASSUME NEW w \in Workers, Approve(w)
       PROVE  Goal
  <2>1. UNCHANGED <<disk, effects>> /\ \A p \in Procs : grants[p] \subseteq grants'[p]
    BY <1>1, <1>11 DEF Approve
  <2>2. QED
    BY <1>4, <2>1
<1>12. ASSUME NEW w \in Workers, Respond(w)
       PROVE  Goal
  BY <1>3, <1>6, <1>12 DEF Respond, Refuse, Proceed
<1>13. ASSUME NEW w \in Workers, Resolve(w) \/ Audit(w)
       PROVE  Goal
  BY <1>3, <1>13 DEF Resolve, Audit
<1>14. ASSUME NEW p \in Procs, Start(p)
       PROVE  Goal
  BY <1>3, <1>14 DEF Start
<1>15. CASE UNCHANGED vars
  BY <1>3, <1>15 DEF vars
<1>16. QED
  BY <1>5, <1>7, <1>8, <1>9, <1>10, <1>11, <1>12, <1>13, <1>14, <1>15 DEF Next, Step

(* The gate keeps the promise of ARCHITECTURE.md: every executed action is *)
(* free, granted, or uses up the one approved decision it names.           *)
THEOREM GateImplementsOneShot ==
  ASSUME Exclusive, SingleThreaded, MaxCrashes = 0
  PROVE  Spec => ImplementsOneShot
<1>1. Init => OneShot!Init
  <2> SUFFICES ASSUME Init
               PROVE  OneShot!Init
    OBVIOUS
  <2>1. DOMAIN disk = {} /\ effects = << >> /\ \A p \in Procs : grants[p] = {}
    BY DEF Init, NoRequests
  <2>2. QED
    BY <2>1 DEF OneShot!Init, PE!Granted, PE!Match
<1>2. Init => GrantsAreOfRuns
  BY DEF Init, GrantsAreOfRuns
<1>3. TypeOK /\ GrantsAreOfRuns /\ [Next]_vars => GrantsAreOfRuns'
  BY GrantsStep
<1>4. TypeOK /\ CallInv /\ RepeatInv /\ GrantsAreOfRuns /\ [Next]_vars
        => [OneShot!Next]_(OneShot!vars)
  BY StepMaps
<1>5. QED
  BY <1>1, <1>2, <1>3, <1>4, CallsAreInformed, RepeatsAreBounded, TypeInvariant, PTL
     DEF Spec, ImplementsOneShot, OneShot!Spec

-----------------------------------------------------------------------------
(* Processes side by side and killed at any moment, `virgent serve` with a *)
(* thread per request: OneUsePerStart and ExecutionsAudited.               *)

\* soc_respond is called by one thread of a process: `virgent soc respond`
\* and the programs that embed the agent; the threads of `virgent serve`
\* only call resolve_decision.
OneResponder == \A v, w \in Responders : Home[v] = Home[w] => v = w

Acts(w) == Respond(w) \/ Resolve(w) \/ Approve(w) \/ Step(w)

(* A thread's step moves no other thread. *)
LEMMA OthersStay ==
  ASSUME TypeOK, NEW w \in Workers, Acts(w), NEW v \in Workers, v # w
  PROVE  pc'[v] = pc[v] /\ loc'[v] = loc[v]
<1> USE GateAssumption
<1>1. pc \in [Workers -> Locations] /\ loc \in [Workers -> Local]
  BY DEF TypeOK, ThreadsTyped
<1>2. CASE Respond(w)
  BY <1>1, <1>2 DEF Respond, Refuse, Proceed, Ask, Goto
<1>3. CASE Resolve(w) \/ Approve(w)
  BY <1>1, <1>3 DEF Resolve, Approve, Goto
<1>4. CASE Step(w)
  BY <1>1, <1>4 DEF Step, Execute, MarkConsumed, CommitResolution, GrantApproved, Audit, Goto
<1>5. QED
  BY <1>2, <1>3, <1>4 DEF Acts

(* A running process forgets no decision and no use, and learns of a use   *)
(* only from a call of its own that consumes the decision.                 *)
LEMMA MemoryGrows ==
  ASSUME TypeOK, NEW w \in Workers, Acts(w), NEW p \in Procs, NEW d \in DOMAIN mem[p]
  PROVE  /\ d \in DOMAIN mem'[p]
         /\ mem'[p][d].consumed <=>
              \/ mem[p][d].consumed
              \/ pc[w] = "consume" /\ p = Home[w] /\ d = loc[w].did
<1> USE GateAssumption
<1>1. /\ DOMAIN mem = Procs /\ d \in 1..opened /\ opened \in Nat
      /\ mem[p][d] \in Request
  BY DEF TypeOK, QueuesTyped, IsQueue
<1>2. CASE Respond(w)
  <2>1. CASE mem' = mem /\ pc[w] = "idle"
    BY <2>1
  <2>2. ASSUME NEW inc \in Incidents, NEW a \in Actions, NEW risk \in Risks,
               Ask(w, inc, a, risk)
        PROVE  /\ d \in DOMAIN mem'[p] /\ mem'[p][d] = mem[p][d]
               /\ pc[w] = "idle"
    BY <1>1, <2>2 DEF Ask, Called, Opened
  <2>3. QED
    BY <1>2, <2>1, <2>2 DEF Respond, Refuse, Proceed, Called
<1>3. CASE Resolve(w) \/ Approve(w)
  BY <1>3 DEF Resolve, Approve, Called
<1>4. CASE Execute(w) \/ GrantApproved(w) \/ Audit(w)
  BY <1>4 DEF Execute, GrantApproved, Audit, AuditPoints
<1>5. CASE MarkConsumed(w)
  <2>1. /\ pc[w] = "consume" /\ loc[w].did \in DOMAIN mem[Home[w]]
        /\ mem' = [mem EXCEPT ![Home[w]] = Consumed(@, loc[w].did)]
    BY <1>5 DEF MarkConsumed, TypeOK, ThreadsLive
  <2>2. CASE p = Home[w]
    <3>1. mem'[p] = [mem[p] EXCEPT ![loc[w].did].consumed = TRUE]
      BY <1>1, <2>1, <2>2 DEF Consumed
    <3>2. QED
      BY <1>1, <2>1, <2>2, <3>1 DEF Request
  <2>3. CASE p # Home[w]
    BY <1>1, <2>1, <2>3
  <2>4. QED
    BY <2>2, <2>3
<1>6. CASE CommitResolution(w)
  <2> DEFINE new == Resolved(Access, mem[Home[w]][loc[w].did], loc[w].verdict, loc[w].role)
  <2>1. /\ pc[w] = "resolve" /\ loc[w].did \in DOMAIN mem[Home[w]]
        /\ mem' = [mem EXCEPT ![Home[w]][loc[w].did] = new]
    BY <1>6 DEF CommitResolution, TypeOK, ThreadsLive
  <2>2. new.consumed = mem[Home[w]][loc[w].did].consumed
    BY DEF Resolved, RequestWith
  <2>3. QED
    BY <1>1, <2>1, <2>2
<1>7. QED
  BY <1>2, <1>3, <1>4, <1>5, <1>6 DEF Acts, Step

\* Process p will not use decision d again before its next start.
SpentBy(p, d) ==
  \/ d \in DOMAIN mem[p] /\ mem[p][d].consumed
  \/ \E w \in Workers : Home[w] = p /\ pc[w] = "consume" /\ loc[w].did = d

\* Who may come to use a decision, and that it was not used when it was picked.
UsersInv ==
  \A w \in Workers :
    /\ pc[w] \in {"execute", "consume", "consumed", "executed"} => w \in Responders
    /\ pc[w] = "execute" /\ loc[w].did # 0 => ~mem[Home[w]][loc[w].did].consumed

\* No two processes that run are the same start, and none is yet to come.
StartsInv ==
  /\ \A p \in Procs : run[p] <= starts
  /\ \A p, q \in Procs : up[p] /\ up[q] /\ run[p] = run[q] => p = q
  /\ \A i \in DOMAIN effects : effects[i].start <= starts

\* What a process used since it started it will not use again.
UseInv ==
  /\ UsersInv
  /\ StartsInv
  /\ \A d \in Nat \ {0}, i \in DOMAIN effects : effects[i].did = d =>
       /\ \A p \in Procs : up[p] /\ run[p] = effects[i].start => SpentBy(p, d)
       /\ \A j \in DOMAIN effects :
            effects[j].did = d /\ effects[j].start = effects[i].start => j = i

(* A call that begins or goes on keeps what is said of threads.            *)
LEMMA UsersStep ==
  ASSUME OneResponder, TypeOK, UsersInv, NEW w \in Workers, Acts(w)
  PROVE  UsersInv'
<1> USE GateAssumption
<1>1. pc \in [Workers -> Locations] /\ loc \in [Workers -> Local] /\ DOMAIN mem = Procs
  BY DEF TypeOK, ThreadsTyped, QueuesTyped
<1>2. ASSUME NEW v \in Workers, v # w
      PROVE  /\ pc'[v] \in {"execute", "consume", "consumed", "executed"} => v \in Responders
             /\ pc'[v] = "execute" /\ loc'[v].did # 0 => ~mem'[Home[v]][loc'[v].did].consumed
  <2>1. pc'[v] = pc[v] /\ loc'[v] = loc[v]
    BY <1>2, OthersStay
  <2>2. ASSUME pc[v] = "execute", loc[v].did # 0
        PROVE  ~mem'[Home[v]][loc[v].did].consumed
    <3>1. PICK p, d : p = Home[v] /\ d = loc[v].did /\ p \in Procs /\ d \in DOMAIN mem[p]
      BY <2>2 DEF TypeOK, ThreadsLive
    <3>2. ~(pc[w] = "consume" /\ p = Home[w])
      BY <1>2, <2>2, <3>1 DEF UsersInv, OneResponder
    <3>3. ~mem[p][d].consumed
      BY <2>2, <3>1 DEF UsersInv
    <3>4. QED
      BY <3>1, <3>2, <3>3, MemoryGrows
  <2>3. QED
    BY <2>1, <2>2 DEF UsersInv
<1>3. /\ pc'[w] \in {"execute", "consume", "consumed", "executed"} => w \in Responders
      /\ pc'[w] = "execute" /\ loc'[w].did # 0 => ~mem'[Home[w]][loc'[w].did].consumed
  <2>1. CASE Respond(w)
    <3>1. ASSUME NEW inc \in Incidents, NEW a \in Actions, NEW risk \in Risks,
                 Proceed(w, inc, a, risk)
          PROVE  pc'[w] = "execute" /\ loc'[w].did # 0 => ~mem'[Home[w]][loc'[w].did].consumed
      BY <1>1, <3>1 DEF Proceed, Goto, Responding, Usable, ApprovedFor
    <3>2. ASSUME NEW inc \in Incidents, NEW a \in Actions, NEW risk \in Risks,
                 Ask(w, inc, a, risk) \/ Refuse(w, inc, a, risk)
          PROVE  pc'[w] # "execute"
      BY <1>1, <3>2 DEF Ask, Refuse, Called, Goto
    <3>3. QED
      BY <2>1, <3>1, <3>2 DEF Respond
  <2>2. CASE Resolve(w) \/ Approve(w)
    BY <1>1, <2>2 DEF Resolve, Approve, Goto
  <2>3. CASE Execute(w) \/ MarkConsumed(w)
    BY <1>1, <2>3 DEF Execute, MarkConsumed, UsersInv
  <2>4. CASE CommitResolution(w) \/ GrantApproved(w)
    BY <1>1, <2>4 DEF CommitResolution, GrantApproved, Goto
  <2>5. CASE Audit(w)
    BY <1>1, <2>5 DEF Audit, Goto, AfterAudit, UsersInv
  <2>6. QED
    BY <2>1, <2>2, <2>3, <2>4, <2>5 DEF Acts, Step
<1>4. QED
  BY <1>2, <1>3 DEF UsersInv

(* The start of a process is new, and its memory knows no thread.          *)
LEMMA UseStart ==
  ASSUME TypeOK, UseInv, NEW p \in Procs, Start(p)
  PROVE  UseInv'
<1> USE GateAssumption
<1>1. /\ run \in [Procs -> Nat] /\ up \in [Procs -> BOOLEAN] /\ starts \in Nat
      /\ DOMAIN mem = Procs
      /\ \A i \in DOMAIN effects : effects[i].start \in Nat
  <2>1. effects \in Seq(Effect)
    BY DEF TypeOK, LogsTyped
  <2>2. \A i \in DOMAIN effects : effects[i] \in Effect
    BY <2>1
  <2>3. \A x \in Effect : x.start \in Nat
    BY DEF Effect
  <2>4. QED
    BY <2>2, <2>3 DEF TypeOK, RunsTyped, QueuesTyped
<1>2. /\ ~up[p] /\ up' = [up EXCEPT ![p] = TRUE] /\ starts' = starts + 1
      /\ run' = [run EXCEPT ![p] = starts'] /\ mem' = [mem EXCEPT ![p] = disk]
      /\ UNCHANGED <<effects, pc, loc>>
  BY DEF Start
<1>3. \A w \in Workers : pc'[w] # "idle" => Home[w] # p /\ mem'[Home[w]] = mem[Home[w]]
  BY <1>1, <1>2 DEF TypeOK, ThreadsLive
<1>4. UsersInv'
  BY <1>2, <1>3 DEF UsersInv, UseInv
<1>5. StartsInv'
  BY <1>1, <1>2 DEF StartsInv, UseInv
<1>6. ASSUME NEW d \in Nat \ {0}, NEW i \in DOMAIN effects, effects[i].did = d,
             NEW q \in Procs, up'[q], run'[q] = effects[i].start
      PROVE  SpentBy(q, d)'
  <2>1. effects[i].start <= starts /\ effects[i].start \in Nat
    BY <1>1 DEF StartsInv, UseInv
  <2>2. q # p
    BY <1>1, <1>2, <1>6, <2>1
  <2>3. SpentBy(q, d)
    BY <1>1, <1>2, <1>6, <2>2 DEF UseInv
  <2>4. QED
    BY <1>1, <1>2, <2>2, <2>3 DEF SpentBy
<1>7. QED
  BY <1>2, <1>4, <1>5, <1>6 DEF UseInv

(* A process that ends takes its threads and its memory along.             *)
LEMMA UseStop ==
  ASSUME TypeOK, UseInv, NEW p \in Procs, Stop(p)
  PROVE  UseInv'
<1> USE GateAssumption
<1>1. /\ up \in [Procs -> BOOLEAN] /\ DOMAIN mem = Procs
      /\ pc \in [Workers -> Locations] /\ loc \in [Workers -> Local]
  BY DEF TypeOK, RunsTyped, QueuesTyped, ThreadsTyped
<1>2. /\ up' = [up EXCEPT ![p] = FALSE] /\ UNCHANGED <<effects, starts, run>>
      /\ mem' = [mem EXCEPT ![p] = NoRequests]
      /\ pc' = [w \in Workers |-> IF Home[w] = p THEN "idle" ELSE pc[w]]
      /\ loc' = [w \in Workers |-> IF Home[w] = p THEN NoLocals ELSE loc[w]]
  BY DEF Stop
<1>3. UsersInv'
  BY <1>1, <1>2 DEF UsersInv, UseInv
<1>4. StartsInv'
  BY <1>1, <1>2 DEF StartsInv, UseInv
<1>5. \A q \in Procs, d \in Nat \ {0} : q # p /\ SpentBy(q, d) => SpentBy(q, d)'
  BY <1>1, <1>2 DEF SpentBy
<1>6. QED
  BY <1>1, <1>2, <1>3, <1>4, <1>5 DEF UseInv

(* What a process used stays used for it while its calls go on.            *)
LEMMA SpentStays ==
  ASSUME TypeOK, NEW w \in Workers, Acts(w), NEW p \in Procs, NEW d \in Nat \ {0},
         SpentBy(p, d)
  PROVE  SpentBy(p, d)'
<1>1. CASE d \in DOMAIN mem[p] /\ mem[p][d].consumed
  BY <1>1, MemoryGrows DEF SpentBy
<1>2. ASSUME NEW v \in Workers, Home[v] = p, pc[v] = "consume", loc[v].did = d, v # w
      PROVE  SpentBy(p, d)'
  BY <1>2, OthersStay DEF SpentBy
<1>3. CASE Home[w] = p /\ pc[w] = "consume" /\ loc[w].did = d
  <2>1. d \in DOMAIN mem[p]
    BY <1>3 DEF TypeOK, ThreadsLive
  <2>2. QED
    BY <1>3, <2>1, MemoryGrows DEF SpentBy
<1>4. QED
  BY <1>1, <1>2, <1>3 DEF SpentBy

(* The calls of running processes.                                         *)
LEMMA UseActs ==
  ASSUME OneResponder, TypeOK, UseInv, NEW w \in Workers, Acts(w)
  PROVE  UseInv'
<1> USE GateAssumption
<1>1. /\ pc \in [Workers -> Locations] /\ run \in [Procs -> Nat] /\ Home[w] \in Procs
  BY DEF TypeOK, ThreadsTyped, RunsTyped
<1>2. UNCHANGED <<up, starts, run>>
  <2>1. CASE Respond(w)
    BY <2>1 DEF Respond, Refuse, Proceed, Ask
  <2>2. CASE Resolve(w) \/ Approve(w)
    BY <2>2 DEF Resolve, Approve
  <2>3. CASE Step(w)
    BY <2>3 DEF Step, Execute, MarkConsumed, CommitResolution, GrantApproved, Audit
  <2>4. QED
    BY <2>1, <2>2, <2>3 DEF Acts
<1>3. UsersInv'
  BY UsersStep DEF UseInv
<1>4. CASE ~Execute(w)
  <2>1. effects' = effects
    BY <1>4
       DEF Acts, Respond, Refuse, Proceed, Ask, Resolve, Approve, Step, MarkConsumed,
           CommitResolution, GrantApproved, Audit
  <2>2. StartsInv'
    BY <1>2, <2>1 DEF StartsInv, UseInv
  <2>3. QED
    BY <1>2, <1>3, <2>1, <2>2, SpentStays DEF UseInv
<1>5. CASE Execute(w)
  <2> DEFINE e == [did |-> loc[w].did, action |-> loc[w].action,
                   incident |-> loc[w].incident, level |-> loc[w].level,
                   start |-> run[Home[w]]]
  <2>1. /\ pc[w] = "execute" /\ up[Home[w]] /\ UNCHANGED <<mem, loc>>
        /\ pc' = [pc EXCEPT ![w] = IF loc[w].did = 0 THEN "executed" ELSE "consume"]
    BY <1>5 DEF Execute, TypeOK, ThreadsLive
  <2>2. PICK n \in Nat :
          /\ DOMAIN effects = 1..n /\ DOMAIN effects' = 1..(n + 1)
          /\ effects'[n + 1] = e /\ \A i \in 1..n : effects'[i] = effects[i]
    BY <1>5, EffectsStay DEF Execute, TypeOK, LogsTyped
  <2>3. e.did = loc[w].did /\ e.start = run[Home[w]]
    OBVIOUS
  <2> HIDE DEF e
  <2>4. StartsInv'
    BY <1>1, <1>2, <2>2, <2>3 DEF StartsInv, UseInv
  <2>5. ASSUME NEW d \in Nat \ {0}, d = loc[w].did
        PROVE  ~SpentBy(Home[w], d) /\ SpentBy(Home[w], d)'
    <3>1. ~mem[Home[w]][d].consumed
      BY <2>1, <2>5 DEF UseInv, UsersInv
    <3>2. \A v \in Workers : Home[v] = Home[w] /\ pc[v] = "consume" => v = w
      BY <2>1 DEF UseInv, UsersInv, OneResponder
    <3>3. QED
      BY <1>1, <2>1, <2>5, <3>1, <3>2 DEF SpentBy
  <2>6. \A p \in Procs : up[p] /\ run[p] = run[Home[w]] => p = Home[w]
    BY <1>1, <2>1 DEF UseInv, StartsInv
  <2>7. ASSUME NEW d \in Nat \ {0}, NEW i \in 1..(n + 1), effects'[i].did = d,
               NEW p \in Procs, up[p], run[p] = effects'[i].start
        PROVE  SpentBy(p, d)'
    <3>1. CASE i = n + 1
      BY <2>2, <2>3, <2>5, <2>6, <2>7, <3>1
    <3>2. CASE i \in 1..n
      BY <2>2, <2>7, <3>2, SpentStays DEF UseInv
    <3>3. QED
      BY <2>7, <3>1, <3>2
  <2>8. ASSUME NEW d \in Nat \ {0}, NEW i \in 1..n, effects[i].did = d, d = loc[w].did
        PROVE  effects[i].start # run[Home[w]]
    BY <1>1, <2>1, <2>2, <2>5, <2>8 DEF UseInv
  <2>9. ASSUME NEW d \in Nat \ {0}, NEW i \in 1..(n + 1), NEW j \in 1..(n + 1),
               effects'[i].did = d, effects'[j].did = d,
               effects'[j].start = effects'[i].start
        PROVE  j = i
    <3>1. CASE i = n + 1 /\ j = n + 1
      BY <3>1
    <3>2. CASE i = n + 1 /\ j \in 1..n
      BY <2>2, <2>3, <2>8, <2>9, <3>2
    <3>3. CASE i \in 1..n /\ j = n + 1
      BY <2>2, <2>3, <2>8, <2>9, <3>3
    <3>4. CASE i \in 1..n /\ j \in 1..n
      BY <2>2, <2>9, <3>4 DEF UseInv
    <3>5. QED
      BY <3>1, <3>2, <3>3, <3>4
  <2>10. QED
    BY <1>2, <1>3, <2>2, <2>4, <2>7, <2>9 DEF UseInv
<1>6. QED
  BY <1>4, <1>5

LEMMA UseStep ==
  ASSUME OneResponder, TypeOK, UseInv, [Next]_vars
  PROVE  UseInv'
<1>1. CASE UNCHANGED vars
  BY <1>1 DEF vars, UseInv, UsersInv, StartsInv, SpentBy
<1>2. QED
  BY <1>1, UseStart, UseStop, UseActs DEF Next, Acts

LEMMA UseInit == Init => UseInv
  BY GateAssumption DEF Init, UseInv, UsersInv, StartsInv

(* However many processes run side by side, one that embeds the agent or   *)
(* answers `virgent soc respond` uses a decision at most once from its     *)
(* start to its end: the copy of the queue it loaded is the only one it    *)
(* picks from.                                                             *)
THEOREM UsesPerStart ==
  ASSUME OneResponder
  PROVE  Spec => []OneUsePerStart
<1>1. Init => UseInv
  BY UseInit
<1>2. TypeOK /\ UseInv /\ [Next]_vars => UseInv'
  BY UseStep
<1>3. TypeOK /\ UseInv => OneUsePerStart
  BY DEF OneUsePerStart, UsesOf, Ids, UseInv, TypeOK, QueuesTyped
<1>4. QED
  BY <1>1, <1>2, <1>3, TypeInvariant, PTL DEF Spec

\* Executions on record, and threads that still have theirs to record.
Told   == {i \in DOMAIN trail : trail[i].event = "executed"}
Untold == {w \in Workers : pc[w] \in {"consume", "consumed", "executed"}}

\* Each kill loses at most the record its process had yet to write.
TellInv ==
  /\ IsFiniteSet(Untold)
  /\ \E lost \in 0..crashes : Len(effects) = Cardinality(Told) + Cardinality(Untold) + lost

(* A record more at the end of the trail. *)
LEMMA TrailGrows ==
  ASSUME TypeOK, NEW x, NEW y, trail' = Append(trail, [event |-> x, did |-> y])
  PROVE  LET n == Len(trail) + 1 IN
         /\ DOMAIN trail' = DOMAIN trail \cup {n} /\ n \in Nat
         /\ trail'[n] = [event |-> x, did |-> y]
         /\ \A i \in DOMAIN trail : i \in Nat /\ i < n /\ trail'[i] = trail[i]
<1>1. trail \in Seq([event : AuditPoints \cup Statuses \cup {"refused"}, did : Nat])
  BY DEF TypeOK, LogsTyped
<1>2. QED
  BY <1>1

(* The audit record a thread writes bears the name of its stage, that of a *)
(* resolution the verdict.                                                 *)
LEMMA AuditedEvent ==
  ASSUME TypeOK, NEW w \in Workers, Audit(w)
  PROVE  /\ trail' = Append(trail, [event |-> EventAt(w).event, did |-> loc[w].did])
         /\ pc[w] # "resolved" => EventAt(w).event = pc[w]
         /\ pc[w] = "resolved" => EventAt(w).event \in Statuses
<1>1. trail' = Append(trail, [event |-> EventAt(w).event, did |-> loc[w].did])
  BY DEF Audit, EventAt
<1>2. pc[w] # "resolved" => EventAt(w).event = pc[w]
  BY DEF EventAt
<1>3. ASSUME pc[w] = "resolved"
      PROVE  EventAt(w).event \in Statuses
  <2>1. PICK p, d : p = Home[w] /\ d = loc[w].did /\ p \in Procs /\ d \in DOMAIN mem[p]
    BY <1>3, GateAssumption DEF TypeOK, ThreadsLive
  <2>2. mem[p][d].status \in Statuses
    BY <2>1 DEF TypeOK, QueuesTyped, IsQueue, Request
  <2>3. QED
    BY <1>3, <2>1, <2>2 DEF EventAt
<1>4. QED
  BY <1>1, <1>2, <1>3

LEMMA ToldFinite ==
  ASSUME TypeOK
  PROVE  IsFiniteSet(Told) /\ Cardinality(Told) \in Nat
<1>1. Len(trail) \in Nat /\ DOMAIN trail = 1..Len(trail)
  BY DEF TypeOK, LogsTyped
<1>2. IsFiniteSet(1..Len(trail)) /\ Told \in SUBSET (1..Len(trail))
  BY <1>1, FS_Interval DEF Told
<1>3. IsFiniteSet(Told)
  BY <1>2, FS_Subset
<1>4. QED
  BY <1>3, FS_CardinalityType

(* What a record adds to the executions on record. *)
LEMMA ToldGrows ==
  ASSUME TypeOK, NEW x, NEW y, trail' = Append(trail, [event |-> x, did |-> y])
  PROVE  /\ x = "executed" => Cardinality(Told)' = Cardinality(Told) + 1
         /\ x # "executed" => Cardinality(Told)' = Cardinality(Told)
<1> DEFINE n == Len(trail) + 1
<1>1. /\ DOMAIN trail' = DOMAIN trail \cup {n} /\ n \notin DOMAIN trail
      /\ trail'[n].event = x
      /\ \A i \in DOMAIN trail : trail'[i] = trail[i]
  BY TrailGrows
<1>2. n \notin Told
  BY <1>1 DEF Told
<1>3. CASE x = "executed"
  <2>1. Told' = Told \cup {n}
    BY <1>1, <1>3 DEF Told
  <2>2. Cardinality(Told') = Cardinality(Told) + 1
    BY <1>2, <2>1, ToldFinite, FS_AddElement
  <2>3. QED
    BY <1>3, <2>2
<1>4. CASE x # "executed"
  <2>1. Told' = Told
    BY <1>1, <1>4 DEF Told
  <2>2. QED
    BY <1>4, <2>1
<1>5. QED
  BY <1>3, <1>4

LEMMA TellStep ==
  ASSUME OneResponder, TypeOK, UseInv, TellInv, [Next]_vars
  PROVE  TellInv'
<1> USE GateAssumption
<1>1. /\ pc \in [Workers -> Locations] /\ loc \in [Workers -> Local]
      /\ crashes \in Nat /\ effects \in Seq(Effect) /\ Len(effects) \in Nat
  BY DEF TypeOK, ThreadsTyped, RunsTyped, LogsTyped
<1>2. PICK lost \in 0..crashes : Len(effects) = Cardinality(Told) + Cardinality(Untold) + lost
  BY DEF TellInv
<1>3. PICK t, u, e : t = Cardinality(Told) /\ u = Cardinality(Untold) /\ e = Len(effects)
  OBVIOUS
<1>4. t \in Nat /\ u \in Nat /\ e = t + u + lost /\ lost \in Nat /\ lost <= crashes
  BY <1>1, <1>2, <1>3, ToldFinite, FS_CardinalityType DEF TellInv
<1>5. ASSUME NEW k \in 0..crashes', IsFiniteSet(Untold'),
             Len(effects') = Cardinality(Told') + Cardinality(Untold') + k
      PROVE  TellInv'
  BY <1>5 DEF TellInv
\* A step that executes nothing, records no execution and ends no call.
<1>6. ASSUME UNCHANGED <<effects, crashes>>, Cardinality(Told)' = Cardinality(Told), Untold' = Untold
      PROVE  TellInv'
  <2>1. IsFiniteSet(Untold') /\ crashes' = crashes
    BY <1>6 DEF TellInv
  <2>2. Len(effects') = Cardinality(Told') + Cardinality(Untold') + lost
    BY <1>2, <1>6
  <2>3. QED
    BY <1>5, <2>1, <2>2
<1>7. ASSUME NEW p \in Procs, Stop(p)
      PROVE  TellInv'
  <2>1. effects' = effects /\ trail' = trail
    BY <1>7 DEF Stop
  <2>2. Told' = Told
    BY <2>1 DEF Told
  <2>3. CASE AtRest(p)
    <3>1. crashes' = crashes /\ \A w \in Workers : Home[w] = p => pc[w] = "idle"
      BY <1>7, <2>3 DEF Stop, AtRest, Threads
    <3>2. Untold' = Untold
      BY <1>1, <1>7, <3>1 DEF Stop, Untold
    <3>3. QED
      BY <1>6, <2>1, <2>2, <3>1, <3>2
  <2>4. CASE ~AtRest(p)
    <3>1. crashes' = crashes + 1
      BY <1>7, <2>4 DEF Stop
    <3>2. Untold' = {w \in Untold : Home[w] # p}
      BY <1>1, <1>7 DEF Stop, Untold
    <3>3. CASE \E w \in Untold : Home[w] = p
      <4>1. PICK w \in Untold : Home[w] = p
        BY <3>3
      <4>2. \A v \in Untold : Home[v] = p => v = w
        BY <4>1 DEF Untold, UseInv, UsersInv, OneResponder
      <4>3. Untold' = Untold \ {w}
        BY <3>2, <4>1, <4>2
      <4>4. IsFiniteSet(Untold') /\ Cardinality(Untold') = u - 1
        BY <1>3, <4>1, <4>3, FS_RemoveElement DEF TellInv
      <4>5. lost + 1 \in 0..crashes' /\ e = t + (u - 1) + (lost + 1)
        BY <1>1, <1>4, <3>1
      <4>6. Len(effects') = Cardinality(Told') + Cardinality(Untold') + (lost + 1)
        BY <1>3, <2>1, <2>2, <4>4, <4>5
      <4>7. QED
        BY <1>5, <4>4, <4>5, <4>6
    <3>4. CASE \A w \in Untold : Home[w] # p
      <4>1. Untold' = Untold
        BY <3>2, <3>4
      <4>2. IsFiniteSet(Untold') /\ lost \in 0..crashes'
        BY <1>1, <1>4, <3>1, <4>1 DEF TellInv
      <4>3. Len(effects') = Cardinality(Told') + Cardinality(Untold') + lost
        BY <1>2, <2>1, <2>2, <4>1
      <4>4. QED
        BY <1>5, <4>2, <4>3
    <3>5. QED
      BY <3>3, <3>4
  <2>5. QED
    BY <2>3, <2>4
<1>8. ASSUME NEW w \in Workers, Execute(w)
      PROVE  TellInv'
  <2>1. /\ UNCHANGED <<trail, crashes>> /\ pc[w] = "execute"
        /\ pc' = [pc EXCEPT ![w] = IF loc[w].did = 0 THEN "executed" ELSE "consume"]
    BY <1>8 DEF Execute
  <2>2. Len(effects') = e + 1
    BY <1>1, <1>3, <1>8 DEF Execute
  <2>3. Told' = Told
    BY <2>1 DEF Told
  <2>4. Untold' = Untold \cup {w} /\ w \notin Untold
    BY <1>1, <2>1 DEF Untold
  <2>5. IsFiniteSet(Untold') /\ Cardinality(Untold') = u + 1
    BY <1>3, <2>4, FS_AddElement DEF TellInv
  <2>6. e + 1 = t + (u + 1) + lost
    BY <1>4
  <2>7. Len(effects') = Cardinality(Told') + Cardinality(Untold') + lost
    BY <1>3, <2>2, <2>3, <2>5, <2>6
  <2>8. QED
    BY <1>5, <2>1, <2>5, <2>7
<1>9. ASSUME NEW w \in Workers, Audit(w)
      PROVE  TellInv'
  <2>1. /\ UNCHANGED <<effects, crashes>>
        /\ pc' = [pc EXCEPT ![w] = AfterAudit(pc[w])]
    BY <1>9 DEF Audit, Goto
  <2>2. PICK x, y : trail' = Append(trail, [event |-> x, did |-> y]) /\ x = EventAt(w).event
    BY <1>9, AuditedEvent
  <2>3. CASE pc[w] = "executed"
    <3>1. Cardinality(Told') = t + 1
      BY <1>3, <1>9, <2>2, <2>3, AuditedEvent, ToldGrows
    <3>2. Untold' = Untold \ {w} /\ w \in Untold
      BY <1>1, <2>1, <2>3 DEF Untold, AfterAudit
    <3>3. IsFiniteSet(Untold') /\ Cardinality(Untold') = u - 1
      BY <1>3, <3>2, FS_RemoveElement DEF TellInv
    <3>4. e = (t + 1) + (u - 1) + lost
      BY <1>4
    <3>5. Len(effects') = Cardinality(Told') + Cardinality(Untold') + lost
      BY <1>3, <2>1, <3>1, <3>3, <3>4
    <3>6. QED
      BY <1>5, <2>1, <3>3, <3>5
  <2>4. CASE pc[w] # "executed"
    <3>1. x # "executed"
      BY <1>9, <2>2, <2>4, AuditedEvent DEF Statuses
    <3>2. Cardinality(Told)' = Cardinality(Told)
      BY <2>2, <3>1, ToldGrows
    <3>3. pc[w] \in AuditPoints
      BY <1>9 DEF Audit
    <3>4. Untold' = Untold
      BY <1>1, <2>1, <2>4, <3>3 DEF Untold, AfterAudit, AuditPoints
    <3>5. QED
      BY <1>6, <2>1, <3>2, <3>4
  <2>5. QED
    BY <2>3, <2>4
\* The other steps neither enter nor leave the end of soc_respond.
<1>10. ASSUME NEW w \in Workers, UNCHANGED <<effects, trail, crashes>>,
              \A v \in Workers : v # w => pc'[v] = pc[v],
              \/ pc[w] = "consume" /\ pc'[w] = "consumed"
              \/ {pc[w], pc'[w]} \cap {"consume", "consumed", "executed"} = {}
       PROVE  TellInv'
  <2>1. Told' = Told
    BY <1>10 DEF Told
  <2>2. Untold' = Untold
    BY <1>10 DEF Untold
  <2>3. QED
    BY <1>6, <1>10, <2>1, <2>2
<1>11. ASSUME NEW w \in Workers, Respond(w)
       PROVE  TellInv'
  <2>1. ASSUME NEW inc \in Incidents, NEW a \in Actions, NEW risk \in Risks,
               Refuse(w, inc, a, risk)
        PROVE  TellInv'
    <3>1. /\ UNCHANGED <<effects, crashes, pc>>
          /\ trail' = Append(trail, [event |-> "refused", did |-> 0])
      BY <2>1 DEF Refuse
    <3>2. Cardinality(Told)' = Cardinality(Told)
      BY <3>1, ToldGrows
    <3>3. Untold' = Untold
      BY <3>1 DEF Untold
    <3>4. QED
      BY <1>6, <3>1, <3>2, <3>3
  <2>2. ASSUME NEW inc \in Incidents, NEW a \in Actions, NEW risk \in Risks,
               Proceed(w, inc, a, risk) \/ Ask(w, inc, a, risk)
        PROVE  TellInv'
    <3>1. /\ UNCHANGED <<effects, trail, crashes>> /\ pc[w] = "idle"
          /\ pc'[w] \in {"execute", "requested"}
      BY <1>1, <2>2 DEF Proceed, Ask, Called, Goto
    <3>2. \A v \in Workers : v # w => pc'[v] = pc[v]
      BY <1>11, OthersStay DEF Acts
    <3>3. QED
      BY <1>10, <3>1, <3>2
  <2>3. QED
    BY <1>11, <2>1, <2>2 DEF Respond
<1>12. ASSUME NEW w \in Workers, Resolve(w) \/ Approve(w)
       PROVE  TellInv'
  <2>1. /\ UNCHANGED <<effects, trail, crashes>> /\ pc[w] = "idle"
        /\ pc'[w] \in {"resolve", "granted"}
    BY <1>1, <1>12 DEF Resolve, Approve, Called, Goto
  <2>2. \A v \in Workers : v # w => pc'[v] = pc[v]
    BY <1>12, OthersStay DEF Acts
  <2>3. QED
    BY <1>10, <2>1, <2>2
<1>13. ASSUME NEW w \in Workers, MarkConsumed(w) \/ CommitResolution(w) \/ GrantApproved(w)
       PROVE  TellInv'
  <2>1. /\ UNCHANGED <<effects, trail, crashes>>
        /\ \/ pc[w] = "consume" /\ pc'[w] = "consumed"
           \/ pc[w] \in {"resolve", "grant"} /\ pc'[w] \in {"escalated", "resolved", "granted", "idle"}
    BY <1>1, <1>13 DEF MarkConsumed, CommitResolution, GrantApproved, Goto
  <2>2. \A v \in Workers : v # w => pc'[v] = pc[v]
    BY <1>13, OthersStay DEF Acts, Step
  <2>3. QED
    BY <1>10, <2>1, <2>2
<1>14. ASSUME UNCHANGED <<effects, trail, crashes, pc>>
       PROVE  TellInv'
  BY <1>6, <1>14 DEF Told, Untold
<1>15. QED
  BY <1>7, <1>8, <1>9, <1>11, <1>12, <1>13, <1>14 DEF Next, Step, Start, vars

(* Side by side or not, with no call in progress the audit log tells of    *)
(* every action executed, but for one at most per process killed.          *)
THEOREM ExecutionsAreAudited ==
  ASSUME OneResponder
  PROVE  Spec => []ExecutionsAudited
<1>1. Init => UseInv
  BY UseInit
<1>2. Init => TellInv
  <2> SUFFICES ASSUME Init
               PROVE  TellInv
    OBVIOUS
  <2>1. Told = {} /\ Untold = {}
    BY DEF Init, Told, Untold
  <2>2. IsFiniteSet(Untold) /\ Cardinality(Told) = 0 /\ Cardinality(Untold) = 0
    BY <2>1, FS_EmptySet
  <2>3. Len(effects) = 0 /\ crashes = 0
    BY DEF Init
  <2>4. QED
    BY <2>2, <2>3 DEF TellInv
<1>3. TypeOK /\ UseInv /\ TellInv /\ [Next]_vars => UseInv' /\ TellInv'
  BY UseStep, TellStep
<1>4. TypeOK /\ TellInv => ExecutionsAudited
  <2> SUFFICES ASSUME TypeOK, TellInv, \A w \in Workers : pc[w] = "idle"
               PROVE  Len(effects) - Cardinality(Told) \in 0..crashes
    BY DEF ExecutionsAudited, Told
  <2>1. Untold = {}
    BY DEF Untold
  <2>2. Cardinality(Untold) = 0
    BY <2>1, FS_EmptySet
  <2>3. PICK t : t = Cardinality(Told)
    OBVIOUS
  <2>4. PICK lost \in 0..crashes : Len(effects) = t + 0 + lost
    BY <2>2, <2>3 DEF TellInv
  <2>5. t \in Nat /\ crashes \in Nat
    BY <2>3, ToldFinite DEF TypeOK, RunsTyped
  <2>6. Len(effects) - t \in 0..crashes
    BY <2>4, <2>5
  <2>7. QED
    BY <2>3, <2>6
<1>5. QED
  BY <1>1, <1>2, <1>3, <1>4, TypeInvariant, PTL DEF Spec

-----------------------------------------------------------------------------
(* The trail tells the whole story: TrailComplete.                         *)

At(l, d) == \E w \in Workers : pc[w] = l /\ loc[w].did = d

\* What has happened to a decision and is no call's to record any more.
Asked(d)    == d \in DOMAIN disk /\ ~At("requested", d)
Ruled(v, d) == d \in DOMAIN disk /\ disk[d].status = v /\ ~At("resolved", d)
UsedUp(d)   == d \in DOMAIN disk /\ disk[d].consumed /\ ~At("consumed", d)

OnRecord(event, d, happened) ==
  IF happened THEN \E i : Mentions(event, d) = {i} ELSE Mentions(event, d) = {}

\* The trail records it, once, and in the order it happened.
Story(d) ==
  /\ OnRecord("requested", d, Asked(d))
  /\ Mentions("pending", d) = {}
  /\ \A v \in {"approved", "denied"} :
       /\ OnRecord(v, d, Ruled(v, d))
       /\ Before(Mentions("requested", d), Mentions(v, d))
       /\ Before(Mentions(v, d), Mentions("consumed", d))
  /\ OnRecord("consumed", d, UsedUp(d))
  /\ Mentions("executed", d) # {} => UsedUp(d)
  /\ Before(Mentions("consumed", d), Mentions("executed", d))

\* How far the decision has come when a call is about to record a stage.
Midway(d) ==
  /\ At("requested", d) => /\ d \in DOMAIN disk /\ disk[d].status = "pending"
                           /\ ~disk[d].consumed
  /\ At("consume", d) => d \in DOMAIN disk /\ ~disk[d].consumed
  /\ At("executed", d) => UsedUp(d)

StoryInv == \A d \in Nat \ {0} : Story(d) /\ Midway(d)

(* The one busy thread tells where the call is. *)
LEMMA WhereTheCallIs ==
  ASSUME SingleThreaded, TypeOK, MemoryIsDisk, NEW w \in Workers, Acts(w),
         NEW l \in Locations \ {"idle"}, NEW d
  PROVE  /\ At(l, d) <=> pc[w] = l /\ loc[w].did = d
         /\ At(l, d)' <=> pc'[w] = l /\ loc'[w].did = d
<1>1. up[Home[w]]
  BY DEF Acts, Respond, Refuse, Proceed, Ask, Resolve, Approve, Called, Step, Execute,
         MarkConsumed, CommitResolution, GrantApproved, Audit, AuditPoints, TypeOK, ThreadsLive
<1>2. \A v \in Workers : v # w => pc[v] = "idle" /\ pc'[v] = "idle"
  BY <1>1, OneBusy, OthersStay
<1>3. QED
  BY <1>2 DEF At

(* A record adds to the mentions of its own event and decision. *)
LEMMA MentionsGrow ==
  ASSUME TypeOK, NEW x, NEW y, trail' = Append(trail, [event |-> x, did |-> y]), NEW e, NEW d
  PROVE  /\ ~(e = x /\ d = y) => Mentions(e, d)' = Mentions(e, d)
         /\ e = x /\ d = y => Mentions(e, d)' = Mentions(e, d) \cup {Len(trail) + 1}
         /\ \A i \in Mentions(e, d) : i \in Nat /\ i < Len(trail) + 1
<1> DEFINE n == Len(trail) + 1
<1>1. /\ DOMAIN trail' = DOMAIN trail \cup {n}
      /\ trail'[n].event = x /\ trail'[n].did = y
      /\ \A i \in DOMAIN trail : i \in Nat /\ i < n /\ trail'[i] = trail[i]
  BY TrailGrows
<1>2. QED
  BY <1>1 DEF Mentions

(* A step that neither records anything about a decision nor moves it. *)
LEMMA StoryStands ==
  ASSUME NEW d, Story(d),
         \A e : e \notin {"escalated", "granted"} => Mentions(e, d)' = Mentions(e, d),
         Asked(d)' <=> Asked(d), UsedUp(d)' <=> UsedUp(d),
         \A v \in {"approved", "denied"} : Ruled(v, d)' <=> Ruled(v, d)
  PROVE  Story(d)'
<1>1. /\ OnRecord("requested", d, Asked(d))'
      /\ OnRecord("consumed", d, UsedUp(d))'
  BY DEF Story, OnRecord
<1>2. ASSUME NEW v \in {"approved", "denied"}
      PROVE  /\ OnRecord(v, d, Ruled(v, d))'
             /\ Before(Mentions("requested", d), Mentions(v, d))'
             /\ Before(Mentions(v, d), Mentions("consumed", d))'
  <2>1. OnRecord(v, d, Ruled(v, d))'
    BY <1>2 DEF Story, OnRecord
  <2>2. QED
    BY <1>2, <2>1 DEF Story, Before
<1>3. /\ Mentions("pending", d)' = {}
      /\ Mentions("executed", d)' # {} => UsedUp(d)'
      /\ Before(Mentions("consumed", d), Mentions("executed", d))'
  BY DEF Story, Before
<1>4. QED
  BY <1>1, <1>2, <1>3 DEF Story

LEMMA StoryStep ==
  ASSUME SingleThreaded, MaxCrashes = 0, TypeOK, CallInv, StoryInv, [Next]_vars
  PROVE  StoryInv'
<1> USE GateAssumption
<1>1. /\ pc \in [Workers -> Locations] /\ loc \in [Workers -> Local] /\ DOMAIN mem = Procs
      /\ MemoryIsDisk /\ DiskSound
  BY DEF TypeOK, QueuesTyped, ThreadsTyped, CallInv
<1> DEFINE Marks == {"requested", "resolved", "consume", "consumed", "executed"}
<1>2. Marks \subseteq Locations \ {"idle"}
  BY DEF Locations, AuditPoints
<1>3. ASSUME NEW d \in Nat \ {0}, UNCHANGED <<disk, trail>>,
             \A l \in Marks : At(l, d)' <=> At(l, d)
      PROVE  Story(d)' /\ Midway(d)'
  <2>1. \A e : Mentions(e, d)' = Mentions(e, d)
    BY <1>3 DEF Mentions
  <2>2. /\ Asked(d)' <=> Asked(d)
        /\ UsedUp(d)' <=> UsedUp(d)
        /\ \A v : Ruled(v, d)' <=> Ruled(v, d)
    BY <1>3 DEF Asked, Ruled, UsedUp
  <2>3. Story(d) /\ Midway(d)
    BY DEF StoryInv
  <2>4. Story(d)'
    BY <2>1, <2>2, <2>3, StoryStands
  <2>5. QED
    BY <1>3, <2>2, <2>3, <2>4 DEF Midway
<1>4. ASSUME NEW p \in Procs, Start(p)
      PROVE  StoryInv'
  BY <1>3, <1>4 DEF Start, At, StoryInv
<1>5. ASSUME NEW p \in Procs, Stop(p)
      PROVE  StoryInv'
  <2>1. \A w \in Workers : Home[w] = p => pc[w] = "idle"
    BY <1>5 DEF Stop, AtRest, Threads, TypeOK, RunsTyped
  <2>2. \A w \in Workers : pc'[w] = pc[w] /\ (pc[w] # "idle" => loc'[w] = loc[w])
    BY <1>1, <1>5, <2>1 DEF Stop
  <2>3. \A l \in Marks : \A d : At(l, d)' <=> At(l, d)
    BY <2>2 DEF At
  <2>4. QED
    BY <1>3, <1>5, <2>3 DEF Stop, StoryInv
<1>6. CASE UNCHANGED vars
  BY <1>3, <1>6 DEF vars, At, StoryInv
<1>7. ASSUME NEW w \in Workers, Acts(w)
      PROVE  StoryInv'
  <2>1. \A l \in Marks : \A d : /\ At(l, d) <=> pc[w] = l /\ loc[w].did = d
                                /\ At(l, d)' <=> pc'[w] = l /\ loc'[w].did = d
    BY <1>1, <1>2, <1>7, WhereTheCallIs
  <2>2. ASSUME UNCHANGED <<disk, trail>>, pc[w] \notin Marks, pc'[w] \notin Marks
        PROVE  StoryInv'
    BY <1>3, <2>1, <2>2 DEF StoryInv
  <2>3. ASSUME NEW d \in Nat \ {0}
        PROVE  Story(d) /\ Midway(d)
    BY DEF StoryInv
  <2>4. ASSUME NEW inc \in Incidents, NEW a \in Actions, NEW risk \in Risks,
               Refuse(w, inc, a, risk)
        PROVE  StoryInv'
    <3>1. /\ UNCHANGED <<disk, pc, loc>> /\ pc[w] = "idle"
          /\ trail' = Append(trail, [event |-> "refused", did |-> 0])
      BY <2>4 DEF Refuse, Called
    <3>2. ASSUME NEW d \in Nat \ {0}
          PROVE  Story(d)' /\ Midway(d)'
      <4>1. \A e : Mentions(e, d)' = Mentions(e, d)
        BY <3>1, MentionsGrow
      <4>2. \A l \in Marks : ~At(l, d) /\ ~At(l, d)'
        BY <2>1, <3>1
      <4>3. /\ Asked(d)' <=> Asked(d)
            /\ UsedUp(d)' <=> UsedUp(d)
            /\ \A v : Ruled(v, d)' <=> Ruled(v, d)
        BY <3>1, <4>2 DEF Asked, Ruled, UsedUp
      <4>4. Story(d)'
        BY <2>3, <4>1, <4>3, StoryStands
      <4>5. QED
        BY <4>2, <4>4 DEF Midway
    <3>3. QED
      BY <3>2 DEF StoryInv
  <2>5. ASSUME NEW inc \in Incidents, NEW a \in Actions, NEW risk \in Risks,
               Proceed(w, inc, a, risk)
        PROVE  StoryInv'
    <3>1. UNCHANGED <<disk, trail>> /\ pc[w] = "idle" /\ pc'[w] = "execute"
      BY <1>1, <2>5 DEF Proceed, Called, Goto
    <3>2. QED
      BY <2>2, <3>1
  <2>6. ASSUME NEW inc \in Incidents, NEW a \in Actions, NEW risk \in Risks,
               Ask(w, inc, a, risk)
        PROVE  StoryInv'
    <3> DEFINE n   == opened + 1
               req == NewRequest(a, inc, RequiredRole(Access, SensitivityOf(a), risk))
    <3>1. /\ trail' = trail /\ pc[w] = "idle" /\ pc'[w] = "requested" /\ loc'[w].did = n
          /\ disk' = Opened(disk, n, req) /\ n \notin DOMAIN disk
      BY <1>1, <2>6, IdsArePositive DEF Ask, Called, Goto, Responding, MemoryIsDisk
    <3>2. /\ DOMAIN disk' = DOMAIN disk \cup {n} /\ \A d \in DOMAIN disk : disk'[d] = disk[d]
          /\ disk'[n] = req
      BY <3>1 DEF Opened
    <3>3. req.status = "pending" /\ ~req.consumed
      BY DEF NewRequest, RequestWith
    <3>4. ASSUME NEW d \in Nat \ {0}
          PROVE  Story(d)' /\ Midway(d)'
      <4>1. \A e : Mentions(e, d)' = Mentions(e, d)
        BY <3>1 DEF Mentions
      <4>2. /\ \A l \in Marks : ~At(l, d)
            /\ \A l \in Marks : At(l, d)' <=> l = "requested" /\ d = n
        BY <2>1, <3>1
      <4>3. /\ Asked(d)' <=> Asked(d)
            /\ UsedUp(d)' <=> UsedUp(d)
            /\ \A v \in {"approved", "denied"} : Ruled(v, d)' <=> Ruled(v, d)
        BY <3>1, <3>2, <3>3, <4>2 DEF Asked, Ruled, UsedUp
      <4>4. Story(d)'
        BY <2>3, <4>1, <4>3, StoryStands
      <4>5. QED
        BY <3>2, <3>3, <4>2, <4>4 DEF Midway
    <3>5. QED
      BY <3>4 DEF StoryInv
  <2>7. CASE Resolve(w) \/ Approve(w)
    <3>1. /\ UNCHANGED <<disk, trail>> /\ pc[w] = "idle" /\ pc'[w] \in {"resolve", "granted"}
      BY <1>1, <2>7 DEF Resolve, Approve, Called, Goto
    <3>2. QED
      BY <2>2, <3>1
  <2>8. CASE Execute(w)
    <3>1. /\ UNCHANGED <<disk, trail, loc>> /\ pc[w] = "execute"
          /\ pc'[w] = IF loc[w].did = 0 THEN "executed" ELSE "consume"
      BY <1>1, <2>8 DEF Execute
    <3>2. loc[w].did # 0 => loc[w].did \in DOMAIN disk /\ ~disk[loc[w].did].consumed
      BY <3>1 DEF CallInv, Informed, KnowsToAct
    <3>3. ASSUME NEW d \in Nat \ {0}
          PROVE  Story(d)' /\ Midway(d)'
      <4>1. \A e : Mentions(e, d)' = Mentions(e, d)
        BY <3>1 DEF Mentions
      <4>2. /\ \A l \in Marks : ~At(l, d)
            /\ \A l \in Marks : At(l, d)' <=> l = "consume" /\ d = loc[w].did
        BY <2>1, <3>1
      <4>3. /\ Asked(d)' <=> Asked(d)
            /\ UsedUp(d)' <=> UsedUp(d)
            /\ \A v : Ruled(v, d)' <=> Ruled(v, d)
        BY <3>1, <4>2 DEF Asked, Ruled, UsedUp
      <4>4. Story(d)'
        BY <2>3, <4>1, <4>3, StoryStands
      <4>5. QED
        BY <3>1, <3>2, <4>2, <4>4 DEF Midway
    <3>4. QED
      BY <3>3 DEF StoryInv
  <2>9. CASE MarkConsumed(w)
    <3>1. /\ UNCHANGED <<trail, loc>> /\ pc[w] = "consume" /\ pc'[w] = "consumed"
          /\ disk' = Consumed(disk, loc[w].did)
      BY <1>1, <2>9 DEF MarkConsumed, TypeOK, ThreadsLive, MemoryIsDisk
    <3>2. PICK c : c = loc[w].did
      OBVIOUS
    <3>3. c # 0 /\ c \in DOMAIN disk /\ c \in Nat
      BY <1>1, <3>1, <3>2 DEF CallInv, Informed, KnowsOfUse, Local
    <3>4. ~disk[c].consumed
      BY <2>1, <2>3, <3>1, <3>2, <3>3 DEF Midway
    <3>5. /\ DOMAIN disk' = DOMAIN disk
          /\ \A d \in DOMAIN disk : disk'[d].status = disk[d].status
          /\ \A d \in DOMAIN disk : d # c => disk'[d].consumed = disk[d].consumed
      BY <3>1, <3>2, <3>3, IdsArePositive DEF Consumed, Request
    <3>6. ASSUME NEW d \in Nat \ {0}
          PROVE  Story(d)' /\ Midway(d)'
      <4>1. \A e : Mentions(e, d)' = Mentions(e, d)
        BY <3>1 DEF Mentions
      <4>2. /\ \A l \in Marks : At(l, d) <=> l = "consume" /\ d = c
            /\ \A l \in Marks : At(l, d)' <=> l = "consumed" /\ d = c
        BY <2>1, <3>1, <3>2
      <4>3. /\ Asked(d)' <=> Asked(d)
            /\ UsedUp(d)' <=> UsedUp(d)
            /\ \A v : Ruled(v, d)' <=> Ruled(v, d)
        BY <3>4, <3>5, <4>2 DEF Asked, Ruled, UsedUp
      <4>4. Story(d)'
        BY <2>3, <4>1, <4>3, StoryStands
      <4>5. QED
        BY <4>2, <4>4 DEF Midway
    <3>7. QED
      BY <3>6 DEF StoryInv
  <2>10. CASE CommitResolution(w)
    <3> DEFINE new    == Resolved(Access, disk[loc[w].did], loc[w].verdict, loc[w].role)
               junior == TooJunior(Access, disk[loc[w].did], loc[w].verdict, loc[w].role)
    <3>1. /\ UNCHANGED <<trail, loc>> /\ pc[w] = "resolve"
          /\ pc'[w] = IF junior THEN "escalated" ELSE "resolved"
          /\ disk' = [disk EXCEPT ![loc[w].did] = new]
      BY <1>1, <2>10 DEF CommitResolution, TypeOK, ThreadsLive, MemoryIsDisk
    <3>2. PICK c : c = loc[w].did
      OBVIOUS
    <3>3. c \in DOMAIN disk /\ disk[c].status = "pending"
      BY <3>1, <3>2 DEF CallInv, Informed, KnowsOfVerdict
    <3>4. /\ new.consumed = disk[c].consumed
          /\ junior => new.status = disk[c].status
      BY <3>2 DEF Resolved, RequestWith
    <3>5. /\ DOMAIN disk' = DOMAIN disk
          /\ \A d \in DOMAIN disk : disk'[d].consumed = disk[d].consumed
          /\ \A d \in DOMAIN disk : d # c \/ junior => disk'[d].status = disk[d].status
      BY <3>1, <3>2, <3>3, <3>4
    <3>6. ASSUME NEW d \in Nat \ {0}
          PROVE  Story(d)' /\ Midway(d)'
      <4>1. \A e : Mentions(e, d)' = Mentions(e, d)
        BY <3>1 DEF Mentions
      <4>2. /\ \A l \in Marks : ~At(l, d)
            /\ \A l \in Marks : At(l, d)' <=> l = "resolved" /\ d = c /\ ~junior
        BY <2>1, <3>1, <3>2
      <4>3. /\ Asked(d)' <=> Asked(d)
            /\ UsedUp(d)' <=> UsedUp(d)
            /\ \A v \in {"approved", "denied"} : Ruled(v, d)' <=> Ruled(v, d)
        BY <3>3, <3>5, <4>2 DEF Asked, Ruled, UsedUp
      <4>4. Story(d)'
        BY <2>3, <4>1, <4>3, StoryStands
      <4>5. QED
        BY <4>2, <4>4 DEF Midway
    <3>7. QED
      BY <3>6 DEF StoryInv
  <2>11. CASE GrantApproved(w)
    <3>1. UNCHANGED <<disk, trail>> /\ pc[w] = "grant" /\ pc'[w] \in {"granted", "idle"}
      BY <1>1, <2>11 DEF GrantApproved, Goto
    <3>2. QED
      BY <2>2, <3>1
  <2>12. CASE Audit(w)
    <3>1. /\ disk' = disk /\ pc[w] \in AuditPoints
          /\ pc'[w] = AfterAudit(pc[w])
          /\ pc'[w] # "idle" => loc'[w] = loc[w]
      BY <1>1, <2>12 DEF Audit, Goto
    <3>2. PICK x, c : /\ trail' = Append(trail, [event |-> x, did |-> c])
                      /\ x = EventAt(w).event /\ c = loc[w].did
      BY <2>12, AuditedEvent
    <3>3. KnowsOfUse(w) /\ KnowsOfVerdict(w)
      BY DEF CallInv, Informed
    <3>4. ASSUME NEW d \in Nat \ {0}, d # c
          PROVE  Story(d)' /\ Midway(d)'
      <4>1. \A e : Mentions(e, d)' = Mentions(e, d)
        BY <3>2, <3>4, MentionsGrow
      <4>2. \A l \in Marks : ~At(l, d) /\ ~At(l, d)'
        BY <2>1, <3>1, <3>2, <3>4
      <4>3. /\ Asked(d)' <=> Asked(d)
            /\ UsedUp(d)' <=> UsedUp(d)
            /\ \A v : Ruled(v, d)' <=> Ruled(v, d)
        BY <3>1, <4>2 DEF Asked, Ruled, UsedUp
      <4>4. Story(d)'
        BY <2>3, <4>1, <4>3, StoryStands
      <4>5. QED
        BY <4>2, <4>4 DEF Midway
    <3>5. ASSUME c \in Nat \ {0}
          PROVE  Story(c)' /\ Midway(c)'
      <4> DEFINE n == Len(trail) + 1
      <4>1. Story(c) /\ Midway(c)
        BY <2>3, <3>5
      <4>2. /\ \A e : e # x => Mentions(e, c)' = Mentions(e, c)
            /\ Mentions(x, c)' = Mentions(x, c) \cup {n}
            /\ \A e : \A i \in Mentions(e, c) : i \in Nat /\ i < n
        BY <3>2, MentionsGrow
      <4>3. /\ \A l \in Marks : At(l, c) <=> pc[w] = l
            /\ \A l \in Marks : At(l, c)' <=> l = "executed" /\ pc[w] = "consumed"
        <5>1. pc'[w] \in Marks <=> pc'[w] = "executed" /\ pc[w] = "consumed"
          BY <3>1 DEF AfterAudit
        <5>2. \A l \in Marks : At(l, c) <=> pc[w] = l
          BY <2>1, <3>2
        <5>3. \A l \in Marks : At(l, c)' <=> pc'[w] = l /\ loc'[w].did = c
          BY <2>1
        <5>4. pc'[w] = "executed" => loc'[w].did = c
          BY <3>1, <3>2
        <5>5. pc[w] = "consumed" => pc'[w] = "executed"
          BY <3>1 DEF AfterAudit
        <5>6. QED
          BY <5>1, <5>2, <5>3, <5>4, <5>5
      <4> HIDE DEF n
      <4>4. CASE pc[w] = "requested"
        <5>1. x = "requested" /\ c \in DOMAIN disk /\ disk[c].status = "pending" /\ ~disk[c].consumed
          BY <2>12, <3>2, <4>1, <4>3, <4>4, AuditedEvent DEF Midway
        <5>2. /\ ~Asked(c) /\ Asked(c)'
              /\ UsedUp(c)' <=> UsedUp(c)
              /\ \A v : Ruled(v, c)' <=> Ruled(v, c)
              /\ \A v \in {"approved", "denied"} : ~Ruled(v, c)
          BY <3>1, <4>3, <4>4, <5>1 DEF Asked, Ruled, UsedUp
        <5>3. Mentions(x, c)' = {n}
          BY <4>1, <4>2, <5>1, <5>2 DEF Story, OnRecord
        <5>4. \A v \in {"approved", "denied"} : Mentions(v, c)' = {}
          BY <4>1, <4>2, <5>1, <5>2 DEF Story, OnRecord
        <5>5. Story(c)'
          BY <4>1, <4>2, <5>1, <5>2, <5>3, <5>4 DEF Story, OnRecord, Before
        <5>6. QED
          BY <4>3, <4>4, <5>5 DEF Midway
      <4>5. CASE pc[w] = "resolved"
        <5>1. /\ c \in DOMAIN disk /\ disk[c].status = x /\ x # "pending" /\ ~disk[c].consumed
          BY <1>1, <3>1, <3>2, <3>3, <4>5
             DEF KnowsOfVerdict, EventAt, MemoryIsDisk, TypeOK, ThreadsLive
        <5>2. x \in {"approved", "denied"}
          BY <5>1, IdsArePositive DEF Request, Statuses
        <5>3. /\ Asked(c)' <=> Asked(c)
              /\ ~UsedUp(c) /\ ~UsedUp(c)'
              /\ ~Ruled(x, c) /\ Ruled(x, c)'
              /\ \A v : v # x => ~Ruled(v, c) /\ ~Ruled(v, c)'
          BY <3>1, <4>3, <4>5, <5>1 DEF Asked, Ruled, UsedUp
        <5>4. Mentions(x, c)' = {n} /\ Mentions("consumed", c)' = {}
          BY <4>1, <4>2, <5>2, <5>3 DEF Story, OnRecord
        <5>5. ASSUME NEW v \in {"approved", "denied"}
              PROVE  /\ OnRecord(v, c, Ruled(v, c))'
                     /\ Before(Mentions("requested", c), Mentions(v, c))'
                     /\ Before(Mentions(v, c), Mentions("consumed", c))'
          <6>1. CASE v = x
            <7>1. OnRecord(v, c, Ruled(v, c))'
              BY <5>3, <5>4, <6>1 DEF OnRecord
            <7>2. Mentions("requested", c)' = Mentions("requested", c)
              BY <4>2, <5>2
            <7>3. Before(Mentions("requested", c), Mentions(v, c))'
              BY <4>2, <5>4, <6>1, <7>2 DEF Before
            <7>4. Before(Mentions(v, c), Mentions("consumed", c))'
              BY <5>4 DEF Before
            <7>5. QED
              BY <7>1, <7>3, <7>4
          <6>2. CASE v # x
            BY <4>1, <4>2, <5>2, <5>3, <5>4, <6>2 DEF Story, OnRecord, Before
          <6>3. QED
            BY <6>1, <6>2
        <5>6. Story(c)'
          BY <4>1, <4>2, <5>2, <5>3, <5>4, <5>5 DEF Story, OnRecord, Before
        <5>7. QED
          BY <4>3, <4>5, <5>6 DEF Midway
      <4>6. CASE pc[w] = "consumed"
        <5>1. x = "consumed" /\ c \in DOMAIN disk /\ disk[c].consumed
          BY <2>12, <3>2, <3>3, <4>6, AuditedEvent DEF KnowsOfUse
        <5>2. /\ Asked(c)' <=> Asked(c)
              /\ ~UsedUp(c) /\ UsedUp(c)'
              /\ \A v : Ruled(v, c)' <=> Ruled(v, c)
          BY <3>1, <4>3, <4>6, <5>1 DEF Asked, Ruled, UsedUp
        <5>3. Mentions(x, c)' = {n} /\ Mentions("executed", c)' = {}
          BY <4>1, <4>2, <5>1, <5>2 DEF Story, OnRecord
        <5>4. \A e : e # "consumed" => Mentions(e, c)' = Mentions(e, c)
          BY <4>2, <5>1
        <5>5. /\ OnRecord("requested", c, Asked(c))'
              /\ OnRecord("consumed", c, UsedUp(c))'
              /\ Mentions("pending", c)' = {}
          BY <4>1, <5>1, <5>2, <5>3, <5>4 DEF Story, OnRecord
        <5>6. ASSUME NEW v \in {"approved", "denied"}
              PROVE  /\ OnRecord(v, c, Ruled(v, c))'
                     /\ Before(Mentions("requested", c), Mentions(v, c))'
                     /\ Before(Mentions(v, c), Mentions("consumed", c))'
          <6>1. OnRecord(v, c, Ruled(v, c))'
            BY <4>1, <5>2, <5>4 DEF Story, OnRecord
          <6>2. Before(Mentions("requested", c), Mentions(v, c))'
            BY <4>1, <5>4 DEF Story, Before
          <6>3. Before(Mentions(v, c), Mentions("consumed", c))'
            BY <4>2, <5>1, <5>3, <5>4 DEF Before
          <6>4. QED
            BY <6>1, <6>2, <6>3
        <5>7. Before(Mentions("consumed", c), Mentions("executed", c))'
          BY <5>3 DEF Before
        <5>8. Story(c)'
          BY <5>2, <5>5, <5>6, <5>7 DEF Story
        <5>9. QED
          BY <4>3, <4>6, <5>2, <5>8 DEF Midway
      <4>7. CASE pc[w] = "executed"
        <5>1. x = "executed" /\ UsedUp(c)
          BY <2>12, <3>2, <4>1, <4>3, <4>7, AuditedEvent DEF Midway
        <5>2. /\ Asked(c)' <=> Asked(c)
              /\ UsedUp(c)'
              /\ \A v : Ruled(v, c)' <=> Ruled(v, c)
          BY <3>1, <4>3, <4>7, <5>1 DEF Asked, Ruled, UsedUp
        <5>3. \A e : e # "executed" => Mentions(e, c)' = Mentions(e, c)
          BY <4>2, <5>1
        <5>4. /\ OnRecord("requested", c, Asked(c))'
              /\ OnRecord("consumed", c, UsedUp(c))'
              /\ Mentions("pending", c)' = {}
          BY <4>1, <5>1, <5>2, <5>3 DEF Story, OnRecord
        <5>5. ASSUME NEW v \in {"approved", "denied"}
              PROVE  /\ OnRecord(v, c, Ruled(v, c))'
                     /\ Before(Mentions("requested", c), Mentions(v, c))'
                     /\ Before(Mentions(v, c), Mentions("consumed", c))'
          <6>1. OnRecord(v, c, Ruled(v, c))'
            BY <4>1, <5>2, <5>3 DEF Story, OnRecord
          <6>2. QED
            BY <4>1, <5>3, <6>1 DEF Story, Before
        <5>6. Before(Mentions("consumed", c), Mentions("executed", c))'
          BY <4>1, <4>2, <5>1, <5>3 DEF Story, Before
        <5>7. Story(c)'
          BY <5>2, <5>4, <5>5, <5>6 DEF Story
        <5>8. QED
          BY <4>3, <4>7, <5>2, <5>7 DEF Midway
      <4>8. CASE pc[w] \in {"escalated", "granted"}
        <5>1. x \in {"escalated", "granted"}
          BY <2>12, <3>2, <4>8, AuditedEvent
        <5>2. /\ Asked(c)' <=> Asked(c)
              /\ UsedUp(c)' <=> UsedUp(c)
              /\ \A v : Ruled(v, c)' <=> Ruled(v, c)
          BY <3>1, <4>3, <4>8 DEF Asked, Ruled, UsedUp
        <5>3. \A e : e \notin {"escalated", "granted"} => Mentions(e, c)' = Mentions(e, c)
          BY <4>2, <5>1
        <5>4. Story(c)'
          BY <4>1, <5>2, <5>3, StoryStands
        <5>5. QED
          BY <4>3, <4>8, <5>4 DEF Midway
      <4>9. QED
        BY <3>1, <4>4, <4>5, <4>6, <4>7, <4>8 DEF AuditPoints
    <3>6. QED
      BY <3>4, <3>5 DEF StoryInv
  <2>13. QED
    BY <1>7, <2>4, <2>5, <2>6, <2>7, <2>8, <2>9, <2>10, <2>11, <2>12
       DEF Acts, Respond, Step
<1>8. QED
  BY <1>4, <1>5, <1>6, <1>7 DEF Next, Acts

(* Processes that come one after another and are not killed leave, once    *)
(* every call has returned, a trail from which each decision can be told:  *)
(* asked once, ruled on once, consumed once, executed after that.          *)
THEOREM TrailIsComplete ==
  ASSUME Exclusive, SingleThreaded, MaxCrashes = 0
  PROVE  Spec => []TrailComplete
<1>1. Init => StoryInv
  <2> SUFFICES ASSUME Init, NEW d \in Nat \ {0}
               PROVE  Story(d) /\ Midway(d)
    BY DEF StoryInv
  <2>1. DOMAIN disk = {} /\ \A e : Mentions(e, d) = {}
    BY DEF Init, Mentions, NoRequests
  <2>2. \A l \in {"requested", "consume", "executed"} : ~At(l, d)
    BY DEF Init, At
  <2>3. QED
    BY <2>1, <2>2 DEF Story, Midway, OnRecord, Before, Asked, Ruled, UsedUp
<1>2. TypeOK /\ CallInv /\ StoryInv /\ [Next]_vars => StoryInv'
  BY StoryStep
<1>3. TypeOK /\ CallInv /\ StoryInv => TrailComplete
  <2> SUFFICES ASSUME TypeOK, CallInv, StoryInv, \A w \in Workers : pc[w] = "idle",
                      NEW d \in DOMAIN disk
               PROVE  /\ Cardinality(Mentions("requested", d)) = 1
                      /\ disk[d].status # "pending" => Cardinality(Mentions(disk[d].status, d)) = 1
                      /\ disk[d].consumed => Cardinality(Mentions("consumed", d)) = 1
                      /\ Before(Mentions("requested", d), Mentions(disk[d].status, d))
                      /\ Before(Mentions(disk[d].status, d), Mentions("consumed", d))
                      /\ Before(Mentions("consumed", d), Mentions("executed", d))
    BY DEF TrailComplete
  <2>1. d \in Nat \ {0} /\ disk[d].status \in Statuses
    BY IdsArePositive DEF Request, TypeOK, QueuesTyped
  <2>2. Story(d)
    BY <2>1 DEF StoryInv
  <2>3. \A l \in {"requested", "resolved", "consumed"} : ~At(l, d)
    BY DEF At
  <2>4. \A e : (\E i : Mentions(e, d) = {i}) => Cardinality(Mentions(e, d)) = 1
    BY FS_Singleton
  <2>5. PICK v : v = disk[d].status
    OBVIOUS
  <2>6. Asked(d) /\ Ruled(v, d) /\ (disk[d].consumed => UsedUp(d))
    BY <2>3, <2>5 DEF Asked, Ruled, UsedUp
  <2>7. /\ \E i : Mentions("requested", d) = {i}
        /\ v # "pending" => \E i : Mentions(v, d) = {i}
        /\ disk[d].consumed => \E i : Mentions("consumed", d) = {i}
    BY <2>1, <2>2, <2>5, <2>6 DEF Story, OnRecord, Statuses
  <2>8. /\ Before(Mentions("requested", d), Mentions(v, d))
        /\ Before(Mentions(v, d), Mentions("consumed", d))
        /\ Before(Mentions("consumed", d), Mentions("executed", d))
    BY <2>1, <2>2, <2>5 DEF Story, Statuses, Before
  <2>9. QED
    BY <2>4, <2>5, <2>7, <2>8
<1>4. QED
  BY <1>1, <1>2, <1>3, CallsAreInformed, TypeInvariant, PTL DEF Spec
=============================================================================
