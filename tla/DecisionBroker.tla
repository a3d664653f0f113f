--------------------------- MODULE DecisionBroker ---------------------------
(***************************************************************************)
(* The decision queue of DecisionBroker (access.py): what its operations   *)
(* do to `requests`, the map from decision ids to requests a process holds *)
(* in memory and _save writes, whole, to decisions.json.  An id is the *)
(* hash of the action, its context and the time: the count of requests     *)
(* opened so far stands for it.                                            *)
(***************************************************************************)
EXTENDS AutonomyPolicy, FiniteSets

NoRequests == [d \in {} |-> {}]

Statuses == {"pending", "approved", "denied"}

\* DecisionRequest, with the number of entries of `escalations`.
RequestWith(action, incident, role, status, resolvedRole, escalations, consumed) ==
  [action |-> action, incident |-> incident, required |-> role, status |-> status,
   resolvedRole |-> resolvedRole, escalations |-> escalations, consumed |-> consumed]

NewRequest(action, incident, role) ==
  RequestWith(action, incident, role, "pending", "none", 0, FALSE)

\* Mutant: the queue is replaced by the new request.
OpenedAlone(requests, d, req) == [e \in {d} |-> req]

Opened(requests, d, req) ==
  [e \in DOMAIN requests \cup {d} |-> IF e = d THEN req ELSE requests[e]]

Pending(requests) == {d \in DOMAIN requests : requests[d].status = "pending"}

\* Mutant: any decision about the action and the incident will do.
AskedFor(requests, action, incident) ==
  {d \in DOMAIN requests : /\ ~requests[d].consumed
                           /\ requests[d].action = action
                           /\ requests[d].incident = incident}

\* approved_for returns one of these; which one depends on the dict's order.
ApprovedFor(requests, action, incident) ==
  {d \in DOMAIN requests :
     /\ requests[d].status = "approved"
     /\ ~requests[d].consumed
     /\ requests[d].action = action
     /\ requests[d].incident = incident}

\* Mutant: the use is not recorded.
ConsumedNothing(requests, d) == requests

Consumed(requests, d) == [requests EXCEPT ![d].consumed = TRUE]

\* Mutant: roles are not compared.
NobodyTooJunior(cfg, req, verdict, role) == FALSE

\* resolve: too junior to approve?
TooJunior(cfg, req, verdict, role) ==
  verdict = "approve" /\ ~MayApprove(cfg, role, req.required)

\* Mutant: the verdict is stored as the human typed it.
ResolvedVerbatim(cfg, req, verdict, role) ==
  RequestWith(req.action, req.incident, req.required, verdict, role,
              req.escalations, req.consumed)

\* resolve, past the check that the request is pending.
Resolved(cfg, req, verdict, role) ==
  IF TooJunior(cfg, req, verdict, role)
  THEN RequestWith(req.action, req.incident, req.required, req.status, req.resolvedRole,
                   req.escalations + 1, req.consumed)
  ELSE RequestWith(req.action, req.incident, req.required,
                   IF verdict = "approve" THEN "approved" ELSE "denied", role,
                   req.escalations, req.consumed)
=============================================================================
