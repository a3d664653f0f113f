-------------------------- MODULE OneShotApproval ---------------------------
(***************************************************************************)
(* What the response gate promises (ARCHITECTURE.md, "Graduated Autonomy   *)
(* with Escalation"), without processes, files or threads: an action that  *)
(* is not free happens on a standing grant or uses up one decision that a  *)
(* human approved for it; a decision is pending until it is approved or    *)
(* denied, and approved until it is used.                                  *)
(***************************************************************************)
EXTENDS Integers, Sequences

CONSTANTS Actions, Incidents, FreeActions

VARIABLES decisions,   \* decision id -> [action, incident, state]
          standing,    \* actions a human granted for as long as this run lasts
          acts         \* the actions executed, each with the decision it used, or 0

vars == <<decisions, standing, acts>>

Init ==
  /\ decisions = [d \in {} |-> {}]
  /\ standing = {}
  /\ acts = << >>

\* A new id is asked about.
Ask ==
  /\ \E d \in DOMAIN decisions' \ DOMAIN decisions, a \in Actions, inc \in Incidents :
       /\ d \in Nat \ {0}
       /\ DOMAIN decisions' = DOMAIN decisions \cup {d}
       /\ \A e \in DOMAIN decisions : decisions'[e] = decisions[e]
       /\ decisions'[d] = [action |-> a, incident |-> inc, state |-> "pending"]
  /\ UNCHANGED <<standing, acts>>

Decide(d) ==
  /\ decisions[d].state = "pending"
  /\ \E verdict \in {"approved", "denied"} :
       decisions' = [decisions EXCEPT ![d].state = verdict]
  /\ UNCHANGED <<standing, acts>>

Use(d) ==
  /\ decisions[d].state = "approved"
  /\ decisions' = [decisions EXCEPT ![d].state = "used"]
  /\ acts' = Append(acts, [did |-> d, action |-> decisions[d].action,
                           incident |-> decisions[d].incident])
  /\ UNCHANGED standing

ActFreely ==
  /\ \E a \in FreeActions \cup standing, inc \in Incidents :
       acts' = Append(acts, [did |-> 0, action |-> a, incident |-> inc])
  /\ UNCHANGED <<decisions, standing>>

\* Grants are given by humans and end with the run.
Grant ==
  /\ standing' \in SUBSET Actions
  /\ standing \subseteq standing' \/ standing' = {}
  /\ UNCHANGED <<decisions, acts>>

Next ==
  \/ Ask \/ ActFreely \/ Grant
  \/ \E d \in DOMAIN decisions : Decide(d) \/ Use(d)

Spec == Init /\ [][Next]_vars
=============================================================================
