---------------------------- MODULE PolicyEngine ----------------------------
(***************************************************************************)
(* PolicyEngine (policy.py).  A pattern is the set of actions fnmatch      *)
(* accepts for it.  `actions` is the policy's `actions` block: deny,       *)
(* require_approval and allow are sets of patterns and default an effect;  *)
(* the first pattern of a list that matches only names the rule reported,  *)
(* so a rule is named after its list.  `approvals` are the patterns humans *)
(* granted to this process.                                                *)
(***************************************************************************)

Match(action, patterns) == \E pattern \in patterns : action \in pattern

\* _find_approval
Granted(approvals, action) == Match(action, approvals)

\* evaluate: deny, then require_approval (met by a grant), then allow.
Evaluate(actions, approvals, action) ==
  CASE Match(action, actions.deny) ->
         [effect |-> "deny", rule |-> "deny"]
    [] ~Match(action, actions.deny) /\ Match(action, actions.require_approval) ->
         [effect |-> IF Granted(approvals, action) THEN "allow" ELSE "require_approval",
          rule   |-> "require_approval"]
    [] ~Match(action, actions.deny \cup actions.require_approval)
         /\ Match(action, actions.allow) ->
         [effect |-> "allow", rule |-> "allow"]
    [] OTHER ->
         [effect |-> actions.default, rule |-> "default"]

\* PolicyDecision.allowed
Allowed(actions, approvals, action) == Evaluate(actions, approvals, action).effect = "allow"

\* engine.soc_respond: allowed by a rule or a grant, not by the default.
Standing(actions, approvals, action) ==
  Allowed(actions, approvals, action) /\ Evaluate(actions, approvals, action).rule # "default"
=============================================================================
