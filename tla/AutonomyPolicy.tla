--------------------------- MODULE AutonomyPolicy ---------------------------
(***************************************************************************)
(* AutonomyPolicy (access.py): how much a human is involved in an action.  *)
(* A configuration `cfg` is the policy's `access` block after from_policy: *)
(* [roles, autonomy, minRole, threshold].  A role that is not in the chain *)
(* (a typing error in policy.yaml or in --role) has rank -1.               *)
(***************************************************************************)
EXTENDS Integers, Sequences

Tiers  == <<"observe", "enrich", "active", "respond", "destructive">>
Levels == <<"auto", "notify", "confirm", "escalate", "deny">>

TierNames  == {Tiers[i]  : i \in 1..5}
LevelNames == {Levels[i] : i \in 1..5}

\* Sensitivity.rank
TierRank(t) == CHOOSE i \in 1..5 : Tiers[i] = t

\* The order in which access.py lists the levels, from free to forbidden.
Strictness(level) == CHOOSE i \in 1..5 : Levels[i] = level

Positions(roles, r) == {i \in 1..Len(roles) : roles[i] = r}

\* self.roles.index(role) if role in self.roles else -1
RoleRank(roles, r) ==
  IF Positions(roles, r) = {} THEN -1
  ELSE (CHOOSE i \in Positions(roles, r) : \A j \in Positions(roles, r) : i <= j) - 1

\* The blocks considered: a level and a role for every tier, no role twice in the chain.
AccessBlocks ==
  {cfg \in [roles     : Seq(STRING),
            autonomy  : [TierNames -> LevelNames],
            minRole   : [TierNames -> STRING],
            threshold : Int] :
     \A i, j \in 1..Len(cfg.roles) : cfg.roles[i] = cfg.roles[j] => i = j}

(***************************************************************************)
(* AutonomyPolicy.evaluate: from the threshold on, a consequential tier    *)
(* needs the next role of the chain, if there is one, and is not left to   *)
(* the agent alone.                                                        *)
(***************************************************************************)
Bumped(cfg, tier, risk) ==
  /\ TierRank(tier) >= TierRank("active")
  /\ risk >= cfg.threshold
  /\ RoleRank(cfg.roles, cfg.minRole[tier]) < Len(cfg.roles) - 1

RequiredRole(cfg, tier, risk) ==
  IF Bumped(cfg, tier, risk)
  THEN cfg.roles[RoleRank(cfg.roles, cfg.minRole[tier]) + 2]
  ELSE cfg.minRole[tier]

\* Mutants: a higher role is asked for but no human; every bump means "confirm".
LevelAsConfigured(cfg, tier, risk) == cfg.autonomy[tier]

LevelConfirmed(cfg, tier, risk) ==
  IF Bumped(cfg, tier, risk) THEN "confirm" ELSE cfg.autonomy[tier]

LevelFor(cfg, tier, risk) ==
  IF Bumped(cfg, tier, risk) /\ cfg.autonomy[tier] \in {"auto", "notify"}
  THEN "confirm"
  ELSE cfg.autonomy[tier]

\* DecisionBroker.resolve lets `role` approve what needs `required`.
MayApprove(cfg, role, required) ==
  RoleRank(cfg.roles, role) >= RoleRank(cfg.roles, required)
=============================================================================
