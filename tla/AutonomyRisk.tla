---------------------------- MODULE AutonomyRisk ----------------------------
(***************************************************************************)
(* AutonomyPolicy.evaluate while an incident gets worse: one access block  *)
(* and one tier, and a risk score that rises.                              *)
(***************************************************************************)
EXTENDS AutonomyPolicy

CONSTANTS Blocks,    \* access blocks considered
          Scores     \* risk scores

ASSUME RiskAssumption == Blocks \subseteq AccessBlocks /\ Scores \subseteq Int

VARIABLES cfg, tier, risk

vars == <<cfg, tier, risk>>

Init ==
  /\ cfg \in Blocks
  /\ tier \in TierNames
  /\ risk \in Scores /\ \A score \in Scores : risk <= score

Worsen ==
  /\ \E score \in Scores : score > risk /\ risk' = score
  /\ UNCHANGED <<cfg, tier>>

Next == Worsen

Spec == Init /\ [][Next]_vars

-----------------------------------------------------------------------------
(* A rising risk never relaxes the gate: the role it asks for does not     *)
(* rank lower than before, and the level of autonomy is not freer.         *)
RiskNeverRelaxes ==
  [][/\ RoleRank(cfg.roles, RequiredRole(cfg, tier, risk'))
          >= RoleRank(cfg.roles, RequiredRole(cfg, tier, risk))
     /\ Strictness(LevelFor(cfg, tier, risk')) >= Strictness(LevelFor(cfg, tier, risk))]_vars

(* From the threshold on a consequential action is left to the agent alone *)
(* only where the chain has no role above the one it already needs.        *)
HotActionsNeedAHuman ==
  /\ TierRank(tier) >= TierRank("active")
  /\ risk >= cfg.threshold
  /\ LevelFor(cfg, tier, risk) \in {"auto", "notify"}
  => RoleRank(cfg.roles, cfg.minRole[tier]) = Len(cfg.roles) - 1
=============================================================================
