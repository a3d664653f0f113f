------------------------- MODULE AutonomyRiskProofs -------------------------
(* Proofs about AutonomyPolicy.evaluate as the risk of an incident rises. *)
EXTENDS AutonomyRisk, AutonomyPolicyProofs

(* Type of the model's state. *)
RiskTypes == cfg \in AccessBlocks /\ tier \in TierNames /\ risk \in Int

(* Every step keeps the types. *)
LEMMA Typed == Spec => []RiskTypes
<1>1. Init => RiskTypes
  BY RiskAssumption DEF Init, RiskTypes
<1>2. RiskTypes /\ [Next]_vars => RiskTypes'
  BY RiskAssumption DEF RiskTypes, Next, Worsen, vars
<1>3. QED
  BY <1>1, <1>2, PTL DEF Spec

(* RiskNeverRelaxes, for every access block and every pair of scores. *)
THEOREM RiskMonotonic == Spec => RiskNeverRelaxes
<1>1. ASSUME RiskTypes, Worsen
      PROVE  /\ RoleRank(cfg.roles, RequiredRole(cfg, tier, risk'))
                  >= RoleRank(cfg.roles, RequiredRole(cfg, tier, risk))
             /\ Strictness(LevelFor(cfg, tier, risk')) >= Strictness(LevelFor(cfg, tier, risk))
  <2>1. risk' \in Int /\ risk <= risk'
    BY <1>1, RiskAssumption DEF Worsen, RiskTypes
  <2>2. cfg \in AccessBlocks /\ tier \in TierNames /\ risk \in Int
    BY <1>1 DEF RiskTypes
  <2>3. Bumped(cfg, tier, risk) => Bumped(cfg, tier, risk')
    BY <2>1, <2>2, BumpIsMonotonic
  <2>4. RoleRank(cfg.roles, RequiredRole(cfg, tier, risk'))
          >= RoleRank(cfg.roles, RequiredRole(cfg, tier, risk))
    BY <2>1, <2>2, <2>3, RequiredRoleRank
  <2>5. cfg.autonomy[tier] \in LevelNames
    BY <2>2 DEF AccessBlocks
  <2>6. Strictness(cfg.autonomy[tier]) \in 1..5
    BY <2>5, RanksAreNumbers
  <2>7. Strictness(LevelFor(cfg, tier, risk')) >= Strictness(LevelFor(cfg, tier, risk))
    BY <2>3, <2>6, LevelOrder DEF LevelFor
  <2>8. QED
    BY <2>4, <2>7
<1>2. RiskTypes /\ [Next]_vars =>
        [/\ RoleRank(cfg.roles, RequiredRole(cfg, tier, risk'))
              >= RoleRank(cfg.roles, RequiredRole(cfg, tier, risk))
         /\ Strictness(LevelFor(cfg, tier, risk'))
              >= Strictness(LevelFor(cfg, tier, risk))]_vars
  BY <1>1 DEF Next
<1>3. QED
  BY <1>2, Typed, PTL DEF Spec, RiskNeverRelaxes

(* HotActionsNeedAHuman, for every access block and score. *)
THEOREM HotActionsGated == Spec => []HotActionsNeedAHuman
<1>1. RiskTypes => HotActionsNeedAHuman
  <2> SUFFICES ASSUME RiskTypes, TierRank(tier) >= TierRank("active"),
                      risk >= cfg.threshold,
                      LevelFor(cfg, tier, risk) \in {"auto", "notify"}
               PROVE  RoleRank(cfg.roles, cfg.minRole[tier]) = Len(cfg.roles) - 1
    BY DEF HotActionsNeedAHuman
  <2>1. /\ cfg.roles \in Seq(STRING)
        /\ \A i, j \in 1..Len(cfg.roles) : cfg.roles[i] = cfg.roles[j] => i = j
    BY DEF RiskTypes, AccessBlocks
  <2>2. RoleRank(cfg.roles, cfg.minRole[tier]) \in -1..(Len(cfg.roles) - 1)
    BY <2>1, RankOfRole
  <2>3. ~Bumped(cfg, tier, risk)
    BY DEF LevelFor
  <2>4. QED
    BY <2>1, <2>2, <2>3 DEF Bumped
<1>2. QED
  BY <1>1, Typed, PTL
=============================================================================
