------------------------ MODULE AutonomyPolicyProofs ------------------------
(* Lemmas about the operators of AutonomyPolicy, for every access block. *)
EXTENDS AutonomyPolicy, TLAPS

(* The tiers and the levels are ranked 1 to 5. *)
LEMMA RanksAreNumbers ==
  /\ \A t \in TierNames : TierRank(t) \in 1..5
  /\ \A l \in LevelNames : Strictness(l) \in 1..5
  BY DEF TierNames, LevelNames, TierRank, Strictness

(* auto and notify are the two freest levels, confirm comes next. *)
LEMMA LevelOrder ==
  /\ Strictness("auto") = 1 /\ Strictness("notify") = 2 /\ Strictness("confirm") = 3
  /\ Strictness("escalate") = 4 /\ Strictness("deny") = 5
<1>1. \A i, j \in 1..5 : Levels[i] = Levels[j] => i = j
  BY DEF Levels
<1>2. \A i \in 1..5 : Strictness(Levels[i]) = i
  BY <1>1 DEF Strictness
<1>3. QED
  BY <1>2 DEF Levels

(* Each rank below the length of a chain is the rank of one role of it; a  *)
(* role outside the chain ranks below all.                                 *)
LEMMA RankOfRole ==
  ASSUME NEW roles \in Seq(STRING),
         \A i, j \in 1..Len(roles) : roles[i] = roles[j] => i = j
  PROVE  /\ \A i \in 1..Len(roles) : RoleRank(roles, roles[i]) = i - 1
         /\ \A r : RoleRank(roles, r) \in -1..(Len(roles) - 1)
<1>1. ASSUME NEW i \in 1..Len(roles)
      PROVE  RoleRank(roles, roles[i]) = i - 1
  <2>1. Positions(roles, roles[i]) = {i}
    BY DEF Positions
  <2>2. (CHOOSE k \in {i} : \A j \in {i} : k <= j) = i
    OBVIOUS
  <2>3. QED
    BY <2>1, <2>2 DEF RoleRank
<1>2. ASSUME NEW r
      PROVE  RoleRank(roles, r) \in -1..(Len(roles) - 1)
  <2>1. CASE Positions(roles, r) = {}
    BY <2>1 DEF RoleRank
  <2>2. CASE Positions(roles, r) # {}
    <3>1. PICK i \in 1..Len(roles) : roles[i] = r
      BY <2>2 DEF Positions
    <3>2. QED
      BY <1>1, <3>1
  <2>3. QED
    BY <2>1, <2>2
<1>3. QED
  BY <1>1, <1>2

(* Where the risk bumps the requirement, the role required ranks one above *)
(* the configured one; elsewhere it is the configured one.                 *)
LEMMA RequiredRoleRank ==
  ASSUME NEW block \in AccessBlocks, NEW t \in TierNames, NEW score \in Int
  PROVE  LET base == RoleRank(block.roles, block.minRole[t]) IN
         /\ base \in Int
         /\ RoleRank(block.roles, RequiredRole(block, t, score))
              = IF Bumped(block, t, score) THEN base + 1 ELSE base
         /\ RequiredRole(block, t, score) \in STRING
<1> DEFINE base == RoleRank(block.roles, block.minRole[t])
<1>1. /\ block.roles \in Seq(STRING)
      /\ \A i, j \in 1..Len(block.roles) : block.roles[i] = block.roles[j] => i = j
      /\ block.minRole[t] \in STRING
  BY DEF AccessBlocks
<1>2. base \in -1..(Len(block.roles) - 1)
  BY <1>1, RankOfRole
<1>3. CASE Bumped(block, t, score)
  <2>1. base + 2 \in 1..Len(block.roles)
    BY <1>1, <1>2, <1>3 DEF Bumped
  <2>2. RoleRank(block.roles, block.roles[base + 2]) = (base + 2) - 1
    BY <1>1, <2>1, RankOfRole
  <2>3. RequiredRole(block, t, score) = block.roles[base + 2]
    BY <1>3 DEF RequiredRole
  <2>4. block.roles[base + 2] \in STRING
    BY <1>1, <2>1
  <2>5. QED
    BY <1>2, <1>3, <2>2, <2>3, <2>4
<1>4. CASE ~Bumped(block, t, score)
  BY <1>1, <1>2, <1>4 DEF RequiredRole
<1>5. QED
  BY <1>3, <1>4

(* A worse incident bumps the requirement whenever a milder one does. *)
LEMMA BumpIsMonotonic ==
  ASSUME NEW block \in AccessBlocks, NEW t \in TierNames,
         NEW low \in Int, NEW high \in Int, low <= high, Bumped(block, t, low)
  PROVE  Bumped(block, t, high)
<1>1. block.threshold \in Int
  BY DEF AccessBlocks
<1>2. QED
  BY <1>1 DEF Bumped
=============================================================================
