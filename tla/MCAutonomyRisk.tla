--------------------------- MODULE MCAutonomyRisk ---------------------------
(* Access blocks for TLC: every level and every required role, also one    *)
(* that is in no chain, the same for all tiers; two chains.                *)
EXTENDS AutonomyRisk

Chains == {<<"agent", "analyst", "responder", "admin">>, <<"analyst", "admin">>}

SampleBlocks ==
  {[roles |-> chain, autonomy |-> [t \in TierNames |-> level],
    minRole |-> [t \in TierNames |-> role], threshold |-> 80] :
     chain \in Chains, level \in LevelNames, role \in {"agent", "analyst", "responder", "admin", "intern"}}

\* _SEVERITY_SCORE, from info to critical
SeverityScores == {5, 20, 45, 70, 90}
=============================================================================
