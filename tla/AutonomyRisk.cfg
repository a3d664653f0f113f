CONSTANTS
  Blocks <- SampleBlocks
  Scores <- SeverityScores
SPECIFICATION Spec
INVARIANT HotActionsNeedAHuman
PROPERTY RiskNeverRelaxes
CHECK_DEADLOCK FALSE
