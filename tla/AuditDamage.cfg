CONSTANTS
  MaxLength = 5
  MaxDamage = 3
SPECIFICATION DamageSpec
INVARIANTS
  VerifyIsChainIntact
  OnlyPrefixesVerify
  OneLossReportedOnce
CHECK_DEADLOCK FALSE
