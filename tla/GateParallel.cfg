CONSTANTS
  p1 = p1  p2 = p2  w1 = w1  w2 = w2  w3 = w3
  Procs <- TwoProcs
  Workers = {w1, w2, w3}
  Home <- ThreadPool
  Responders = {w1, w2}
  Resolvers = {w2, w3}
  Incidents = {"i1", "i2"}
  Actions = {"block_ip"}
  Risks <- OnlyHigh
  ApproverRoles = {"analyst", "admin"}
  HandGrants = {}
  Access <- DefaultAccess
  ActionRules <- DefaultRules
  Exclusive = FALSE
  MaxCalls = 4
  MaxStarts = 2
  MaxCrashes = 1
SPECIFICATION Spec
INVARIANTS
  EffectsAuthorised
  ExecutionsAudited
  OneUsePerStart
CHECK_DEADLOCK FALSE
