CONSTANTS
  p1 = p1  p2 = p2  w1 = w1  w2 = w2  w3 = w3
  Procs <- TwoProcs
  Workers = {w1, w2}
  Home <- OneEach
  Responders = {w1}
  Resolvers = {w1, w2}
  Incidents = {"i1"}
  Actions = {"block_ip", "review"}
  Risks <- Severities
  ApproverRoles = {"analyst", "admin"}
  HandGrants = {}
  Access <- DefaultAccess
  ActionRules <- DefaultRules
  Exclusive = TRUE
  MaxCalls = 5
  MaxStarts = 3
  MaxCrashes = 0
SPECIFICATION FairSpec
INVARIANTS
  TrailComplete
PROPERTIES
  ImplementsOneShot
  VerdictsReachTheTrail
CHECK_DEADLOCK FALSE
