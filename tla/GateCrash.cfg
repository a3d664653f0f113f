CONSTANTS
  p1 = p1  p2 = p2  w1 = w1  w2 = w2  w3 = w3
  Procs <- TwoProcs
  Workers = {w1, w2}
  Home <- OneEach
  Responders = {w1}
  Resolvers = {w2}
  Incidents = {"i1"}
  Actions = {"block_ip", "isolate_host"}
  Risks <- Severities
  ApproverRoles = {"analyst", "admin"}
  HandGrants = {{"block_ip"}}
  Access <- StrictAccess
  ActionRules <- DefaultRules
  Exclusive = TRUE
  MaxCalls = 5
  MaxStarts = 5
  MaxCrashes = 2
SPECIFICATION Spec
INVARIANTS
  TypeOK
  RepeatsNeedCrashes
  TrailBacked
PROPERTIES
  DiskIsFinal
CHECK_DEADLOCK FALSE
