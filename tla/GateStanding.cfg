CONSTANTS
  p1 = p1  p2 = p2  w1 = w1  w2 = w2  w3 = w3
  Procs <- OneProc
  Workers = {w1}
  Home <- Alone
  Responders = {w1}
  Resolvers = {w1}
  Incidents = {"i1"}
  Actions = {"block_ip"}
  Risks <- OnlyHigh
  ApproverRoles = {"analyst", "admin"}
  HandGrants = {}
  Access <- DefaultAccess
  ActionRules <- DefaultRules
  Exclusive = TRUE
  MaxCalls = 4
  MaxStarts = 1
  MaxCrashes = 0
SPECIFICATION Spec
INVARIANTS
  OneActionPerApproval
CHECK_DEADLOCK FALSE
