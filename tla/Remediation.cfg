CONSTANTS
  server = server
  command = command
  first = first
  second = second
  main = main
  Procs = {server, command}
  Threads = {first, second, main}
  Home <- Homes
  Detectable <- Reportable
  Statuses = {"resolved", "accepted"}
  Active <- BuiltIn
  Sla <- FewDays
  MaxDays = 1
  MaxKills = 1
  MaxOps = 3
SYMMETRY Alike
SPECIFICATION Spec
INVARIANTS
  LogTellsStatus
PROPERTIES
  VerdictLostOnlyInRewrite
  DeadlineMovesOnlyInRewrite
CHECK_DEADLOCK FALSE
