CONSTANTS
  Watchers = {"watch"}
  Humans = {"human"}
  Subjects <- Estate
  About <- EstateKinds
  Contents <- EstateContents
  Beginnings <- Orderly
  TickPlan <- HostAndIdentity
  ScanPlan <- IdentityThenCloud
  Remnants <- Torn
  Denied = {"cloud"}
  Tests = {{"web"}}
  Scope = {"web"}
  MaxKills = 1
  MaxCommands = 2
  MaxChanges = 1
SPECIFICATION FairSpec
INVARIANTS
  FindingsAreShown
  AuditedReachFile
PROPERTIES
  LastingWeaknessReported

CHECK_DEADLOCK FALSE
