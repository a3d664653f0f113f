CONSTANTS
  BruteThreshold = 1
  SprayThreshold = 2
  SigmaRules <- NoRules
  Place <- Alphabet
  Procs = {"watch", "human"}
  Detectors = {"watch"}
  Responders = {"human"}
  Log <- NamelessLog
  Feeds <- KnownBad
  Executors = {"command", "webhook"}
  Templates = {}
  DomainAllowed = TRUE
  Malformed = {}
  MinSeverity = 0
  Asked = {"block_ip"}
  Advice = {1}
  MaxStarts = 1
  MaxKills = 0
  MaxActs = 0
SPECIFICATION Spec
INVARIANTS
  EveryAlertIsFiled

CHECK_DEADLOCK FALSE
