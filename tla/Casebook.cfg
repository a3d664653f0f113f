CONSTANTS
  BruteThreshold = 2
  SprayThreshold = 2
  SigmaRules <- NoRules
  Place <- Alphabet
  Procs = {"watch", "human"}
  Detectors = {"watch"}
  Responders = {"human"}
  Log <- SmallLog
  Feeds <- KnownBad
  Executors = {"command", "webhook"}
  Templates = {}
  DomainAllowed = TRUE
  Malformed = {}
  MinSeverity = 0
  Asked = {"block_ip"}
  Advice = {1}
  MaxStarts = 1
  MaxKills = 1
  MaxActs = 2
SPECIFICATION Spec
INVARIANTS
  TypeOK
  SharedEntityFiledTogether
  ContainedIsOnRecord
  DeedsOnRecord
  ToldOncePerKill
  SeenWasTold
PROPERTIES
  HumanStateLostOnlyInRewrite

CHECK_DEADLOCK FALSE
