CONSTANTS
  p1 = p1  p2 = p2  w1 = w1  w2 = w2
  Procs <- TwoProcs
  Workers = {w1, w2}
  Home <- OneEach
  HasKey <- AllKeyed
  MayFail = TRUE
  MaxCalls = 4
  MaxStarts = 3
SPECIFICATION Spec
INVARIANTS
  TypeOK
  ChainResumes
  AlwaysVerifies
  BreaksOnlyAtHandover
  OwnNumbersIncrease
CHECK_DEADLOCK FALSE
