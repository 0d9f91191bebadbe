SPECIFICATION FairSpec
CONSTANTS
  s1 = s1
  s2 = s2
  s3 = s3
  Thread <- PairThread
  Call <- PairCall
  Kind <- TaskKind
  Closers = {"Shutdown"}
  SpawnFails = FALSE
  DirectYield = TRUE
CHECK_DEADLOCK FALSE
PROPERTY ShutdownCompletes
