SPECIFICATION FairSpec
CONSTANTS
  s1 = s1
  s2 = s2
  s3 = s3
  Thread <- PairThread
  Call <- PairCall
  Kind <- PairKind
  Closers = {"Shutdown"}
  SpawnFails = FALSE
  DirectYield = FALSE
CHECK_DEADLOCK FALSE
PROPERTIES
  EarlyAnswered
  EarlySettles
  ShutdownCompletes
