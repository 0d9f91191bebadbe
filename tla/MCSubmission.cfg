SPECIFICATION Spec
CONSTANTS
  s1 = s1
  s2 = s2
  s3 = s3
  Thread <- WaitThread
  Call <- WaitCall
  Kind <- WaitKind
  Closers = {"Shutdown", "ShutdownAll"}
  SpawnFails = TRUE
  DirectYield = TRUE
CHECK_DEADLOCK FALSE
INVARIANTS
  TypeOK
  NoneForgotten
  ToldTheTruth
  NoSleepOnSubmission
