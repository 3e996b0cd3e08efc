SPECIFICATION FairSpec
CONSTANTS
  a = a
  b = b
  w1 = w1
  w2 = w2
  Spcs = {a, b}
  Workers = {w1, w2}
  MaxRetries = 1
  RetryDelay = 1
  DrainTimeout = 4
  ShutdownTimeout = 6
  ManagerTimeout = 1
  HealthTimeout = 1
INVARIANTS
  TypeOK
  ReadyMeansServing
  OneMoreEach
  StopsInTime
PROPERTIES
  ShutdownCompletes
  ReadyAgain
CHECK_DEADLOCK FALSE
