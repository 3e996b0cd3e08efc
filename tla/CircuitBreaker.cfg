SPECIFICATION FairSpec
CONSTANTS
  c1 = c1
  c2 = c2
  c3 = c3
  failed = failed
  Callers = {c1, c2, c3}
  MaxFailures = 2
  ResetTimeout = 2
  Errors = {failed}
INVARIANTS
  TypeOK
  PassingMeansBelowThreshold
  OverloadBounded
PROPERTIES
  ImplementsContract
  RecoversAfterOutage
  ShedsDuringOutage
