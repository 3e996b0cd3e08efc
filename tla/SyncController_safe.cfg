SPECIFICATION Spec
CONSTANTS
  a = a
  b = b
  w1 = w1
  w2 = w2
  x = x
  y = y
  Spcs = {a}
  Workers = {w1, w2}
  Items <- SecretAndCert
  Tags = {"none", "k8s"}
  Secrets = {x, y}
  Storable <- AnySecrets
  MaxRetries = 1
  MaxEdits = 3
  MaxEvents = 2
  Absent = Absent
  NilObject = NilObject
  NoSPC = NoSPC
  Gone = Gone
SYMMETRY Symmetric
INVARIANTS
  TypeOK
  OneWorkerPerKey
  SettledCacheIsCurrent
  SettledIsSynced
PROPERTIES
  WritesComeFromVault
