SPECIFICATION FairSpec
CONSTANTS
  a = a
  b = b
  w1 = w1
  w2 = w2
  x = x
  y = y
  Spcs = {a}
  Workers = {w1}
  Items <- OneSecret
  Tags = {"none", "sync", "k8s"}
  Secrets = {x, y}
  Storable <- AnySecrets
  MaxRetries = 1
  MaxEdits = 2
  MaxEvents = 2
  Absent = Absent
  NilObject = NilObject
  NoSPC = NoSPC
  Gone = Gone
PROPERTIES
  Converges
  PatchesStop
