SPECIFICATION FairSpec
CONSTANTS
  a = a
  b = b
  w1 = w1
  w2 = w2
  x = x
  y = y
  Spcs = {a}
  Workers = {w1}
  Items <- NamesakeItems
  Tags = {"none", "k8s"}
  Secrets = {x, y}
  Storable <- AnySecrets
  MaxRetries = 1
  MaxEdits = 0
  MaxEvents = 2
  Absent = Absent
  NilObject = NilObject
  NoSPC = NoSPC
  Gone = Gone
PROPERTY PatchesStop
