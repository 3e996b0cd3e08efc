SPECIFICATION CacheSpec
CONSTANTS
  a = a
  b = b
  own_a = own_a
  own_b = own_b
  s1 = s1
  s2 = s2
  Spcs = {a, b}
  Secrets = {own_a, own_b, s1, s2}
  Storable <- Overlapping
  Absent = Absent
  NilObject = NilObject
  NoSPC = NoSPC
INVARIANTS
  IndexSound
  IndexComplete
