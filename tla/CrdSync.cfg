SPECIFICATION FairSpec
CONSTANTS
  one = one
  two = two
  x = x
  Sources = {one, two}
  FirstSources = {one}
  Items = {x}
  Tags = {"none", "noted"}
  FilteredOut = {x}
  MaxEdits = 2
  NoOwner = NoOwner
  Gone = Gone
INVARIANTS
  TypeOK
  NeverForgotten
  RestIsUpToDate
PROPERTIES
  WritesAreOfOneSource
  Converges
  CascadeCompletes
  WritesStop
