SPECIFICATION SlowSpec
CONSTANTS
  one = one
  two = two
  x = x
  Sources = {one}
  FirstSources = {one}
  Items = {x}
  Tags = {"none", "k8s"}
  FilteredOut = {x}
  MaxEdits = 0
  NoOwner = NoOwner
  Gone = Gone
PROPERTY RestsBetweenCycles
