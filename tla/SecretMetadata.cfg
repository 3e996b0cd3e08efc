SPECIFICATION FairSpec
CONSTANTS
  team = team
  app = app
  v1 = v1
  v2 = v2
  AnnotationKeys = {team}
  LabelKeys = {app}
  Values = {v1, v2}
  None = None
  Gone = Gone
  MaxEdits = 4
INVARIANTS
  TypeOK
  TrackedCoversOurs
PROPERTIES
  PatchKeepsToItsKeys
  UndisturbedPassDelivers
  ConvergesUnlessKeysMissing
