SPECIFICATION FairSpec
CONSTANTS
  team = team
  app = app
  v1 = v1
  v2 = v2
  AnnotationKeys = {team}
  LabelKeys = {app}
  Values = {v1}
  None = None
  Gone = Gone
  MaxEdits = 3
PROPERTY MetadataConverges
