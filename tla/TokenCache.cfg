SPECIFICATION Spec
CONSTANTS
  w1 = w1
  w2 = w2
  crd = crd
  Callers = {w1, w2, crd}
  Lifetimes = {6, 10}
  MaxLife = 10
  Margin <- AzureMargin
  MaxPause = 1
  None = None
SYMMETRY CallerSymmetry
INVARIANTS
  TypeOK
  NoNilRead
  HandedOutAlive
