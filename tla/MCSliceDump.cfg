CONSTANTS
  a1 = a1
  a2 = a2
  Areas <- MCAreas
  MaxAreas <- MCMaxAreas
SPECIFICATION Spec
CHECK_DEADLOCK FALSE
INVARIANT EveryAreaDumped
