CONSTANTS
  Pools <- MCPools
  Root <- MCRoot
  LinearType <- MCLinearType
  OtherTypes <- MCOtherTypes
  NettoSizes <- MCNettoSizes
  AreaSizes <- MCAreaSizes
  MaxAreas <- MCMaxAreas
SPECIFICATION Spec
CHECK_DEADLOCK FALSE
INVARIANTS TypeOK SizesExact
PROPERTIES SizesTerminate
