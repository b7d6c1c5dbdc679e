CONSTANTS
  Pools <- MCPools
  Root <- MCRoot
  LinearType = 2
  OtherTypes = {1}
  NettoSizes = {0}
  AreaSizes = {0}
  MaxAreas = 0
  Names <- MCNames
  Name <- MCName
SPECIFICATION Spec
CHECK_DEADLOCK FALSE
INVARIANTS TypeOK FindExact
PROPERTIES WalkTerminates IterRefines
