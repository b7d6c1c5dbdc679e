CONSTANTS
  Recs <- MCRecs
  HookOffset <- MCHookOffset
  Header <- MCHeader
  MaxLen <- MCMaxLen
SPECIFICATION Spec
CHECK_DEADLOCK FALSE
INVARIANTS TypeOK InOrder CompleteAtEnd
PROPERTIES WalkTerminates IterRefines
