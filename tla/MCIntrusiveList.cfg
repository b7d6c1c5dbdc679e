CONSTANTS
  Recs <- MCRecs
  HookOffset <- MCHookOffset
  NodeSize <- MCNodeSize
  Header <- MCHeader
  MaxLen <- MCMaxLen
SPECIFICATION Spec
CHECK_DEADLOCK FALSE
INVARIANTS TypeOK WalksMirror IInv
PROPERTIES WalksTerminate WalksRefine
