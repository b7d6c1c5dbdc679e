CONSTANTS
  Recs <- MCRecs
  HookOffset <- MCHookOffset
  NB <- MCNB
  BucketBase <- MCBucketBase
  BucketSize <- MCBucketSize
  MaxLen <- MCMaxLen
SPECIFICATION Spec
CHECK_DEADLOCK FALSE
INVARIANTS TypeOK CompleteAtEnd
PROPERTIES WalkTerminates IterRefines
