CONSTANTS
  g1 = g1  g2 = g2  g3 = g3  c1 = c1  c2 = c2
  Null = Null
  Gotos <- MCGotos
  Clusters <- MCClusters
  RecursionLimit <- MCRecursionLimit
SPECIFICATION Spec
INVARIANTS TypeOK AnyClusterExact
CHECK_DEADLOCK FALSE
