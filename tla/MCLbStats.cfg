CONSTANTS
  Null = Null
  Filters <- MCFilters
  MaxConns <- MCMaxConns
SPECIFICATION Spec
INVARIANTS TypeOK StatsExact
CHECK_DEADLOCK FALSE
