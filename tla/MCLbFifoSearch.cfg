CONSTANTS
  Null = Null
  Ptr <- MCPtr
  Addrs <- MCAddrs
  FilterContents <- MCFilterContents
  Protocols <- MCProtocols
  MaxConns <- MCMaxConns
SPECIFICATION Spec
INVARIANTS TypeOK FindExact
CHECK_DEADLOCK FALSE
