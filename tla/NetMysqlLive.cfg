SPECIFICATION FairSpec
CONSTANTS
  c1 = c1
  c2 = c2
  s1 = s1
  Conns <- OneConn
  Stmts <- OneStmt
  CallbackOps <- TameOps
  FrameOps <- LockFreeOps
  MayLackOwner <- OneConn
  MaxFrees = 1
CHECK_DEADLOCK FALSE
PROPERTIES
  RequestsEnd
  ImplementsRequests
