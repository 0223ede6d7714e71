SPECIFICATION Spec
CONSTANTS
  c1 = c1
  c2 = c2
  s1 = s1
  Conns <- TwoConns
  Stmts <- OneStmt
  CallbackOps <- AllOps
  FrameOps <- LockFreeOps
  MayLackOwner <- TwoConns
  MaxFrees = 1
CHECK_DEADLOCK FALSE
INVARIANTS
  NoDeadlyEmbrace
  SelfDeadlockOnlyInCallback
  StmtVectorNotShared
  OwnerOutlivesStatements
  UnloadIsClean
PROPERTIES
  StepsGoBackOnlyBy
  ClosingWithStatementsIsStuck
VIEW View
SYMMETRY Symmetry
