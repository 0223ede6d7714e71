SPECIFICATION Spec
CONSTANTS
  p1 = p1
  p2 = p2
  o1 = o1
  o2 = o2
  i1 = i1
  s1 = s1
  None = None
  Paths = {p1, p2}
  Objects = {o1, o2}
  Instances = {i1}
  Shared = {s1}
  MaxDepth = 3
CHECK_DEADLOCK FALSE
SYMMETRY Symmetry
VIEW View
CONSTRAINT Apart
INVARIANTS
  AssumedIsRunning
  OwnersAgree
  DeadTouchedOnlyBy
PROPERTIES
  LeavesBehindOnly
