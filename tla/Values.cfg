CONSTANTS
  CharBits = 3
  ShortBits = 4
  IntBits = 5
  Digits <- MCDigits
  MaxParams = 2
  MaxGiven = 3
  Instances = {i1, i2}
  MaxRegisters = 3
  Coordinates = {0, 1}
  Containers = {c1, c2}
  Callers = {f1}
  MaxDepth = 3
  Holders = {h1, h2}
  ScopeNames = {n1}
  MaxScopes = 2
  MaxRefs = 3
SPECIFICATION MCSpec
CHECK_DEADLOCK FALSE
SYMMETRY Symmetry
INVARIANTS
  ValuesComeThrough
  ArgumentsArrive
  OperandsUntouched
  HandlesHold
PROPERTIES
  MemoryIsLive
