SPECIFICATION PartsSpec
CONSTANTS
  t1 = t1
  d1 = d1
  d2 = d2
  c1 = c1
  c2 = c2
  c3 = c3
  p1 = p1
  p2 = p2
  None = None
  Targets = {t1}
  Detours = {d1, d2}
  Key <- Keys
  Callbacks = {c1, c2, c3}
  Plugins = {p1, p2}
  MaxDepth = 2
CHECK_DEADLOCK FALSE
VIEW View
SYMMETRY Symmetry
INVARIANTS
  HooksInPlace
  CallsAreFaithful
  DeadTouchedOnlyBy
