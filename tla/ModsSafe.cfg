SPECIFICATION Spec
CONSTANTS
  d1 = d1
  d2 = d2
  p1 = p1
  p2 = p2
  p3 = p3
  Dirs <- MCDirs
  Plugins <- MCPlugins
  ModOf <- MCModOf
  Assets <- MCAssets
  AutoReload <- MCAutoReload
CHECK_DEADLOCK FALSE
INVARIANTS
  KnowsWhatHappened
PROPERTIES
  EventsMakeSense
