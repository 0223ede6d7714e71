SPECIFICATION FairSpec
CONSTANTS
  d1 = d1
  d2 = d2
  p1 = p1
  p2 = p2
  p3 = p3
  Dirs <- MCDirs
  Plugins <- LivePlugins
  ModOf <- LiveModOf
  Assets <- MCAssets
  AutoReload = {}
CHECK_DEADLOCK FALSE
PROPERTIES
  CommandsEnd
