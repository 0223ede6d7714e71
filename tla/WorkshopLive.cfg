SPECIFICATION LiveSpec
CONSTANTS
  coll = coll
  map1 = map1
  map2 = map2
  pack = pack
  n1 = n1
  n2 = n2
  m1 = m1
  m2 = m2
  h1 = h1
  h2 = h2
  None = None
  NoName = NoName
  Handles = {h1, h2}
  Names = {n1}
  Ids <- CollIds
  Mods <- NoMods
  WorkshopFile <- NoFile
  Kind <- CollKind
  Children <- CollChildren
  MapNames <- CollNames
  Failing = {}
  Maps <- CollPaths
CHECK_DEADLOCK FALSE
PROPERTIES
  PartsMounted
