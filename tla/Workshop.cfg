SPECIFICATION PartsSpec
CONSTANTS
  coll = coll
  map1 = map1
  map2 = map2
  pack = pack
  n1 = n1
  n2 = n2
  m1 = m1
  m2 = m2
  h1 = h1
  h2 = h2
  None = None
  NoName = NoName
  Handles = {h1, h2}
  Names = {n1}
  Ids <- CollIds
  Mods <- CollMods
  WorkshopFile <- CollFile
  Kind <- CollKind
  Children <- CollChildren
  MapNames <- CollNames
  Failing = {"result", "children"}
  Maps = {}
CHECK_DEADLOCK FALSE
SYMMETRY Symmetry
INVARIANTS
  PartsAgree
  PartsRefsExact
PROPERTIES
  PartsUnbackedOnlyBy
  PartsKeepPlayedMap
