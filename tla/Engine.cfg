CONSTANTS
  Classes <- MCClasses
  SendTables <- MCSend
  DataMaps <- MCData
  Abbreviates <- MCAbbreviates
  Subscripts = {"a[0]"}
  Paths <- MCPaths
  MaxLookups = 3
  WordBits = 5
  ExactBits = 3
  Radix = 2
  ExpChars = 2
  IntChars = 3
  FloatChars = 4
  Words = {"w"}
  Ours = {o1, o2}
  Theirs = {e1}
  Names = {"a", "A", "b"}
  MaxDepth = 3
  Impls = {f1}
  Natives = {t1}
  FreeNames = {n1, n2}
  Sizes = {0, 1, 3, 4}
  TableNames = {k1, k2}
  IntBits = 3
  SizeBits = 4
  MaxStrings = 2
  MaxMaps = 3
  Props = {p1}
  Callbacks = {b1, b2}
  Descs = {"base", "derived"}
  Functions = {g1}
  Globals = {v1}
  Objects = {h1, h2}
  MaxCalls = 3
SPECIFICATION MCSpec
CHECK_DEADLOCK FALSE
INVARIANTS
  PropsAnswer
  CvarsKept
  FactoriesHold
  ReadsThisMap
  PropsAreSound
  DocsTellTheTruth
