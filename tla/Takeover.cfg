SPECIFICATION Spec
CONSTANTS
  v1 = v1
  v2 = v2
  v3 = v3
  v4 = v4
  VMs <- MCVMs
  None = None
  MaxLoads = 2
  Branches = {"tf2", "l4d2"}
  HasClient = TRUE
CHECK_DEADLOCK FALSE
SYMMETRY Symmetry
INVARIANTS
  VMInCharge
  LeavesBehindOnly
PROPERTIES
  MachinesTreatedRight
