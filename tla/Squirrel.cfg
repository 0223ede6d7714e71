SPECIFICATION Spec
CONSTANTS
  MaxCalls = 3
  MaxArgs = 2
  MaxRaised = 2
  Debug = TRUE
CONSTRAINT Apart
CHECK_DEADLOCK FALSE
INVARIANTS
  LeavesMachineAsFound
  BringsBackOwn
