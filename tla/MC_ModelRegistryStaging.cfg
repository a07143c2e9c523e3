SPECIFICATION Spec
CONSTANTS
  Runs = {r1, r2}
  Servers = {p1}
  None = None
  Torn = Torn
  Altered = Altered
  MaxFaults = 0
SYMMETRY Symmetry
INVARIANTS
  RegistersItsOwnModel
CHECK_DEADLOCK FALSE
