SPECIFICATION Spec
CONSTANTS
  Clients = {c1, c2}
  Symbols = {y1}
  Prices = {100, 101}
  CostCentiBps = 726
  MaxCalls = 2
  MaxCrashes = 1
SYMMETRY Symmetry
INVARIANTS
  TypeOK
  SettlementCoherent
  AuditTrailSound
  SettleOncePerClient
  OrphanSignalOnlyByCrash
PROPERTIES
  MarkLeavesSettledAlone
CHECK_DEADLOCK FALSE
