SPECIFICATION Spec
CONSTANTS
  Managers = {m1, m2}
  Versions = {v1, v2}
  Metrics <- AllPassing
  Margin = 50
  NoMetrics = NoMetrics
  None = None
  Empty = Empty
  Garbled = Garbled
  MaxKills = 1
SYMMETRY Symmetry
INVARIANTS
  TypeOK
  TradingExcludesTrial
  RollbackTargetWasChampion
  SoloRolesDurable
