SPECIFICATION Spec
CONSTANTS
  Managers = {m1}
  Versions = {v1, v2}
  Metrics <- PassingLeaky
  Margin = 50
  NoMetrics = NoMetrics
  None = None
  Empty = Empty
  Garbled = Garbled
  MaxKills = 0
SYMMETRY Symmetry
INVARIANTS
  OnlyGatedBecomesChampion
