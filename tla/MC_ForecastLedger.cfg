SPECIFICATION Spec
CONSTANTS
  Symbols = {s1, s2}
  NoRow = NoRow
  MaxDays = 2
  MaxSamples = 2
SYMMETRY Symmetry
INVARIANTS
  TypeOK
  OneLivePerSymbol
  LostOnlyByKill
CHECK_DEADLOCK FALSE
