SPECIFICATION Spec
CONSTANTS
  Runs = {r1, r2, r3}
  Servers = {p1}
  None = None
  Torn = Torn
  Altered = Altered
  MaxFaults = 2
SYMMETRY Symmetry
INVARIANTS
  TypeOK
  PointerNotDangling
  ChampionLostOnlyByKill
  ServedAsChecked
PROPERTIES
  RegisteredIsImmutable
CHECK_DEADLOCK FALSE
