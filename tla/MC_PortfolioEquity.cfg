\* The loop ends after the last date.
SPECIFICATION Spec
CHECK_DEADLOCK FALSE
CONSTANTS
  Signals = {1, 2, 3, 4}
  Sym <- MCSym
  Dir <- MCDir
  LowValue = {}
  Symbols = {"A", "B"}
  Sector <- MCSector
  UnknownSector = UnknownSector
  Bars <- MCBars
  NoBar = NoBar
  MaxBars = 4
  Slips = {4}
  InitialCapital = 1000000
  MaxPositions = 2
  CapPct = 30
  GrossPct = 100
  NetPct = 90
  SectorPct = 80
  RiskPct = 5
  DailyLossPct = 3
  DrawdownPct = 1
  MaxLosses = 2
  Holding = 2
  EntryWindow = 1
  StopPct = 3
  TargetPct = 6
  FeeBps = 14
  MinAlloc = 10000
  OneRupee = 100
  SameSymbolPolicy = "IGNORE"
  OppositePolicy = "CLOSE_ONLY"
INVARIANT
  EquityReconciles
