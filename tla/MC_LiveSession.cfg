SPECIFICATION FairSpec
CONSTANTS
  Symbols = {y1}
  Watchdogs = {w1, w2}
  Autoruns = {a1, a2}
  NoProc = NoProc
  MaxFaults = 1
INVARIANTS
  TypeOK
  OneWatchdogUnlessBlind
  OneAutorunPerWatchdog
  NoSettlementBeforeClose
PROPERTIES
  FaultFreeDaySettles
  DayEnds
CHECK_DEADLOCK FALSE
