SPECIFICATION Spec
CONSTANTS
  NSymbols = 3
  MinEach = 1
  ScoreValues = {300, 650}
  Moves <- MCMoves
  NoSector = NoSector
  NoQuote = NoQuote
  Disabled = {3}
  LiveSector <- MCLiveSector
  WeightSector <- MCWeightSector
  LongCap <- MCLongCap
  Dims <- MCDims
INVARIANTS
  TypeOK
  VetoIsFinal
  FightsOnlyOnPurpose
  OverrideFollowsMove
  SilencedReturnsWithSector
