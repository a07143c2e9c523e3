SPECIFICATION Spec
CONSTANTS
  Clients = {c1}
  Symbols = {y1, y2}
  Prices = {100, 101}
  CostCentiBps = 726
  MaxCalls = 2
  MaxCrashes = 1
SYMMETRY Symmetry
PROPERTIES
  BookRefinement
CHECK_DEADLOCK FALSE
