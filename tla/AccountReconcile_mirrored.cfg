SPECIFICATION Spec
CONSTANTS
  Symbols = {"s1"}
  Prices = {1}
  LastDay = 2
  MaxTrades = 2
INVARIANTS
  MirroredAccountOpensGate
CHECK_DEADLOCK FALSE
