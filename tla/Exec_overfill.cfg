SPECIFICATION Spec
CONSTANTS
  Target = 2
  TradePrice = 4
  Slip = 1
  Step = 1
  MaxPlaces = 2
  MaxPrice = 4
  MaxMishaps = 0
  Faults = {}
INVARIANTS
  NeverOverfilled
