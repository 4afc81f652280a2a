SPECIFICATION FairSpec
CONSTANTS
  w1 = w1
  w2 = w2
  Wallets = {w1}
  Faults = {"crash", "store"}
  MaxPlaces = 2
  MaxOps = 2
  MaxMoves = 2
  MaxLives = 2
INVARIANTS
  TypeOK
  MirroredHaltInForce
  StopsLetOneThrough
PROPERTIES
  TripKeepsGateShut
  OrdersObeyMode
  OperatorTakesEffect
