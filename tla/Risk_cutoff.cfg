SPECIFICATION Spec
CONSTANTS
  w1 = w1
  w2 = w2
  Wallets <- MCWallets
  Faults = {}
  MaxPlaces = 1
  MaxOps = 0
  MaxMoves = 0
  MaxLives = 1
PROPERTIES
  CutOffStaysOut
