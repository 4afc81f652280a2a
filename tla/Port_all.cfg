SPECIFICATION Spec
CONSTANTS
  p1 = p1
  p2 = p2
  p3 = p3
  t = t
  Tokens <- TokenT
  TokenOf <- OneToken
  Ids <- ThreeIds
  Asks = {2}
  Bids = {1}
  Marks = {3}
  MaxLot = 2
  Start = 5
  MaxOpen = 2
  Faults = {"crash", "restart", "store"}
  MaxWeeks = 1
  MaxFaults = 1
SYMMETRY SymThree
INVARIANTS
  TypeOK
  RowsFollow
  OpenCapHolds
  TearsBounded
PROPERTIES
  BankrollIsCash
  AnchorSticks
