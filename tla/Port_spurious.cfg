SPECIFICATION Spec
CONSTANTS
  p1 = p1
  p2 = p2
  p3 = p3
  t = t
  Tokens <- TokenT
  TokenOf <- OneToken
  Ids <- TwoIds
  Asks = {2}
  Bids = {3}
  Marks = {1}
  MaxLot = 1
  Start = 5
  MaxOpen = 1
  Faults = {"restart"}
  MaxWeeks = 1
  MaxFaults = 1
PROPERTIES
  RestartAddsNoDrawdown
