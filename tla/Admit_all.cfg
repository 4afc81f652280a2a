SPECIFICATION Spec
CONSTANTS
  w1 = w1
  w2 = w2
  t1 = t1
  t2 = t2
  t3 = t3
  p1 = p1
  p2 = p2
  p3 = p3
  Wallets = {w1, w2}
  Tokens = {t1, t2, t3}
  MarketOf <- MCMarketOf
  GroupOf <- MCGroupOf
  Ids = {p1, p2, p3}
  MaxOpen = 2
  Prices = {4, 5}
  MaxShares = 2
  Start = 30
  Reserve = 14
  MinPrice = 0
  MaxPrice = 5
  MovePct = 25
  SlipPct = 25
  TradePct = 75
  MarketPct = 80
  GlobalPct = 90
  GroupPct = 80
  MinNotional = 4
  CurveSize = 2
  Unit = 1
  Faults = {"crash", "store"}
  LossCutoff = 2
  DrawdownPct = 60
  MinScored = 2
  Pasts <- MCPasts
  MaxOpens = 2
  MaxFaults = 2
  MaxRestores = 1
SYMMETRY MCSymmetry
INVARIANTS
  TypeOK
  RecordsFollow
  OverLimitIsOut
  DrawdownBounded
PROPERTIES
  ReserveKept
  EveryGainAttributed
  CapsHoldAtOpen
  RestoredIsCutAgain
CHECK_DEADLOCK FALSE
