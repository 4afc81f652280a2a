SPECIFICATION FairSpec
CONSTANTS
  Traders = {1, 2}
  MaxAge = 1
  TTL = 1
  Window = 1
  Threshold = 2
  MaxTime = 3
  MaxTrades = 3
  MaxStarts = 1
CHECK_DEADLOCK FALSE
PROPERTIES
  NoExitForEarlierSell
  LaterSellMirrored
  ClusterIsRecent
