SPECIFICATION FairSpec
CONSTANTS
  Traders = {1}
  Window = 1
  Threshold = 1
  MaxAge = 9
  TTL = 9
  MaxTime = 3
  MaxTrades = 2
  MaxStarts = 0
CHECK_DEADLOCK FALSE
PROPERTIES
  ObservedSellMirrored
