SPECIFICATION FairSpec
CONSTANTS
  t1 = t1
  t2 = t2
  t3 = t3
  t4 = t4
  k1 = k1
  k2 = k2
  k3 = k3
  Trades <- MCTrades
  Keys <- MCKeys
  Key <- MCKey
  SeenSize = 1
  PollLimit = 3
  MaxLives = 3
  MaxHurt = 1
  Faults = {"crash", "stop", "error"}
INVARIANTS
  TypeOK
  AtMostOneOrder
  OutboxCoversOrphans
  DoneMeansResolved
  OneOpenClaimPerLife
  SeenIsOnlyACache
PROPERTIES
  ImplementsCopyOnce
  ClaimsSettle
