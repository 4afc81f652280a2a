SPECIFICATION FairSpec
CONSTANTS
  Callers = {"main", "entry", "exit", "maint"}
  MaxCalls <- OneHandler
  Hydrates = 2
  MaxStops = 2
CHECK_DEADLOCK FALSE
INVARIANTS
  ClosedLast
PROPERTIES
  NothingBegunAfterStop
  ImplementsSerialStore
  StopEnds
