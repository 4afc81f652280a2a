SPECIFICATION Spec
CONSTANTS
  Callers = {"main", "entry", "exit", "maint"}
  MaxCalls <- OneHandler
  Hydrates = 2
  MaxStops = 1
CHECK_DEADLOCK FALSE
INVARIANTS
  OneTransaction
