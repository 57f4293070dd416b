CONSTANTS
  Items = {r1, r2, r3, r4}
  NULL = NULL
SPECIFICATION Spec
INVARIANTS CleanExit
PROPERTIES StatementsImplementCalls StatementsImplementLossyFifo SignalEnds
CHECK_DEADLOCK FALSE
