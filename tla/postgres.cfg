CONSTANTS
  Sessions = {s1, s2}
  Requests <- MCRequests
  Limite <- MCLimite
  Int4Max = 5
  Latest = 2
  Times = {1, 2, 3, 4}
  MaxCalls = 4
  MaxCrashes = 1
SPECIFICATION PSpec
INVARIANTS Balanced ExtratoKeepsOrder
PROPERTIES ImplementsLedger CallsEnd
CHECK_DEADLOCK FALSE
