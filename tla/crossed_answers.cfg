CONSTANTS
  NSlots = 5
  NConns = 1
  Clients = {c1, c2, c3, c4}
  Kinds = {"extrato", "badbody"}
  Outcomes = {"ok"}
  NULL = NULL
  MaxIoErrors = 0
  MaxSubmitErrors = 0
  MaxCuts = 0
  MaxCrashes = 0
SPECIFICATION BusySpec
INVARIANTS OwnAnswer
CHECK_DEADLOCK FALSE
