CONSTANTS
  NSlots = 4
  NConns = 2
  Clients = {c1, c2, c3}
  Kinds = {"transacao", "ping"}
  Outcomes = {"ok", "null", "error"}
  NULL = NULL
  MaxIoErrors = 0
  MaxSubmitErrors = 0
  MaxCuts = 0
  MaxCrashes = 1
SPECIFICATION Spec
SYMMETRY Symmetry
INVARIANTS ConnExclusive ReleasedIdle OwnAnswer Listening NobodyLeftWaiting NoIdleConnection
PROPERTIES KeepsPromise
CHECK_DEADLOCK FALSE
