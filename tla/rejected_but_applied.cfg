CONSTANTS
  NSlots = 3
  NConns = 1
  Clients = {c1, c2}
  Kinds = {"transacao"}
  Outcomes = {"ok", "null"}
  NULL = NULL
  MaxIoErrors = 0
  MaxSubmitErrors = 0
  MaxCuts = 1
  MaxCrashes = 0
SPECIFICATION Spec
INVARIANTS UnprocessableMeansRejected
CHECK_DEADLOCK FALSE
