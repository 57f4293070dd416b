CONSTANTS
  NSlots = 5
  NConns = 1
  Clients = {c1, c2, c3, c4}
  Kinds = {"transacao"}
  Outcomes = {"ok"}
  NULL = NULL
  MaxIoErrors = 0
  MaxSubmitErrors = 0
  MaxCuts = 0
  MaxCrashes = 0
SPECIFICATION Spec
SYMMETRY Symmetry
INVARIANTS NobodyLeftWaiting
CHECK_DEADLOCK FALSE
