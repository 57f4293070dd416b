CONSTANTS
  NSlots = 3
  NConns = 1
  Clients = {c1, c2, c3}
  Kinds = {"transacao", "badbody", "exit"}
  Outcomes = {"ok"}
  NULL = NULL
  MaxIoErrors = 1
  MaxSubmitErrors = 1
  MaxCuts = 1
  MaxCrashes = 0
SPECIFICATION Spec
SYMMETRY Symmetry
INVARIANTS TypeOK OneOperation PushedOnce SocketOwnership AppliedAtMostOnce
CHECK_DEADLOCK FALSE
