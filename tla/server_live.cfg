CONSTANTS
  NSlots = 4
  NConns = 1
  Clients = {c1, c2, c3}
  Kinds = {"extrato", "bad"}
  Outcomes = {"ok", "error"}
  NULL = NULL
  MaxIoErrors = 0
  MaxSubmitErrors = 0
  MaxCuts = 0
  MaxCrashes = 0
SPECIFICATION BusySpec
PROPERTIES Answered SlotsReturn
CHECK_DEADLOCK FALSE
