CONSTANTS
  Requests <- MCRequests
  Set = "several"
  Budgets = {0, 1, 5, 8, 100}
  Id64Max = 99
  Int64Max = 20
  Int4Max = 9
  Descricao = 2
  Padding = 9
  CJSON_NESTING_LIMIT = 2
  DefaultSize = 3
SPECIFICATION Spec
INVARIANT SeveralMatchesRefused
CHECK_DEADLOCK FALSE
