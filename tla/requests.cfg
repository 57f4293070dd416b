CONSTANTS
  Requests <- MCRequests
  Set = "all"
  Budgets = {0, 1, 5, 8, 100}
  Id64Max = 99
  Int64Max = 20
  Int4Max = 9
  Descricao = 2
  Padding = 9
  CJSON_NESTING_LIMIT = 2
  DefaultSize = 3
SPECIFICATION Spec
INVARIANTS NeverMistaken WholeIsUnderstood AmountFits BodyFreed
CHECK_DEADLOCK FALSE
