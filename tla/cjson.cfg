CONSTANTS
  Arrays = {a}
  Items = {i1, i2, i3}
  NULL = NULL
  Caller = Caller
  Nobody = Nobody
  Names <- MCNames
  Fold <- MCFold
  Budgets = {0, 1, 2, 3, 4, 5, 6, 7, 8, 100}
  Lengths = {0, 1, 8}
  CJSON_NESTING_LIMIT = 2
  DefaultSize = 3
SPECIFICATION MCSpec
SYMMETRY Symmetry
INVARIANTS LinksOK FreedOnce NoLeak NoOverrun AsWritten ReadsBack CopyIsEqual
PROPERTY ImplementsLists
CHECK_DEADLOCK FALSE
