SPECIFICATION Spec
CONSTANTS
  k1 = k1
  k2 = k2
  Keys = {k1, k2}
  Null = Null
  None = None
  PrimaryMap = PrimaryMap
  Queries <- PairQueries
  MaxRows = 3
SYMMETRY Symmetry
INVARIANT OnlyMatchedRecords
CHECK_DEADLOCK FALSE
