SPECIFICATION Spec
CONSTANTS
  k1 = k1
  k2 = k2
  Keys = {k1, k2}
  Null = Null
  None = None
  PrimaryMap = PrimaryMap
  Queries <- AllQueries
  MaxRows = 4
SYMMETRY Symmetry
INVARIANTS
  CollectionsMatchRows
  ReferencesMatchRows
  ResultFollowsRows
  MatchedRowsAreMerged
CHECK_DEADLOCK FALSE
