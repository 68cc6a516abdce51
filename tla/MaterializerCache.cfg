CONSTANTS
  Queries = {"homes", "offices", "homesAsOffices", "jobs", "peopleMisjoined"}
  SqlOf <- MCSqlOf
  ColumnsOf <- MCColumnsOf
  RelationsOf <- MCRelationsOf
  EntityOf <- MCEntityOf
  Matching <- MCMatching
  MaxTime = 3
  MaxNodes = 3
  Spans = {1, 2}
  None = None
SPECIFICATION Spec
INVARIANTS
  CacheConsistent
  MaterializerFits
PROPERTIES
  KeptWhileFresh
  OldestIsEvicted
