CONSTANTS
  Entities = {"A", "B", "C"}
  Relations = {1, 2, 3}
  MaxObjects = 3
  Inserts <- GeneratedInserts
SPECIFICATION Spec
INVARIANTS
  PopulatedAreInserted
CHECK_DEADLOCK FALSE
