CONSTANTS
  Entities = {"A", "B", "C"}
  Relations = {1, 2, 3}
  MaxObjects = 3
  Inserts <- MCInserts
SPECIFICATION Spec
INVARIANTS
  PlanIsWalked
  PrincipalsFirst
  LoopIsReal
  TreeIsStored
  WalkIsStoredOnce
  ReferencesExist
  KeysFitRows
PROPERTIES
  Terminates
CHECK_DEADLOCK FALSE
