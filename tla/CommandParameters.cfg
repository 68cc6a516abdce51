SPECIFICATION Spec
CONSTANTS
  Columns <- AllColumns
  PrimaryColumn = "Id"
  Entities <- AllEntities
  Tracked <- TrackedEntities
  Assignable = {1, 2}
  Batches <- AllBatches
  ListSizes = {0, 1, 2, 11}
  MaxArguments = 4
  MaxAssignments = 2
  MaxUses = 2
INVARIANTS
  ArgumentsReachTheirPlaces
  WritesReachTheirRows
  ChangesAreKept
CHECK_DEADLOCK FALSE
