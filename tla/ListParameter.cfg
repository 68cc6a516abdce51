SPECIFICATION Spec
CONSTANTS
  Columns <- AllColumns
  PrimaryColumn = "Id"
  Entities <- AllEntities
  Tracked <- TrackedEntities
  Assignable = {1, 2}
  Batches <- AllBatches
  ListSizes = {1, 2}
  MaxArguments = 2
  MaxAssignments = 1
  MaxUses = 1
INVARIANT ListsMayBeFollowed
CHECK_DEADLOCK FALSE
