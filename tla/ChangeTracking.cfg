CONSTANTS
  Threads = {"t1", "t2"}
  Definitions <- EveryLayout
  Layouts <- ChangedLayouts
  Origins = {"TrackChanges"}
  MayFail = TRUE
  MaxAssignments = 3
SPECIFICATION Spec
INVARIANTS
  ColumnsAgree
  EveryAssignmentSent
  OnlyAssignedColumnsSent
  CleanMeansStored
CHECK_DEADLOCK FALSE
