CONSTANTS
  Commands = {"insert1", "update1", "query1"}
  Statements = 2
  KindOf <- MCKindOf
  MaxTransactions = 3
  ThrowLoggedExceptions = TRUE
  Faults = {"statement", "client", "connection"}
SPECIFICATION Spec
PROPERTIES
  ImplementsAtomicCommands
CHECK_DEADLOCK FALSE
