CONSTANTS
  Commands = {"insert1", "update1", "query1"}
  Statements = 2
  KindOf <- MCKindOf
  MaxTransactions = 3
  ThrowLoggedExceptions = FALSE
  Faults = {"statement", "client", "connection", "cancel", "logger"}
SPECIFICATION FairSpec
INVARIANTS
  ServerTransactionIsActive
  NoLeakedAutoTransaction
  AllOrNothing
  FailureLeavesNothing
PROPERTIES
  EarlierWorkSurvives
  CommandReturns
  SuccessMeansDone
  OuterTransactionSurvives
CHECK_DEADLOCK FALSE
