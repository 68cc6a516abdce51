SPECIFICATION FairSpec
CONSTANTS
  Threads = {"t1", "t2", "t3"}
  Keys = {"a", "b"}
  Caches = {"DatabaseConfigurations", "CustomEntities", "Inserters"}
  Requests <- AllRequests
  Configurations = "DatabaseConfigurations"
  CustomEntities = "CustomEntities"
  Concurrent = {"DatabaseConfigurations"}
  MayFail = {"DatabaseConfigurations", "CustomEntities", "Inserters"}
INVARIANTS
  OneObject
  DatabasesAreConfigured
PROPERTIES
  ImplementsWriteOnce
  CallsReturn
