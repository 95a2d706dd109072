\* Three starts of the process on one database.
SPECIFICATION FairSpec
CONSTANTS
  ConnectAttempts = 5
  DelayFragment = 1
  AttemptTimeout = 1
  ReadyTimes <- MCReadyTimes
  LastVersion = 2
  ShouldMigrate = TRUE
  MaxStarts = 3
INVARIANTS
  TypeOK
  GivesUpOnlyAfterPatience
  ServesOnlyMigrated
PROPERTIES
  StartsServeOrEnd
