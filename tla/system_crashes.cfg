\* Three operations in either of two processes, one row, one connection.
SPECIFICATION SystemSpec
CONSTANTS
  ConnectAttempts = 1
  DelayFragment = 1
  AttemptTimeout = 0
  ReadyTimes = {0}
  LastVersion = 0
  ShouldMigrate = FALSE
  MaxStarts = 2
  r1 = r1  r2 = r2
  s1 = s1  stray = stray
  alice = alice
  Nil = Nil
  NilUUID = NilUUID
  Empty = ""
  PersonID <- MCPersonID
  ServiceName <- MCServiceName
  Trim <- MCTrim
  StrayID = stray
  Today = 1
  LastDay = 1
  Requests = {r1, r2}
  SubscriptionID = {s1, stray}
  PoolSize = 1
  SeedRows <- MCSeedRows
  Payloads <- MCPayloads
  CostQueries = {}
  Operations = {"POST", "PATCH", "DELETE"}
SYMMETRY RequestSymmetry
PROPERTIES
  OrderlyExitSettles
  DurablyLinearizable

