\* Two DELETEs of one row in either of two processes, with one connection.
SPECIFICATION MCFairSpec
CONSTANTS
  ConnectAttempts = 1
  DelayFragment = 1
  AttemptTimeout = 0
  ReadyTimes = {0}
  LastVersion = 0
  ShouldMigrate = FALSE
  MaxStarts = 2
  r1 = r1  r2 = r2
  s1 = s1  stray = stray
  alice = alice
  Nil = Nil
  NilUUID = NilUUID
  Empty = ""
  PersonID <- MCPersonID
  ServiceName <- MCServiceName
  Trim <- MCTrim
  StrayID = stray
  Today = 1
  LastDay = 2
  Requests = {r1, r2}
  SubscriptionID = {s1, stray}
  PoolSize = 1
  SeedRows <- MCSeedRows
  Payloads <- MCPayloads
  CostQueries = {}
  Operations = {"DELETE"}
PROPERTIES
  EveryRequestEnds
  SignalEndsTheProcess
