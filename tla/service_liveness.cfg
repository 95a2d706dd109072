\* Two requests that compete for one connection and one row.
SPECIFICATION FairSpec
CONSTANTS
  r1 = r1  r2 = r2  r3 = r3
  s1 = s1  s2 = s2  s3 = s3  stray = stray
  alice = alice  bob = bob
  Nil = Nil
  NilUUID = NilUUID
  Empty = ""
  PersonID <- MCPersonID
  ServiceName <- MCServiceName
  Trim <- MCTrim
  StrayID = stray
  Today = 1
  Requests = {r1, r2}
  SubscriptionID = {s1, stray}
  PoolSize = 1
  SeedRows <- LiveSeed
  Payloads <- TwoBodies
  CostQueries <- OneCostQuery
  Operations = {"POST", "PATCH", "DELETE", "GET", "TOTAL"}
  LastDay = 1
PROPERTIES
  EveryRequestIsAnswered
