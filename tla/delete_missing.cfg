\* DELETE of a subscription that is deleted already or was never there.
SPECIFICATION Spec
CONSTANTS
  r1 = r1  r2 = r2  r3 = r3
  s1 = s1  s2 = s2  s3 = s3  stray = stray
  alice = alice  bob = bob
  Nil = Nil
  NilUUID = NilUUID
  Empty = ""
  PersonID <- MCPersonID
  ServiceName <- MCServiceName
  Trim <- MCTrim
  StrayID = stray
  Today = 1
  Requests = {r1}
  SubscriptionID = {s1, stray}
  PoolSize = 2
  SeedRows <- MCSeedRows
  Payloads <- TwoBodies
  CostQueries <- OneCostQuery
  Operations = {"DELETE"}
  LastDay = 1
INVARIANTS
  DeleteReportsMissing
