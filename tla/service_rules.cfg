\* Every body and every operation, two requests at a time.
SPECIFICATION Spec
CONSTANTS
  r1 = r1  r2 = r2  r3 = r3
  s1 = s1  s2 = s2  s3 = s3  stray = stray
  alice = alice  bob = bob
  Nil = Nil
  NilUUID = NilUUID
  Empty = ""
  PersonID <- MCPersonID
  ServiceName <- MCServiceName
  Trim <- MCTrim
  StrayID = stray
  Today = 1
  Requests = {r1, r2}
  SubscriptionID = {s1, stray}
  PoolSize = 2
  SeedRows <- MCSeedRows
  Payloads <- AllBodies
  CostQueries <- MCCostQueries
  Operations = {"POST", "PATCH", "DELETE", "GET", "LIST", "TOTAL"}
  LastDay = 2
SYMMETRY RequestSymmetry
INVARIANTS
  TypeOK
  StoredSubsAreValid
  NoTornSubscription
  AnswersAreFinal
PROPERTIES
  OnlyUndecidedRequestsWrite
