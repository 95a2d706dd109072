\* Results of up to three rows, each of which may be the last.
SPECIFICATION Spec
CONSTANTS
  s1 = s1  s2 = s2  s3 = s3
  alice = alice  bob = bob
  Nil = Nil
  NilUUID = NilUUID
  Empty = ""
  PersonID <- MCPersonID
  ServiceName <- MCServiceName
  Trim <- MCTrim
  Requests = {}
  SubscriptionID = {s1, s2, s3}
  SeedRows <- MCSeedRows
  CostQueries <- MCCostQueries
  MaxInt64 = 3
INVARIANTS
  TypeOK
  EveryRowOnce
  ExactUntilItWraps
  AnswerIsTheTotal
