SPECIFICATION MCSpec
CONSTANTS
  Requests = {r1, r2, r3, r4}
  r1 = r1
  r2 = r2
  r3 = r3
  r4 = r4
  Capacity = 2
  Asks <- Mixed
  Visitors = {v1, v2, v3, v4}
  v1 = v1
  Classes = {"embedding", "embedding_query"}
  Room <- TwoThreads
  ClassOf <- OneQuery
  PoolOf <- SharedPool
  Accounts = 4
  Workers = {w1, w2}
  Cases = 5
  Slots = 3
  CaseTimeout = 2
  Windows = {0, 1, 4}
  Junk = 9
  NoEnd = 99
  ChainLength = 2
  MaxItems = 3
  Evidence = {e1, e2}
  MaxEvidence = 2
  Offers = {o1, o2}
  NoOffer = NoOffer
INVARIANTS
  CountersExact
  FloorNeverAsleep
  WaitsOnlyForCause
  AnsweredInFull
  WavesInTime
  PlanCoversOnce
  AnswersGrounded
PROPERTIES
  FloorServed
  ClassifyEnds
CHECK_DEADLOCK FALSE
