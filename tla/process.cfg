SPECIFICATION MCSpec
CONSTANTS
  Calls = {k1, k2}
  k1 = k1
  Owners = {p, q}
  NoOwner = NoOwner
  Requests = {t1, t2}
  MaxCrashes = 2
  N = 4
  Concurrency = 2
  Events = {e1, e2, e3}
  Tenants = {ta, tb}
  e1 = e1
  e2 = e2
  e3 = e3
  ta = ta
  tb = tb
  tenant_id <- TenantOf
  QueueCapacity = 2
  BatchSize = 2
  MaxAttempts = 2
  GetInTask = TRUE
INVARIANTS
  
  
  
  ActiveExact
  ResourcesOutliveUsers
  ReceiptTrue
  TagsFollowVectors
  FailureDropsTags
  Conservation
  AcceptedIsStored
  ClosedHealthComplete
PROPERTIES
  LeaseGivenUp
  EventsSettled
CHECK_DEADLOCK FALSE
