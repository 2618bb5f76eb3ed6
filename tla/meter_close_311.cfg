SPECIFICATION FairSpec
CONSTANTS
  Events = {e1, e2, e3}
  Tenants = {ta, tb}
  e1 = e1
  e2 = e2
  e3 = e3
  ta = ta
  tb = tb
  tenant_id <- TenantOf
  QueueCapacity = 2
  BatchSize = 2
  MaxAttempts = 2
  GetInTask = TRUE
PROPERTIES
  CloseEnds
CHECK_DEADLOCK FALSE
