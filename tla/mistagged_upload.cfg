SPECIFICATION MCSpec
CONSTANTS
  Requests = {r1, r2, r3}
  FailureThreshold = 2
  ResetTimeout = 2
  HalfOpenRequests = 2
  MaxGeneration = 4
  Tenants = {t1}
  Callers = {c1, c2, c3}
  TenantOf <- OneTenant
  Ttl = 2
  CallTime = 1
  LastTick = 4
  Prompts = {p1, p2, p3}
  Summaries = {p1, p2}
  Capacity = 2
  Providers = 2
  Attempts = 2
  Threads = {w1, w2}
  Handles = {h1, h2, h3}
  MaxIds = 0
  NoHandle = NoHandle
  MaxTokens = 2
  Urls = {u1, u2, u3, u4}
  Secure = {u1, u2, u4}
  Public = {u1, u2, u3}
  MaxHops = 5
  MaxBytes = 1
  MaxItems = 2
  Channels = {k1, k2}
  k1 = k1
  k2 = k2
  NoChannel = NoChannel
  Refs <- Shelves
  MaxRefs = 4
  MaxLinks = 3
  Limit = 1
  MaxRelated = 1
INVARIANTS
  OneUploadDoesNotDecide
CHECK_DEADLOCK FALSE
