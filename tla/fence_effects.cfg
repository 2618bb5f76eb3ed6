SPECIFICATION FenceSpec
CONSTANTS
  Calls = {c1}
  Owners = {p}
  Requests = {r1}
  c1 = c1
  c2 = c2
  c3 = c3
  p = p
  q = q
  o3 = o3
  r1 = r1
  r2 = r2
  NoOwner = NoOwner
  MaxCrashes = 0
INVARIANTS
  NoEffectsWhenQuiesced
