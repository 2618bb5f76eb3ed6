SPECIFICATION Spec
CONSTANTS
  Requests = {r1, r2, r3, r4}
  r1 = r1
  r2 = r2
  r3 = r3
  r4 = r4
  Capacity = 2
  Asks <- AnyLane
PROPERTIES
  RejectedOnlyAtCapacity
