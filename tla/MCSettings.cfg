\* Three requests in flight, two changes of the row, a Redis that may fail.
SPECIFICATION GatesSpec
CONSTANTS
  None = None
  r1 = r1
  r2 = r2
  r3 = r3
  Requests = {r1, r2, r3}
  RedisMayFail = TRUE
  UpdateBound = 2
INVARIANTS
  GatesTypeOK
  StaleFillsBounded
PROPERTIES
  CacheConverges
  ClosedGateHolds
