\* Any kinds and owners of three requests over two connections.
SPECIFICATION Spec
CONSTANTS
  Requests = {r1, r2, r3}
  Owners = {alice, bob, carol}
  PoolSize = 2
INVARIANT NothingLeaks
PROPERTIES ApartRequestsEnd
CHECK_DEADLOCK FALSE
