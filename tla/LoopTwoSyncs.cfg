\* Expected violation: two syncs of one owner.
SPECIFICATION TwoSyncsSpec
CONSTANTS
  Requests = {r1, r2}
  Owners = {alice}
  PoolSize = 2
PROPERTIES EveryRequestEnds
CHECK_DEADLOCK FALSE
