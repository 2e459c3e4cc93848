SPECIFICATION PoolFairSpec
CONSTANTS
  Reqs = {r1, r2}
  MaxTags = 2
  Nobody = Nobody
INVARIANTS
  HolderNeverWaits
PROPERTIES
  EveryRequestEnds
