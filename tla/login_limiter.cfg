SPECIFICATION LimiterFairSpec
CONSTANTS
  Clients = {k1, k2}
  Reqs = {r1, r2}
  MaxAttempts = 5
  Window = 3
  Lockout = 3
  NoClient = NoClient
INVARIANTS
  BoundedFailures
  FreshStart
PROPERTIES
  LockoutEnds
