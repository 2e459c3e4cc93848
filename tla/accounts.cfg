SPECIFICATION Spec
CONSTANTS
  MaxUsers = 2
  Names = {n1, n2}
  Passwords = {p1}
  Addrs = {a1, a2}
  Cookies = {c1, c2}
  Links = {l1, l2}
  None = None
  Reqs = {r1, r2}
  Traffic <- Endpoints
  Faulty = TRUE
  MaxLapses = 1
SYMMETRY Symmetry
INVARIANTS
  TypeOK
  NoOrphans
  UniqueKeys
  OneLinkPerPurpose
  VerifiedMeansProven
  ResetOnlyToProven
PROPERTIES
  ResetBurnedOnlyByUse
CHECK_DEADLOCK FALSE
