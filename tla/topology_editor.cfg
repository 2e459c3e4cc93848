SPECIFICATION Spec
CONSTANTS
  MaxId = 1
  MaxRevs = 3
  Docs = {d0, d1, untidy}
  Normal <- Tidied
  Blank = d0
  d1 = d1
  Untidy = untidy
  Invalid = invalid
  Tokens = {t1, t2}
  Pages = {p1, p2}
  Reqs = {r1, r2}
  None = None
  NoTopo = NoTopo
  Hasty = {p2}
  Lapsing = {p2}
SYMMETRY Symmetry
INVARIANTS
  TypeOK
  RevokedForGood
  LinkWorks
  StoppedIsRevoked
PROPERTIES
  CleanMeansStored
  RefinesRecords
CHECK_DEADLOCK FALSE
