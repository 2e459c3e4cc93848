SPECIFICATION Spec
CONSTANTS
  MaxId = 1
  MaxRevs = 3
  Docs = {d0, d1, untidy, invalid}
  Normal <- Tidied
  Blank = d0
  d1 = d1
  Untidy = untidy
  Invalid = invalid
  Tokens = {t1}
  Pages = {p1}
  Reqs = {r1}
  None = None
  NoTopo = NoTopo
  Hasty = {}
  Lapsing = {p1}
SYMMETRY Symmetry
PROPERTIES
  NoSilentLoss
CHECK_DEADLOCK FALSE
