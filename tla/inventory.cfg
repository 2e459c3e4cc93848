SPECIFICATION Spec
CONSTANTS
  Kinds <- Entities
  MaxId = 2
  MaxRevs = 6
  Values = {v1, v2}
  Ports = {}
  None = None
  NoRow = NoRow
SYMMETRY Symmetry
INVARIANTS
  RefsValid
  HistoryExplains
  LivesInOrder
CHECK_DEADLOCK FALSE
