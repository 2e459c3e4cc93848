SPECIFICATION Spec
CONSTANTS
  Devices = {d1, d2}
  VlanIds = {v1, v2}
  Spellings = {"plain"}
  Device = d1
  Blank = Blank
  NoRow = NoRow
SYMMETRY Symmetry
INVARIANTS
  RefusalKeepsInput
PROPERTIES
  UntouchedSaveIsQuiet
