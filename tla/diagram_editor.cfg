SPECIFICATION Spec
CONSTANTS
  MaxNodes = 3
  MaxLinks = 2
  MaxVlans = 2
  MaxTags = 1
  Colors = 2
  Stored <- OldDiagrams
  Inventories <- Mixed
  OfferedKinds <- TwoKinds
  OfferedStyles = {"", "trunk"}
  Texts <- Typed
  Numbers = {20}
  MaxSeq = 7
  MaxEdits = 2
  FinishesLinks = TRUE
INVARIANTS
  WellFormed
  DrawingsAgree
PROPERTIES
  ConvertTags
  ImportDrawsAll
