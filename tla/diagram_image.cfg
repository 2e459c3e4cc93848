SPECIFICATION ImageSpec
CONSTANTS
  Places = {0, 5000}
  Labels = {1}
  Details = {0, 80}
  Names = {80}
  LinkTexts = {29, 80}
  VlanNums = {100, 4094}
  MostNodes = 2
  MostLines = 1
  LegendLen <- Legends
  KindLen <- KindLabels
CHECK_DEADLOCK FALSE
INVARIANTS
  NothingCutOff
  NothingCovered
