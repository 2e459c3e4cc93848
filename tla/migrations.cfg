SPECIFICATION FairSpec
CONSTANTS
  s1 = s1
  s2 = s2
  b1 = b1
  b2 = b2
  d1 = d1
  d2 = d2
  Servers = {s1, s2}
  Copiers = {b1, b2}
  Last = 2
  Latest <- MCLatest
  Data = {d1, d2}
  Dests = {f1}
  MaxFaults = 2
  ClearsLog = TRUE
  None = None
INVARIANTS
  TypeOK
  ServedIsMigrated
  BackupsUsable
PROPERTIES
  RefinesVersions
  ServersComeUp
