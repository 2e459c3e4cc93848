SPECIFICATION Spec
CONSTANTS
  MaxUsers = 2
  Names = {n1, n2}
  Passwords = {p1, p2}
  Addrs = {a1}
  Cookies = {c1, c2}
  Links = {l1, l2, l3}
  None = None
  Reqs = {r1}
  Traffic <- ResetTraffic
  Faulty = FALSE
  MaxLapses = 5
SYMMETRY Symmetry
INVARIANTS
  LinkUsedOnce
  SessionsMatchPassword
PROPERTIES
  AccountsRemain
CHECK_DEADLOCK FALSE
