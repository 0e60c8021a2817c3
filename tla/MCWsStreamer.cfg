CONSTANTS
  s1 = s1
  s2 = s2
  k1 = k1
  k2 = k2
  r1 = r1
  r2 = r2
  Sessions = {s1, s2}
  Sockets = {k1, k2}
  Requests = {r1, r2}
  MaxSends = 2
SPECIFICATION Spec
SYMMETRY Symmetry
INVARIANTS TypeOK OwnStream NothingForgotten OpenedWasSent
CHECK_DEADLOCK FALSE
