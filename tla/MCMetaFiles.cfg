CONSTANTS
  s1 = s1
  p1 = p1
  p2 = p2
  e0 = e0
  e1 = e1
  t1 = t1
  t2 = t2
  r1 = r1
  r2 = r2
  r3 = r3
  Sessions = {s1}
  Requests = {r1, r2, r3}
  Starter = Starter
  Projects = {p1, p2}
  Environs = {e0, e1}
  NoEnvirons = e0
  Texts = {t1, t2}
  Length <- Lengths
  Changes <- OneFlag
  FirstFiles <- NewOrUsed
  Missing = Missing
  Empty = Empty
  Torn = Torn
  MaxDeaths = 1
SPECIFICATION Spec
SYMMETRY Symmetry
INVARIANTS TypeOK StartsAgain
PROPERTY ImplementsStore
CHECK_DEADLOCK FALSE
