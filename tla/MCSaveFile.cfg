CONSTANTS
  s1 = s1
  s2 = s2
  s3 = s3
  l1 = l1
  Saves = {s1, s2}
  Loads = {l1}
  Old = Old
  Hole = Hole
  SizeUnits = 2
  JsonUnits = 2
  DataUnits = 2
SPECIFICATION Spec
SYMMETRY SaveSymmetry
INVARIANTS TypeOK FileIsWhole LoadIsWhole PiecesAreOrdered
CHECK_DEADLOCK FALSE
