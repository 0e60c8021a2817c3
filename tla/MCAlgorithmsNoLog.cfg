CONSTANTS
  MaxObjects = 0
  MaxDirectories = 1
  Shortenings = {1}
  MaxRotation = 1
  MaxStarts = 2
  MaxNames = 1
SPECIFICATION Spec
INVARIANT ZeroDisablesLog
CHECK_DEADLOCK FALSE
