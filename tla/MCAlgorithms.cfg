CONSTANTS
  MaxObjects = 2
  MaxDirectories = 6
  Shortenings = {1, 2, 4, 6, 8}
  MaxRotation = 3
  MaxStarts = 4
  MaxNames = 5
SPECIFICATION Spec
INVARIANTS PopsWhatWasSent ScanVisitsAll LogsAreKept  VerifiedIsInPlace ToggleComesBack
CHECK_DEADLOCK FALSE
