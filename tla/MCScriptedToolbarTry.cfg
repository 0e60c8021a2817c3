CONSTANTS
  c1 = c1
  c2 = c2
  c3 = c3
  Callers = {c1}
  MaxRuns = 1
  Actions = {"execute", "tryGetExitStatus"}
  Cancels = {"kill"}
SPECIFICATION FairSpec
PROPERTIES TryReturns
CHECK_DEADLOCK FALSE
