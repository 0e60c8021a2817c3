CONSTANTS
  c1 = c1
  c2 = c2
  c3 = c3
  Callers = {c1, c2, c3}
  MaxRuns = 3
  Actions = {"execute", "executeShort", "tryGetExitStatus"}
  Cancels = {"kill"}
SPECIFICATION Spec
SYMMETRY CallerSymmetry
INVARIANTS TypeOK OneAtATime ExitsReported StatusOfTheProcess
CHECK_DEADLOCK FALSE
