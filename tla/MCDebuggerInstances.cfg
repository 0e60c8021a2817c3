CONSTANTS
  s1 = s1
  c1 = c1
  r1 = r1
  r2 = r2
  Session = s1
  Sessions = {s1}
  Requests = {r1, r2}
  MayBe <- AnyKind
  Configs = {c1}
  MaxInstances = 2
SPECIFICATION FairSpec
INVARIANTS TypeOK ExactlyTheLive DuplicatesWereUnseen ExitsAreSafe
PROPERTIES ExitIsNoticed DeletedIsStopped
CHECK_DEADLOCK FALSE
