CONSTANTS
  l1 = l1
  l2 = l2
  h1 = h1
  h2 = h2
  s1 = s1
  NoHost = NoHost
  Listeners = {l1, l2}
  Senders = {s1}
  Host <- TwoHosts
  MaxStreamListeners = 2
  MaxId = 2
  MaxMsgs = 2
SPECIFICATION Spec
INVARIANTS TypeOK NoDangling Delivers MissesOnlyTheGone
CHECK_DEADLOCK FALSE
