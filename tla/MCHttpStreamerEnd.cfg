CONSTANTS
  l1 = l1
  l2 = l2
  h1 = h1
  h2 = h2
  s1 = s1
  NoHost = NoHost
  Listeners = {l1, l2}
  Senders = {}
  Host <- OneHost
  MaxStreamListeners = 1
  MaxId = 1
  MaxMsgs = 2
SPECIFICATION FairSpec
PROPERTY ThreadsEnd
CHECK_DEADLOCK FALSE
