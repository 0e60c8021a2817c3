CONSTANTS
  c1 = c1
  c2 = c2
  r1 = r1
  r2 = r2
  r3 = r3
  NoConn = NoConn
  NoCall = NoCall
  Conns = {c1}
  Requests = {r1, r2, r3}
  MaxReplyId = 1
  Kind <- KindsAll
  FileLength <- LengthsNone
  BufferSize = 2
  Widths = {FALSE, TRUE}
SPECIFICATION FairSpec
INVARIANT TextKeepsUp
PROPERTY Settles
CHECK_DEADLOCK FALSE
