CONSTANTS
  c1 = c1
  c2 = c2
  r1 = r1
  r2 = r2
  r3 = r3
  NoConn = NoConn
  NoCall = NoCall
  Conns = {c1, c2}
  Requests = {r1, r2}
  MaxReplyId = 1
  Kind <- KindsOpenLoad
  FileLength <- LengthsMultiple
  BufferSize = 1
  Widths = {FALSE}
SPECIFICATION Spec
INVARIANTS TypeOK EachPendingWaits OwnReply ConnectedIsBacked FileComplete
PROPERTY ImplementsPromises
SYMMETRY ConnSymmetry
CHECK_DEADLOCK FALSE
