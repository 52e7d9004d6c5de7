SPECIFICATION Spec
CONSTANTS
  Contexts = {x1, x2}
  Sids = {s1}
  SmIds = {m1}
  Operations = {op}
  NoOp = NoOp
  Nobody = Nobody
  MainUsers = {}
  MaxSessions = 2
  MaxMemory = 2
  MaxDeaths = 1
  MaxInterrupts = 1
SYMMETRY Symmetry
INVARIANT TypeOK
INVARIANT LockTracksSync
PROPERTY MemoryStaysReachable
PROPERTY SessionsStayReachable
CHECK_DEADLOCK FALSE
