SPECIFICATION FairSpec
CONSTANTS
  Contexts = {x1, x2}
  Sids = {s1}
  SmIds = {}
  Operations = {op}
  NoOp = NoOp
  Nobody = Nobody
  MainUsers = {x1, x2}
  MaxSessions = 2
  MaxMemory = 0
  MaxDeaths = 1
  MaxInterrupts = 0
PROPERTY AnsweredCallsReturn
PROPERTY ConstructorsReturn
CHECK_DEADLOCK FALSE
