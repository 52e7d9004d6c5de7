SPECIFICATION Spec
CONSTANTS
  Pids = {p1, p2}
  SmIdInJniBound = 1
  SmIdBound = 1
  SidInJniBound = 2
  SidBound = 1
  MaxTeeSessions = 2
SYMMETRY Symmetry
INVARIANT CommandsRunInOwnSession
