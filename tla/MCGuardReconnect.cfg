SPECIFICATION Spec
CONSTANTS
  Pids = {p1, p2}
  SmIdInJniBound = 1
  SmIdBound = 1
  SidInJniBound = 1
  SidBound = 1
  MaxTeeSessions = 1
SYMMETRY Symmetry
INVARIANT InitializedMeansConnected
