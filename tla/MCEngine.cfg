SPECIFICATION Spec
CONSTANTS
  Activities = {a1, a2}
  Requests = {r1}
  Builds = {v1, v2}
  Libraries <- NoFile
  TAs <- OneTA
  None = None
  Blocks = 3
  Length <- Unequal
  MaxKills = 1
  MaxFailures = 1
INVARIANT TypeOK
INVARIANT QuietFilesComplete
INVARIANT AssetsAreFresh
INVARIANT SomeEngineComesUp
INVARIANT StopNeverDropped
SYMMETRY Symmetry
CHECK_DEADLOCK FALSE
