SPECIFICATION FairSpec
CONSTANTS
  Threads = {t1}
  Requests = {k1}
  Pids = {1}
  Width = 4
  Hashes = {1}
  MaxInstances = 1
CHECK_DEADLOCK FALSE
PROPERTY RunningOperationsAreCancelled
