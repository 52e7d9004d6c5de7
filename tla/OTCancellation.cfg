SPECIFICATION Spec
CONSTANTS
  Threads = {t1, t2}
  Requests = {k1}
  Pids = {1, 3}
  Width = 4
  Hashes = {1, 3}
  MaxInstances = 2
CHECK_DEADLOCK FALSE
INVARIANT TypeOK
INVARIANT MapIsRunning
