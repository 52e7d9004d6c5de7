SPECIFICATION Spec
CONSTANTS
  Threads = {t1}
  Memories = {m1}
  Values = {v1}
  Slots = {1}
  Size = 2
  PtrSize = 1
  Versions = {a, b}
  Null = Null
SYMMETRY Symmetry
INVARIANT InputReachesTA
