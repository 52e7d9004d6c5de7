SPECIFICATION Spec
CONSTANTS
  Threads = {t1, t2}
  Memories = {m1}
  Values = {}
  Slots = {1}
  Size = 3
  PtrSize = 2
  Versions = {a}
  Null = Null
SYMMETRY Symmetry
INVARIANT BytesKeepPosition
INVARIANT ReturnSizesAreReported
