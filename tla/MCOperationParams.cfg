SPECIFICATION Spec
CONSTANTS
  Threads = {t1}
  Memories = {m1}
  Values = {v1}
  Slots = {1, 2}
  Size = 1
  PtrSize = 1
  Versions = {a, b}
  Null = Null
SYMMETRY Symmetry
INVARIANT TypeOK
PROPERTY InputsAreKept
