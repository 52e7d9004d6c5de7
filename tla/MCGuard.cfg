SPECIFICATION Spec
CONSTANTS
  Pids = {p1, p2}
  SmIdInJniBound = 2
  SmIdBound = 1
  SidInJniBound = 2
  SidBound = 1
  MaxTeeSessions = 2
SYMMETRY Symmetry
INVARIANT TypeOK
INVARIANT MemoryIdsExclusive
INVARIANT MemoryBackedByNative
INVARIANT MemoryTracked
INVARIANT MemoryIsOwn
INVARIANT SessionIdsExclusive
INVARIANT SessionsBackedByNative
INVARIANT InvokeNeverThrows
INVARIANT CommandsUseOwnMemory
PROPERTY KeptMemoryUntouched
PROPERTY LeakCauses
PROPERTY ImplementsProxy
