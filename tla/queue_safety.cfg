SPECIFICATION Spec
CONSTANTS
  w1 = w1  w2 = w2  m1 = m1  r1 = r1  r2 = r2
  h1 = h1  h2 = h2  h3 = h3  h4 = h4
  NULL = NULL  Garbage = Garbage  NoThread = NoThread
  Writers <- TwoWriters
  DestructiveWriters <- OneDestructive
  Readers <- TwoReaders
  Drainers <- NoThreads
  Handles <- FourHandles
  Size = 3
SYMMETRY QueueSymmetry
INVARIANTS TypeOK ReadNeverFindsEmpty PermitsBalance OneOwner DestroysQueuedHandle
PROPERTY ImplementsFifo
