SPECIFICATION FairSpec
CONSTANTS
  w1 = w1  w2 = w2  m1 = m1  r1 = r1  r2 = r2
  h1 = h1  h2 = h2  h3 = h3  h4 = h4
  NULL = NULL  Garbage = Garbage  NoThread = NoThread
  Writers <- OneWriter
  DestructiveWriters <- OneDestructive
  Readers <- OneReader
  Drainers <- OneReader
  Handles <- ThreeHandles
  Size = 3
INVARIANTS DrainerNeverBlocks
PROPERTIES ProducersNeverStuck QueueDrains
