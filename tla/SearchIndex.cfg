CONSTANTS
  Texts = {t1, t2}
  Providers = {p1, p2}
  MaxId = 2
  MaxWrites = 3
  MaxRebuilds = 2
  MaxRestarts = 1
  Batch = 2
  WriteChunk = 1
  RebuildChunk = 1
SPECIFICATION FairSpec
INVARIANTS
  IndexCurrent
  EmbeddedOrQueued
PROPERTIES
  MemoryIsTheTable
  SaveFollowsEdits
  EventuallyEmbedded
