CONSTANTS
  Texts = {t1, t2}
  Providers = {p1}
  MaxId = 2
  MaxWrites = 3
  MaxRebuilds = 1
  MaxRestarts = 0
  Batch = 2
  WriteChunk = 1
  RebuildChunk = 1
SPECIFICATION Spec
INVARIANTS
  RebuildEndsCurrent
