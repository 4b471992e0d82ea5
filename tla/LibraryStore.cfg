\* Three keys, so that a paper, its file and a mark on the file can exist together.
CONSTANTS
  Keys = {k1, k2, k3}
  NoKey = NoKey
  Texts = {t1, t2}
  Words <- AllIsSearched
  PageLimit = 2
  MaxVersion = 5
SPECIFICATION Spec
SYMMETRY Symmetry
INVARIANTS
  TypeOK
  IndexCurrent
  NoOrphans
  TombstonesPrecedeRebirth
PROPERTIES
  ChangesAreVersioned
CHECK_DEADLOCK FALSE
