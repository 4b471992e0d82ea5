CONSTANTS
  Questions = {q1, phrase}
  Phrases = {phrase}
  Totals = {0, 1}
  Requests = {r1, r2}
  Capacity = 1
  MaxVersion = 3
  Shelves = {s1, s2}
  Papers = {i1}
  Callers = {c1}
  Tagged = {i1}
  Tags = {t1, t2}
  Editors = {e1, e2}
  Readers = {r1, r2}
  MaxWrites = 3
  Keys = {k1, k2}
  Works = {w1, w2}
  NoWork = NoWork
  Fingerprint <- OneIsHeld
  Lists <- FourLists
  Limit = 1
  Wanted = 2
  MaxDrift = 1
  Bringers = {r1, r2}
  MaxRow = 2
  NotedPapers = {p, q}
  Notes = {n1, n2}
  Words = {word}
  Untitled = Untitled
  Texts = {"blank", "word", "number"}
  TitleOf <- TitleIs
  Highest = 2
  Doubles = {"p1", "p2", "p3"}
  Records = {"ax", "a", "bx", "by"}
  Identifier <- IdentifierIs
  Written <- WrittenIs
  None = "none"
  Scanners = {"r"}
  Limits = {1, 3}
  MaxRewrites = 1
SPECIFICATION CatalogueSpec
SYMMETRY Symmetry
INVARIANTS
  TotalsAreRight
  EveryShelfHangs
  ListedInTime
  AddedTagsStay
  CitationsAgree
  TitledAndGrouped
PROPERTIES
  NeverGoesBack
CHECK_DEADLOCK FALSE
