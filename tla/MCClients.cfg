CONSTANTS
  Keys = {k1, k2}
  NoKey = NoKey
  Texts = {t1, t2}
  Words <- NoneIsSearched
  PageLimit = 2
  MaxVersion = 3
  Editors = {e1}
  MaxFeed = 3
  Capacity = 1
  MaxOpens = 2
  MaxAsks = 2
  Works = {"a", "b"}
  Filed <- FiledBackwards
  Citations <- FourCitations
  Fields = {"f1", "f2"}
  Styles = {"apa", "ieee"}
  Numeric = {"ieee"}
  Default = "apa"
  MaxEdits = 3
  MaxRestarts = 2
SPECIFICATION PagesSpec
SYMMETRY Symmetry
INVARIANTS
  CopyHoldsUnchanged
  QuietPageIsCurrent
  DocumentsRight
PROPERTIES
  NothingLost
CHECK_DEADLOCK FALSE
