CONSTANTS
  Keys = {k1, k2}
  NoKey = NoKey
  Page = 1
  MaxAdded = 2
  MaxEdits = 3
  MaxStops = 0
SPECIFICATION Spec
PROPERTY PresentIsLeftAlone
CHECK_DEADLOCK FALSE
