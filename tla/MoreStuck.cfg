CONSTANTS
  MaxVersion = 3
  Capacity = 1
  MaxOpens = 2
  MaxAsks = 3
SPECIFICATION Spec
INVARIANT MoreCanLoad
CHECK_DEADLOCK FALSE
