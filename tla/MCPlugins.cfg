CONSTANTS
  Requests = {r1, r2}
  MaxOps = 3
  MaxStarts = 3
  MaxStops = 1
  Callers = {c1, c2, stop}
  Stopper = stop
  MaxLines = 1
SPECIFICATION PluginsSpec
INVARIANTS
  AnswerIsMine
  NoneHangs
  OffStaysOff
CHECK_DEADLOCK FALSE
