CONSTANTS
  Conversations = {a, b}
  MaxAsks = 2
  MaxSteps = 2
  MaxCalls = 1
  MaxStops = 1
  Targets = {t1, t2}
  Fetches = {r1}
  MaxId = 2
  MaxFiles = 1
  MaxWanted = 2
  MaxTasks = 1
  Readers = {d1, d2}
SPECIFICATION BackSpec
INVARIANTS
  OneTurnAtATime
  AnswerIsThere
  NeverUnasked
PROPERTIES
  ConversationKept
  BackgroundEnds
CHECK_DEADLOCK FALSE
