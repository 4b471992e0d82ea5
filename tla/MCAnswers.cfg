CONSTANTS
  j1 = j1
  j2 = j2
  Jobs = {j1, j2}
  Nowhere = "none"
  Web <- SampleWeb
  Pages <- SamplePages
  Templates <- SampleTemplates
  Shelved <- SampleShelf
  MaxKey = 4
  MaxWrites = 2
  MaxActs = 3
  MaxStops = 1
SPECIFICATION AnswersSpec
SYMMETRY Symmetry
INVARIANTS
  AttachedRight
  FoundIsWhatIsAsked
  RecordsToldApart
PROPERTIES
  NothingTakenBack
CHECK_DEADLOCK FALSE
