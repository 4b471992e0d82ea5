CONSTANTS
  MaxKey = 2
  Writers = {w1}
  Requests = {r1}
  Page = 1
  MaxDeaths = 2
  MaxStops = 1
SPECIFICATION FairSpec
INVARIANTS
  DeletedFilesAreQueued
  LiveFilesStay
PROPERTIES
  CleanupEnds
