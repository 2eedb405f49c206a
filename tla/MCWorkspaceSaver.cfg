SPECIFICATION FairSpec
CONSTANTS
  Slots = 1
  MaxEdits = 4
  MaxFailures = 2
  MaxCrashes = 2
INVARIANTS
  FileWhole
PROPERTIES
  NeverBackwards
  ExitSaves
  LatestSaved
