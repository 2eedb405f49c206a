SPECIFICATION FairSpec
CONSTANTS
  home = home
  jobs = jobs
  plans = plans
  notes = notes
  Folders <- MCFolders
  Top = home
  Parent <- MCParent
  Slots = 1
  MaxGeneration = 3
  MaxTime = 1
INVARIANTS
  ShownIsFresh
  PendingIsUnderWay
PROPERTIES
  FolderIsRead
