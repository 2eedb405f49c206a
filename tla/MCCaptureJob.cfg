SPECIFICATION FairSpec
CONSTANTS
  j1 = j1
  None = None
  Jobs = {j1}
  Cells <- MCCells
  PipeSlots = 1
  LineSlots = 2
  EventSlots = 3
  TaskFits = FALSE
INVARIANTS
  NothingLost
  WorkersReaped
PROPERTIES
  TimeoutMeansSilence
  WorkerEnds
  JobEnds
CHECK_DEADLOCK FALSE
