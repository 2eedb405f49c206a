SPECIFICATION FairSpec
CONSTANTS
  info = info
  tile = tile
  p1 = p1
  p2 = p2
  t1 = t1
  t2 = t2
  Keys = {info, tile}
  Cacheable = {tile}
  Pids = {p1}
  Stamps = {t1, t2}
  Capacity = 1
  MaxJobs = 2
  MaxRevision = 3
  MaxSession = 1
PROPERTIES
  ReadEnds
  WantedIsSent
  ShutdownCompletes
CHECK_DEADLOCK FALSE
