SPECIFICATION Spec
CONSTANTS
  info = info
  tile = tile
  p1 = p1
  p2 = p2
  t1 = t1
  t2 = t2
  Keys = {info, tile}
  Cacheable = {tile}
  Pids = {p1, p2}
  Stamps = {t1, t2}
  Capacity = 2
  MaxJobs = 2
  MaxRevision = 3
  MaxSession = 2
SYMMETRY Symmetry
INVARIANTS
  TypeOK
  OneWorker
  FreshWorker
  NoOrphan
PROPERTIES
  KillsOnlyCancelled
  KeepsPromise
CHECK_DEADLOCK FALSE
