SPECIFICATION LiveSpec
CONSTANTS
  Coros = {c1, c2}
  SyncThreads = {t1}
  Locks = {l1, l2}
  NoLock = NoLock
  PoolSize = 2
  DoubleCancels = TRUE
INVARIANT MutualExclusion
PROPERTY OnlyAbandonmentWedges
PROPERTY EveryoneGetsIn
CHECK_DEADLOCK FALSE
