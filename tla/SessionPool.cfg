SPECIFICATION PoolLiveSpec
CONSTANTS
  Key = {k1, k2}
  Client = {c1, c2}
  Identity = {i1, i2}
  Nobody = Nobody
  Sentinel = Sentinel
  MaxSessions = 1
  MaxAlive = 2
  Stoppers = {c2}
  Impatient = {c1}
INVARIANT OneSessionPerKey
PROPERTY NothingIsLost
PROPERTY EveryoneReturns
CHECK_DEADLOCK FALSE
