SPECIFICATION LiveSpec
CONSTANTS
  u1 = u1
  u2 = u2
  s1 = s1
  s2 = s2
  Update = {u1, u2}
  Scope = {s1, s2}
  ScopeOf <- TwoScopes
  Reloaders = {r1}
  Shutdown = Shutdown
  Readers = {d1}
  Identity = {i1, i2}
  NoManager = NoManager
  Config = {k1, k2}
  FirstConfig = k1
  MaxThreads = 1
INVARIANT UsedManagersAreOpen
INVARIANT NoManagerIsLeaked
INVARIANT SwitchIsQuiet
PROPERTY EveryUpdateSettles
PROPERTY EveryFlushReturns
CHECK_DEADLOCK FALSE
