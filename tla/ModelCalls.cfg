SPECIFICATION LiveSpec
CONSTANTS
  Async = {a1, a2}
  Sync = {s1}
  Limit = 1
  Threshold = 2
  MaxAttempts = 2
  Nobody = Nobody
  CutOff = CutOff
  LoopsDie = TRUE
INVARIANT PermitsAccounted
INVARIANT ProbeIsOut
PROPERTY EveryWaiterIsServed
CHECK_DEADLOCK FALSE
