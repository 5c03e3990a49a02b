SPECIFICATION LiveSpec
CONSTANTS
  Runs = {r1}
  Threads = {th}
  th = th
  ThreadOf <- OneThread
  Modes = {"cancel", "continue"}
  DispatchedRuns = {r1}
  Clients = {c1, c2}
  NoRun = NoRun
INVARIANT GraceOnlyUnwatched
PROPERTY FinishedIsSuccess
PROPERTY EverySubscriberIsTold
PROPERTY EveryRunIsForgotten
CHECK_DEADLOCK FALSE
