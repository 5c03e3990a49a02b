SPECIFICATION Spec
CONSTANTS
  Procs = {p1}
  NoProc = NoProc
  Tasks = {ta}
  th = th
  ta = ta
  tb = tb
  Threads = {th}
  ThreadOf <- OneThread
  OnceTasks = {}
  BadTasks = {}
  InterruptTasks = {ta}
  DeliveryTasks = {ta}
  MaxOcc = 1
  MaxAttempts = 2
  MaxConcurrent = 2
  MaxCrashes = 0
  MaxStops = 1
  Timely = FALSE
  DbFailures = FALSE
  UserCancels = FALSE
  Pauses = TRUE
INVARIANT SuccessIsReal
INVARIANT PausedTaskIsQuiet
PROPERTY OccurrenceSpec
PROPERTY NoReplayOfEndedRun
