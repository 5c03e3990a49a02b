SPECIFICATION LiveSpec
CONSTANTS
  Procs = {p1}
  NoProc = NoProc
  Tasks = {ta, tb}
  th = th
  ta = ta
  tb = tb
  Threads = {th}
  ThreadOf <- OneThread
  OnceTasks = {ta}
  BadTasks = {tb}
  InterruptTasks = {}
  DeliveryTasks = {ta}
  MaxOcc = 1
  MaxAttempts = 2
  MaxConcurrent = 1
  MaxCrashes = 1
  MaxStops = 1
  Timely = FALSE
  DbFailures = TRUE
  UserCancels = TRUE
  Pauses = FALSE
PROPERTY EveryOccurrenceSettles
