SPECIFICATION Spec
CONSTANTS
  Procs = {p1, p2}
  NoProc = NoProc
  Tasks = {ta, tb}
  th = th
  ta = ta
  tb = tb
  Threads = {th}
  ThreadOf <- OneThread
  OnceTasks = {ta}
  BadTasks = {}
  InterruptTasks = {}
  DeliveryTasks = {}
  MaxOcc = 1
  MaxAttempts = 2
  MaxConcurrent = 1
  MaxCrashes = 1
  MaxStops = 0
  Timely = TRUE
  DbFailures = FALSE
  UserCancels = TRUE
  Pauses = FALSE
INVARIANT OneRunPerThread
SYMMETRY ProcSymmetry
