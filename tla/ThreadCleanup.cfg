CONSTANTS
  p1 = p1
  p2 = p2
  u1 = u1
  Proc = {p1, p2}
  Thread = {t1}
  Job = {j1, j2}
  NoJob = NoJob
  User = {u1}
  ProcOf <- OneUser
  MaxFaults = 1
SPECIFICATION LiveSpec
INVARIANT OnlyInactiveIsErased
INVARIANT OneEraser
INVARIANT StoppedIsQuiet
 
