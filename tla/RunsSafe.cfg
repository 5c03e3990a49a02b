SPECIFICATION Spec
CONSTANTS
  Runs = {r1, r2}
  Threads = {th}
  th = th
  ThreadOf <- OneThread
  Modes = {"cancel", "continue"}
  DispatchedRuns = {r1, r2}
  Clients = {c1}
  NoRun = NoRun
INVARIANT GateExclusion
INVARIANT OneInflight
INVARIANT BusyMeansWork
PROPERTY OutcomeIsFinal
PROPERTY OnlyFaultsAbandon
SYMMETRY RunSymmetry
CHECK_DEADLOCK FALSE
