\* Two jobs, one call at a time, clean shutdowns and restarts.
SPECIFICATION Spec
CONSTANTS
  Jobs = {j1, j2}
  Calls = {c1}
  Tasks = {t1, t2}
  MaxBacklog = 2
  Requests = {r1}
  Faults = {"da", "zk"}
  NoJob = NoJob
  Shutdown = Shutdown
  j1 = j1
  j2 = j2
  c1 = c1
  t1 = t1
  t2 = t2
  r1 = r1
SYMMETRY Symmetry
INVARIANTS
  NoLostJob
  ExitLosesOnlyNewcomers
