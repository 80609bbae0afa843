\* One client that asks again while its job is being finished.
SPECIFICATION Spec
CONSTANTS
  Jobs = {j1}
  Calls = {c1}
  Tasks = {t1, t2}
  MaxBacklog = 2
  Requests = {r1}
  Faults = {}
  NoJob = NoJob
  Shutdown = Shutdown
  j1 = j1
  c1 = c1
  t1 = t1
  t2 = t2
  r1 = r1
PROPERTIES
  FinishedProofKept
