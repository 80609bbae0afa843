\* The refinement of JobBoard, with crashes.
SPECIFICATION Spec
CONSTANTS
  Jobs = {j1}
  Calls = {c1, c2}
  Tasks = {t1, t2}
  MaxBacklog = 2
  Requests = {r1}
  Faults = {"da", "zk", "unhandled", "db", "crash"}
  NoJob = NoJob
  Shutdown = Shutdown
  j1 = j1
  c1 = c1
  c2 = c2
  t1 = t1
  t2 = t2
  r1 = r1
PROPERTIES
  ImplementsBoard
