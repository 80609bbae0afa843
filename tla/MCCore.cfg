\* One job, two overlapping calls, every failure a task can meet, and what the
\* clients are told.  Liveness: no symmetry, and no crashes (a restart starts
\* every job's wait anew).
SPECIFICATION FairRSpec
CONSTANTS
  Jobs = {j1}
  Calls = {c1, c2}
  Tasks = {t1, t2}
  MaxBacklog = 2
  Requests = {r1}
  Faults = {"da", "zk", "unhandled", "db"}
  NoJob = NoJob
  Shutdown = Shutdown
  j1 = j1
  c1 = c1
  c2 = c2
  t1 = t1
  t2 = t2
  r1 = r1
INVARIANTS
  TypeOK
  UnracedJobIsSerial
PROPERTIES
  UnracedResultFinal
  ProgressSeen
  QueuedJobResolved
  ShutdownCompletes
  AskingGetsResult
