\* One client, a failure worth a retry, and a database that fails.
SPECIFICATION RSpec
CONSTANTS
  Jobs = {j1}
  Calls = {c1}
  Tasks = {t1}
  MaxBacklog = 1
  Requests = {r1}
  Faults = {"da", "db"}
  NoJob = NoJob
  Shutdown = Shutdown
  j1 = j1
  c1 = c1
  t1 = t1
  r1 = r1
PROPERTIES
  PermanentIsPermanent
