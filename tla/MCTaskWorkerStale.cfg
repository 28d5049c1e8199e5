\* Two workers of one token: the beat of a cancelled run.
CONSTANTS
  TaskId = {t1}
  ann = ann
  w1 = w1    w2 = w2
  p = p
  User = {ann}
  Worker = {w1, w2}
  Owner <- Shared
  Project = {p}
  Grants <- OneProject
  NoWorker = NoWorker
  NoReport = NoReport
  NoJob = NoJob
  MaxTime = 4
  Unit = 2
  Once = {}
  Interrupted = {}
  Delays = FALSE
  Lingering = FALSE
  Verbose = {}
  MaxFaults = 0
SPECIFICATION LiveSpec
PROPERTY CancelledIsTold
