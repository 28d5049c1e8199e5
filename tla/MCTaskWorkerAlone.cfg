\* One worker of its token; two faults, but no request is served after it was
\* given up.
CONSTANTS
  TaskId = {t1, t2}
  ann = ann
  w1 = w1    w2 = w2
  p = p
  User = {ann}
  Worker = {w1}
  Owner <- Alone
  Project = {p}
  Grants <- OneProject
  NoWorker = NoWorker
  NoReport = NoReport
  NoJob = NoJob
  MaxTime = 4
  Unit = 2
  Once = {}
  Interrupted = {}
  Delays = FALSE
  Lingering = TRUE
  Verbose = {w1}
  MaxFaults = 2
SPECIFICATION LiveSpec
INVARIANT ReportOfRun
PROPERTY CancelledIsTold
PROPERTY EveryTaskIsTaken
PROPERTY EveryRunEnds
PROPERTY CancelStopsAgent
