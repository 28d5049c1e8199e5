\* Two workers of one token, anything can be lost, late or killed once.
CONSTANTS
  TaskId = {t1, t2}
  ann = ann
  w1 = w1    w2 = w2
  p = p
  User = {ann}
  Worker = {w1, w2}
  Owner <- Shared
  Project = {p}
  Grants <- OneProject
  NoWorker = NoWorker
  NoReport = NoReport
  NoJob = NoJob
  MaxTime = 3
  Unit = 2
  Once = {w2}
  Interrupted = {w1}
  Delays = TRUE
  Lingering = FALSE
  Verbose = {w1}
  MaxFaults = 1
SPECIFICATION Spec
SYMMETRY Ids
INVARIANT TypeOK
INVARIANT OneWorkerPerTask
INVARIANT NoOrphanRun
