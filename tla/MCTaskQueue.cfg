\* Two tasks, at most MaxTime queueings of them and as many claims.
CONSTANTS
  TaskId = {t1, t2}
  ann = ann  bob = bob
  wa1 = wa1 wa2 = wa2    wb = wb
  p = p      q = q
  User = {ann, bob}
  Worker = {wa1, wa2, wb}
  Owner <- MCOwner
  Project = {p, q}
  Grants <- MCGrants
  NoWorker = NoWorker
  NoReport = NoReport
  MaxTime = 4
  Unit = 2
SPECIFICATION Spec
SYMMETRY Ids
INVARIANT TypeOK
INVARIANT StampsMatchStatus
INVARIANT OnlyAssigneeWorks
PROPERTY NoOvertaking
PROPERTY LifecycleSpec
