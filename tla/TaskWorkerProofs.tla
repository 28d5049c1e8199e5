-------------------------- MODULE TaskWorkerProofs --------------------------
(***************************************************************************)
(* Theorems about TaskWorker, for any tasks, users, tokens and workers,    *)
(* with any number of faults, late requests and signals.                   *)
(*                                                                         *)
(* All of it rests on one fact (HeldRuns): a run that a worker holds is    *)
(* the one its row describes, worker column included, or a user has taken  *)
(* it back.  That is inductive with the stamps: a task that is claimed has *)
(* no claim stamp, and a new claim gets one that no earlier run has.       *)
(*                                                                         *)
(* Five theorems: who is on a task, with anything that can go wrong; no    *)
(* task without a worker while nothing does; where no two workers share a  *)
(* user and no request comes late, whose report a task shows and that a    *)
(* cancelled run is not wanted any more; and the types.                    *)
(***************************************************************************)
EXTENDS TaskWorker, TLAPS

Columns == {"project", "assignee", "status", "report", "created", "claimed",
            "heartbeat", "finished", "worker"}

RowOK(row, now) ==
  /\ DOMAIN row = Columns
  /\ row.claimed \in 0 .. now
  /\ row.status = "queued" => row.claimed = 0
  /\ row.status = "running" => row.claimed # 0 /\ row.assignee = Owner[row.worker]

TableOK ==
  /\ clock \in Nat /\ DOMAIN tasks = TaskId
  /\ \A t \in TaskId : Queue!Exists(t) => RowOK(tasks[t], clock)

RunOK(r) == r \in Job /\ r.run \in 1 .. clock /\ Queue!Exists(r.task)

JobsOK == DOMAIN job = Worker /\ \A w \in Worker : job[w] # NoJob => RunOK(job[w])

\* A run that was taken back is not the latest of its task any more.
OldRuns ==
  \A r \in requeued : RunOK(r) /\ (tasks[r.task].claimed = 0 \/ r.run < tasks[r.task].claimed)

HeldRun(w) == tasks[job[w].task].claimed = job[w].run /\ tasks[job[w].task].worker = w

HeldRuns == \A w \in Worker : job[w] # NoJob => job[w] \in requeued \/ HeldRun(w)

RunsInv == TableOK /\ JobsOK /\ OldRuns /\ HeldRuns

----------------------------------------------------------------------------
(***************************************************************************)
(* What the requests do to the table.                                      *)
(***************************************************************************)
\* The row of t has the same run as before, if it has one.
SameRun(t) ==
  /\ Queue!Exists(t)' <=> Queue!Exists(t)
  /\ Queue!Exists(t) =>
    /\ tasks'[t].claimed = tasks[t].claimed /\ tasks'[t].worker = tasks[t].worker
    /\ tasks'[t].status = "running" => tasks[t].status = "running"

\* Every task is in the table if it was, and none has a new run.
SameRuns == TableOK' /\ clock' = clock /\ \A t \in TaskId : SameRun(t)

LEMMA SameTable ==
  ASSUME TableOK, UNCHANGED queue
  PROVE  SameRuns
BY DEF queue, SameRuns, SameRun, TableOK, RowOK, Queue!Exists

LEMMA BeatEffect ==
  ASSUME TableOK, NEW w, NEW x, Queue!HeartbeatTask(w, x)
  PROVE  SameRuns /\ \A t \in TaskId : tasks'[t].status = tasks[t].status
<1>1. clock' = clock /\ DOMAIN tasks' = TaskId
  BY DEF Queue!HeartbeatTask, TableOK
<1>2. \A t \in TaskId : t # x => tasks'[t] = tasks[t]
  BY DEF Queue!HeartbeatTask, TableOK
<1>3. ASSUME x \in TaskId
      PROVE  Queue!Exists(x) /\ tasks'[x] = [tasks[x] EXCEPT !.heartbeat = clock]
  BY <1>3 DEF Queue!HeartbeatTask, Queue!RunningFor, TableOK
<1>4. ASSUME NEW t \in TaskId, Queue!Exists(t)
      PROVE  RowOK(tasks'[t], clock) /\ SameRun(t) /\ tasks'[t].status = tasks[t].status
  BY <1>2, <1>3, <1>4 DEF TableOK, RowOK, Columns, SameRun, Queue!Exists
<1>5. ASSUME NEW t \in TaskId, ~Queue!Exists(t) PROVE tasks'[t] = tasks[t]
  BY <1>2, <1>3, <1>5
<1>6. QED
  BY <1>1, <1>4, <1>5 DEF TableOK, SameRuns, SameRun, Queue!Exists

LEMMA FinishEffect ==
  ASSUME TableOK, NEW w, NEW x, NEW s, NEW r, Queue!FinishTask(w, x, s, r)
  PROVE  SameRuns /\ (x \in TaskId => tasks'[x].status # "running")
<1>1. clock' = clock /\ DOMAIN tasks' = TaskId /\ s \in {"done", "failed"}
  BY DEF Queue!FinishTask, Queue!Outcome, TableOK
<1>2. \A t \in TaskId : t # x => tasks'[t] = tasks[t]
  BY DEF Queue!FinishTask, TableOK
<1>3. ASSUME x \in TaskId
      PROVE  /\ Queue!Exists(x) /\ DOMAIN tasks'[x] = DOMAIN tasks[x]
             /\ tasks'[x].status = s /\ tasks'[x].claimed = tasks[x].claimed
             /\ tasks'[x].worker = tasks[x].worker
  <2>1. Queue!Exists(x) /\ DOMAIN tasks[x] = Columns
    BY <1>3 DEF Queue!FinishTask, Queue!RunningFor, TableOK, RowOK
  <2>2. tasks'[x] = [tasks[x] EXCEPT !.status = s, !.report = [worker |-> w, run |-> r],
                                     !.finished = clock]
    BY <1>3, <2>1 DEF Queue!FinishTask, TableOK, Columns
  <2>3. QED  BY <2>1, <2>2 DEF Columns
<1>4. ASSUME NEW t \in TaskId, Queue!Exists(t)
      PROVE  RowOK(tasks'[t], clock) /\ SameRun(t)
  BY <1>1, <1>2, <1>3, <1>4 DEF TableOK, RowOK, SameRun, Queue!Exists
<1>5. ASSUME NEW t \in TaskId, ~Queue!Exists(t) PROVE tasks'[t] = tasks[t]
  BY <1>2, <1>3, <1>5
<1>6. QED
  BY <1>1, <1>3, <1>4, <1>5 DEF TableOK, SameRuns, SameRun, Queue!Exists

LEMMA CancelEffect ==
  ASSUME TableOK, NEW u, NEW x \in TaskId, Queue!CancelTask(u, x)
  PROVE  SameRuns
<1>1. clock' = clock /\ DOMAIN tasks' = TaskId /\ Queue!Exists(x)
  BY DEF Queue!CancelTask, Queue!Visible, TableOK
<1>2. \A t \in TaskId : t # x => tasks'[t] = tasks[t]
  BY DEF Queue!CancelTask, TableOK
<1>3. DOMAIN tasks[x] = Columns
  BY <1>1 DEF TableOK, RowOK
<1>4. tasks'[x] = [tasks[x] EXCEPT !.status = "cancelled", !.finished = clock]
  BY <1>3 DEF Queue!CancelTask, TableOK, Columns
<1>5. /\ DOMAIN tasks'[x] = Columns /\ tasks'[x].status = "cancelled"
      /\ tasks'[x].claimed = tasks[x].claimed /\ tasks'[x].worker = tasks[x].worker
  BY <1>3, <1>4 DEF Columns
<1>6. \A t \in TaskId : SameRun(t)
  BY <1>1, <1>2, <1>5 DEF SameRun, Queue!Exists
<1>7. ASSUME NEW t \in TaskId, Queue!Exists(t)' PROVE RowOK(tasks'[t], clock)
  BY <1>1, <1>2, <1>5, <1>7 DEF TableOK, RowOK, Queue!Exists
<1>8. QED  BY <1>1, <1>6, <1>7 DEF SameRuns, TableOK

\* A claim gives a task that had no run a new one.
LEMMA ClaimEffect ==
  ASSUME TableOK, NEW w, NEW x \in TaskId, Queue!ClaimTask(w, x)
  PROVE  /\ TableOK' /\ clock' = clock + 1
         /\ Queue!Exists(x) /\ tasks[x].claimed = 0
         /\ Queue!Exists(x)' /\ tasks'[x].claimed = clock + 1 /\ tasks'[x].worker = w
         /\ tasks'[x].status = "running"
         /\ \A t \in TaskId : t # x => tasks'[t] = tasks[t]
<1>1. /\ clock \in Nat /\ clock' = clock + 1 /\ DOMAIN tasks' = TaskId
      /\ Queue!Exists(x) /\ tasks[x].status = "queued" /\ tasks[x].assignee = Owner[w]
  BY DEF Queue!ClaimTask, Queue!FirstFor, Queue!Claimable, TableOK
<1>2. \A t \in TaskId : t # x => tasks'[t] = tasks[t]
  BY DEF Queue!ClaimTask, TableOK
<1>3. DOMAIN tasks[x] = Columns /\ tasks[x].claimed = 0
  BY <1>1 DEF TableOK, RowOK
<1>4. tasks'[x] = [tasks[x] EXCEPT !.status = "running", !.claimed = clock + 1,
                                   !.heartbeat = clock + 1, !.worker = w]
  BY <1>3 DEF Queue!ClaimTask, TableOK, Columns
<1>5. /\ DOMAIN tasks'[x] = Columns /\ tasks'[x].status = "running"
      /\ tasks'[x].claimed = clock + 1 /\ tasks'[x].worker = w
      /\ tasks'[x].assignee = tasks[x].assignee
  BY <1>3, <1>4 DEF Columns
<1>6. ASSUME NEW t \in TaskId, Queue!Exists(t)' PROVE RowOK(tasks'[t], clock + 1)
  BY <1>1, <1>2, <1>5, <1>6 DEF TableOK, RowOK, Queue!Exists
<1>7. TableOK'
  BY <1>1, <1>6 DEF TableOK
<1>8. QED  BY <1>1, <1>2, <1>3, <1>5, <1>7 DEF Queue!Exists

LEMMA CreateEffect ==
  ASSUME TableOK, NEW u, NEW x \in TaskId, NEW p, NEW a, Queue!CreateTask(u, x, p, a)
  PROVE  /\ TableOK' /\ clock' = clock + 1 /\ ~Queue!Exists(x)
         /\ tasks'[x].status = "queued"
         /\ \A t \in TaskId : t # x => tasks'[t] = tasks[t]
<1>1. /\ clock \in Nat /\ clock' = clock + 1 /\ DOMAIN tasks' = TaskId /\ ~Queue!Exists(x)
      /\ tasks'[x] = Queue!NewRow(p, a, clock + 1)
      /\ \A t \in TaskId : t # x => tasks'[t] = tasks[t]
  BY DEF Queue!CreateTask, TableOK
<1>2. DOMAIN tasks'[x] = Columns /\ tasks'[x].status = "queued" /\ tasks'[x].claimed = 0
  BY <1>1 DEF Queue!NewRow, Columns
<1>3. ASSUME NEW t \in TaskId, Queue!Exists(t)' PROVE RowOK(tasks'[t], clock + 1)
  BY <1>1, <1>2, <1>3 DEF TableOK, RowOK, Queue!Exists
<1>4. QED  BY <1>1, <1>2, <1>3 DEF TableOK

LEMMA RequeueEffect ==
  ASSUME TableOK, NEW u, NEW x \in TaskId, Queue!RequeueTask(u, x)
  PROVE  /\ TableOK' /\ clock' = clock + 1
         /\ Queue!Exists(x) /\ Queue!Exists(x)' /\ tasks'[x].claimed = 0
         /\ tasks'[x].status = "queued"
         /\ \A t \in TaskId : t # x => tasks'[t] = tasks[t]
<1>1. /\ clock \in Nat /\ clock' = clock + 1 /\ DOMAIN tasks' = TaskId /\ Queue!Exists(x)
      /\ tasks'[x] = Queue!Requeued(tasks[x])
      /\ \A t \in TaskId : t # x => tasks'[t] = tasks[t]
  BY DEF Queue!RequeueTask, Queue!Visible, TableOK
<1>2. DOMAIN tasks[x] = Columns
  BY <1>1 DEF TableOK, RowOK
<1>3. DOMAIN tasks'[x] = Columns /\ tasks'[x].status = "queued" /\ tasks'[x].claimed = 0
  BY <1>1, <1>2 DEF Queue!Requeued, Columns
<1>4. ASSUME NEW t \in TaskId, Queue!Exists(t)' PROVE RowOK(tasks'[t], clock + 1)
  BY <1>1, <1>3, <1>4 DEF TableOK, RowOK, Queue!Exists
<1>5. QED  BY <1>1, <1>3, <1>4 DEF TableOK, Queue!Exists

----------------------------------------------------------------------------
(***************************************************************************)
(* What a step does to the runs: nothing new, a claim, a new task, or a    *)
(* task that is taken back.                                                *)
(***************************************************************************)
JobsLeft == DOMAIN job' = Worker /\ \A w \in Worker : job'[w] \in {job[w], NoJob}

Quiet == SameRuns /\ JobsLeft /\ requeued' = requeued

HandOut(w, t) ==
  /\ Queue!ClaimTask(w, t) /\ requeued' = requeued /\ DOMAIN job' = Worker
  /\ \A v \in Worker :
       job'[v] = job[v] \/ (v = w /\ job'[v] = [task |-> t, run |-> clock + 1])

\* The same, and w has the run.
Given(w, t) == HandOut(w, t) /\ job'[w] = [task |-> t, run |-> clock + 1]

NewTask(t) ==
  /\ \E u \in User, p \in Project, a \in User : Queue!CreateTask(u, t, p, a)
  /\ UNCHANGED <<job, requeued>>

TakeBack(t) ==
  /\ \E u \in User : Queue!RequeueTask(u, t)
  /\ requeued' = requeued \union CurrentRuns(t) /\ job' = job

LEMMA RunIsJob ==
  ASSUME NEW t \in TaskId, NEW r \in Nat
  PROVE  [task |-> t, run |-> r] \in Job
BY DEF Job

LEMMA QuietKeeps ==
  ASSUME RunsInv, Quiet
  PROVE  RunsInv'
<1>1. TableOK' /\ JobsLeft /\ clock' = clock /\ requeued' = requeued
  BY DEF Quiet, SameRuns
<1>2. ASSUME NEW r, RunOK(r)
      PROVE  RunOK(r)' /\ tasks'[r.task].claimed = tasks[r.task].claimed
                       /\ tasks'[r.task].worker = tasks[r.task].worker
  BY <1>1, <1>2 DEF Quiet, SameRuns, SameRun, RunOK, Job
<1>3. JobsOK'
  BY <1>1, <1>2 DEF RunsInv, JobsOK, JobsLeft
<1>4. OldRuns'
  BY <1>1, <1>2 DEF RunsInv, OldRuns
<1>5. HeldRuns'
  BY <1>1, <1>2 DEF RunsInv, JobsOK, JobsLeft, HeldRuns, HeldRun
<1>6. QED  BY <1>1, <1>3, <1>4, <1>5 DEF RunsInv

LEMMA HandOutKeeps ==
  ASSUME RunsInv, NEW w, NEW t \in TaskId, HandOut(w, t)
  PROVE  RunsInv'
<1>1. /\ TableOK' /\ clock \in Nat /\ clock' = clock + 1 /\ requeued' = requeued
      /\ Queue!Exists(t) /\ tasks[t].claimed = 0
      /\ Queue!Exists(t)' /\ tasks'[t].claimed = clock + 1 /\ tasks'[t].worker = w
      /\ \A s \in TaskId : s # t => tasks'[s] = tasks[s]
  BY ClaimEffect DEF RunsInv, TableOK, HandOut
<1>2. ASSUME NEW r, RunOK(r) PROVE RunOK(r)' /\ r.task \in TaskId /\ r.run \in 1 .. clock
  BY <1>1, <1>2 DEF RunOK, Job, Queue!Exists
<1>0. PICK new : new = [task |-> t, run |-> clock + 1]
  OBVIOUS
<1>3. new \in Job /\ new.task = t /\ new.run = clock + 1
  BY <1>0, <1>1, RunIsJob
<1>4. new # NoJob /\ RunOK(new)'
  BY <1>1, <1>3, NoJobAssumption DEF RunOK
<1>5. \A v \in Worker : job'[v] = job[v] \/ (v = w /\ job'[v] = new)
  BY <1>0 DEF HandOut
<1>6. JobsOK'
  BY <1>2, <1>4, <1>5 DEF RunsInv, JobsOK, HandOut
<1>7. OldRuns'
  BY <1>1, <1>2 DEF RunsInv, OldRuns
<1>8. ASSUME NEW v \in Worker, job'[v] # NoJob PROVE job'[v] \in requeued \/ HeldRun(v)'
  <2>1. CASE v = w /\ job'[v] = new
    BY <1>1, <1>3, <2>1 DEF HeldRun
  <2>2. CASE job'[v] = job[v]
    <3>1. RunOK(job[v]) /\ (job[v] \in requeued \/ HeldRun(v))
      BY <1>8, <2>2 DEF RunsInv, JobsOK, HeldRuns
    <3>2. QED  BY <1>1, <1>2, <2>2, <3>1 DEF HeldRun
  <2>3. QED  BY <1>5, <2>1, <2>2
<1>9. QED  BY <1>1, <1>6, <1>7, <1>8 DEF RunsInv, HeldRuns

LEMMA NewTaskKeeps ==
  ASSUME RunsInv, NEW t \in TaskId, NewTask(t)
  PROVE  RunsInv'
<1>1. /\ TableOK' /\ clock \in Nat /\ clock' = clock + 1 /\ UNCHANGED <<job, requeued>>
      /\ ~Queue!Exists(t)
      /\ \A s \in TaskId : s # t => tasks'[s] = tasks[s]
  BY CreateEffect DEF RunsInv, TableOK, NewTask
<1>2. ASSUME NEW r, RunOK(r) PROVE RunOK(r)' /\ tasks'[r.task] = tasks[r.task]
  BY <1>1, <1>2 DEF RunOK, Job, Queue!Exists
<1>3. QED
  BY <1>1, <1>2 DEF RunsInv, JobsOK, OldRuns, HeldRuns, HeldRun

LEMMA TakeBackKeeps ==
  ASSUME RunsInv, NEW t \in TaskId, TakeBack(t)
  PROVE  RunsInv'
<1>1. /\ TableOK' /\ clock \in Nat /\ clock' = clock + 1 /\ job' = job
      /\ requeued' = requeued \union CurrentRuns(t)
      /\ Queue!Exists(t) /\ Queue!Exists(t)' /\ tasks'[t].claimed = 0
      /\ \A s \in TaskId : s # t => tasks'[s] = tasks[s]
  BY RequeueEffect DEF RunsInv, TableOK, TakeBack
<1>2. ASSUME NEW r, RunOK(r)
      PROVE  /\ RunOK(r)' /\ r.task \in TaskId /\ r.run \in 1 .. clock
             /\ r = [task |-> r.task, run |-> r.run]
  BY <1>1, <1>2 DEF RunOK, Job, Queue!Exists
<1>3. JobsOK'
  BY <1>1, <1>2 DEF RunsInv, JobsOK
<1>4. tasks[t].claimed \in 0 .. clock
  BY <1>1 DEF RunsInv, TableOK, RowOK
<1>5. OldRuns'
  <2>1. ASSUME NEW r \in requeued
        PROVE  RunOK(r)' /\ (tasks'[r.task].claimed = 0 \/ r.run < tasks'[r.task].claimed)
    BY <1>1, <1>2 DEF RunsInv, OldRuns
  <2>2. ASSUME NEW r \in CurrentRuns(t)
        PROVE  RunOK(r)' /\ tasks'[r.task].claimed = 0
    <3>1. tasks[t].claimed # 0 /\ r = [task |-> t, run |-> tasks[t].claimed]
      BY <2>2 DEF CurrentRuns, CurrentRun
    <3>2. r \in Job /\ r.task = t /\ r.run \in 1 .. clock
      BY <1>1, <1>4, <3>1 DEF Job
    <3>3. QED  BY <1>1, <3>2 DEF RunOK
  <2>3. QED  BY <1>1, <2>1, <2>2 DEF OldRuns
<1>6. ASSUME NEW w \in Worker, job[w] # NoJob PROVE job[w] \in requeued' \/ HeldRun(w)'
  <2>1. RunOK(job[w]) /\ (job[w] \in requeued \/ HeldRun(w))
    BY <1>6 DEF RunsInv, JobsOK, HeldRuns
  <2>2. CASE job[w].task = t /\ HeldRun(w)
    <3>1. job[w] = CurrentRun(t) /\ tasks[t].claimed # 0
      BY <1>1, <1>2, <2>1, <2>2 DEF HeldRun, CurrentRun
    <3>2. QED  BY <1>1, <3>1 DEF CurrentRuns
  <2>3. CASE job[w].task # t /\ HeldRun(w)
    BY <1>1, <1>2, <2>1, <2>3 DEF HeldRun
  <2>4. QED  BY <1>1, <2>1, <2>2, <2>3
<1>7. QED  BY <1>1, <1>3, <1>5, <1>6 DEF RunsInv, HeldRuns

----------------------------------------------------------------------------
\* A worker that gives up what it has, has nothing; the others are as before.
LEMMA RestingJobs ==
  ASSUME JobsOK, NEW w \in Worker, NEW ends, Resting(w, ends)
  PROVE  JobsLeft
BY DEF Resting, JobsOK, JobsLeft

LEMMA LoopRuns ==
  ASSUME RunsInv, NEW w \in Worker, Claiming(w) \/ Reporting(w)
  PROVE  Quiet \/ (pc[w] = "claim" /\ call[w] = "asked" /\ \E t \in TaskId : Given(w, t))
<1>1. TableOK /\ JobsOK
  BY DEF RunsInv
<1>2. ASSUME UNCHANGED <<queue, job, requeued>> PROVE Quiet
  BY <1>1, <1>2, SameTable DEF Quiet, JobsLeft, JobsOK
<1>3. ASSUME UNCHANGED <<queue, history>>, NEW ends, Resting(w, ends) PROVE Quiet
  BY <1>1, <1>3, SameTable, RestingJobs DEF Quiet, history
<1>4. CASE SendClaim(w) \/ KillAgent(w) \/ SendReport(w)
  BY <1>2, <1>4 DEF SendClaim, KillAgent, SendReport, history
<1>5. CASE ServeClaim(w)
  <2>1. CASE Queue!ClaimNothing(w) /\ UNCHANGED job
    BY <1>2, <1>5, <2>1 DEF ServeClaim, Queue!ClaimNothing, Queue!vars, queue, history
  <2>2. ASSUME NEW t \in TaskId, Queue!ClaimTask(w, t),
               job' = [job EXCEPT ![w] = [task |-> t, run |-> clock + 1]]
        PROVE  Given(w, t)
    BY <1>1, <1>5, <2>2 DEF ServeClaim, Given, HandOut, JobsOK, history
  <2>3. QED  BY <1>5, <2>1, <2>2 DEF ServeClaim
<1>6. CASE GetClaim(w)
  BY <1>2, <1>3, <1>6 DEF GetClaim, history
<1>7. CASE ServeReport(w)
  <2>1. CASE Queue!FinishTask(w, job[w].task, work[w], job[w].run)
    BY <1>1, <1>7, <2>1, FinishEffect DEF ServeReport, Quiet, JobsLeft, JobsOK, process
  <2>2. CASE UNCHANGED queue
    BY <1>2, <1>7, <2>2 DEF ServeReport, process
  <2>3. QED  BY <1>7, <2>1, <2>2 DEF ServeReport, TooLong
<1>8. CASE GetReportReply(w)
  BY <1>3, <1>8 DEF GetReportReply
<1>9. QED  BY <1>4, <1>5, <1>6, <1>7, <1>8 DEF Claiming, Reporting

LEMMA OtherRuns ==
  ASSUME RunsInv, NEW w \in Worker,
         \/ Beating(w) \/ Failing(w) \/ Deadline(w) \/ AgentExits(w) \/ ChildrenEnd(w)
         \/ Signal(w) \/ Start(w)
  PROVE  Quiet
<1>1. TableOK /\ JobsOK
  BY DEF RunsInv
<1>2. ASSUME UNCHANGED <<queue, job, history>> PROVE Quiet
  BY <1>1, <1>2, SameTable DEF Quiet, JobsLeft, JobsOK, history
<1>3. ASSUME UNCHANGED <<queue, history>>, NEW ends, Resting(w, ends) PROVE Quiet
  BY <1>1, <1>3, SameTable, RestingJobs DEF Quiet, history
<1>4. CASE SendBeat(w) \/ GetBeat(w) \/ LoseBeat(w)
  BY <1>2, <1>4 DEF SendBeat, GetBeat, LoseBeat, process
<1>5. CASE Deadline(w) \/ AgentExits(w) \/ ChildrenEnd(w) \/ Start(w)
  BY <1>2, <1>5 DEF Deadline, AgentExits, ChildrenEnd, Start
<1>6. CASE ServeBeat(w)
  <2>1. CASE Queue!HeartbeatTask(w, job[w].task)
    BY <1>1, <1>6, <2>1, BeatEffect DEF ServeBeat, Quiet, JobsLeft, JobsOK, process, history
  <2>2. CASE UNCHANGED queue
    BY <1>2, <1>6, <2>2 DEF ServeBeat, process
  <2>3. QED  BY <1>6, <2>1, <2>2 DEF ServeBeat
<1>7. CASE Signal(w)
  BY <1>2, <1>3, <1>7 DEF Signal
<1>8. CASE LoseClaim(w) \/ LoseReport(w) \/ Crash(w)
  BY <1>3, <1>8 DEF LoseClaim, LoseReport, Crash
<1>9. QED  BY <1>4, <1>5, <1>6, <1>7, <1>8 DEF Beating, Failing

LEMMA LateRuns ==
  ASSUME RunsInv, NEW r \in late, ServeLate(r)
  PROVE  Quiet \/ \E w, t : t \in TaskId /\ HandOut(w, t)
<1>1. TableOK /\ JobsOK /\ UNCHANGED <<job, requeued>>
  BY DEF RunsInv, ServeLate, process
<1>2. JobsLeft /\ DOMAIN job' = Worker
  BY <1>1 DEF JobsLeft, JobsOK
<1>3. CASE \E t \in TaskId : Queue!ClaimTask(r.worker, t)
  <2>1. PICK t \in TaskId : Queue!ClaimTask(r.worker, t)
    BY <1>3
  <2>2. HandOut(r.worker, t)
    BY <1>1, <1>2, <2>1 DEF HandOut
  <2>3. QED  BY <2>2
<1>4. CASE Queue!ClaimNothing(r.worker) \/ UNCHANGED queue
  BY <1>1, <1>2, <1>4, SameTable DEF Quiet, Queue!ClaimNothing, Queue!vars, queue
<1>5. CASE Queue!HeartbeatTask(r.worker, r.job.task)
  BY <1>1, <1>2, <1>5, BeatEffect DEF Quiet
<1>6. CASE Queue!FinishTask(r.worker, r.job.task, r.status, r.job.run)
  BY <1>1, <1>2, <1>6, FinishEffect DEF Quiet
<1>7. QED  BY <1>3, <1>4, <1>5, <1>6 DEF ServeLate, TooLong

LEMMA DeskRuns ==
  ASSUME RunsInv, NEW u \in User, Desk(u)
  PROVE  Quiet \/ \E t \in TaskId : NewTask(t) \/ TakeBack(t)
<1>1. TableOK /\ JobsOK /\ job' = job
  BY DEF RunsInv, Desk, process
<1>2. PICK t \in TaskId :
        \/ (\E p \in Project, a \in User : Queue!CreateTask(u, t, p, a)) /\ UNCHANGED history
        \/ Queue!CancelTask(u, t) /\ UNCHANGED requeued
        \/ Queue!RequeueTask(u, t) /\ requeued' = requeued \union CurrentRuns(t)
  BY DEF Desk
<1>3. CASE (\E p \in Project, a \in User : Queue!CreateTask(u, t, p, a)) /\ UNCHANGED history
  BY <1>1, <1>3 DEF NewTask, history
<1>4. CASE Queue!CancelTask(u, t) /\ UNCHANGED requeued
  BY <1>1, <1>4, CancelEffect DEF Quiet, JobsLeft, JobsOK
<1>5. CASE Queue!RequeueTask(u, t) /\ requeued' = requeued \union CurrentRuns(t)
  BY <1>1, <1>5 DEF TakeBack
<1>6. QED  BY <1>2, <1>3, <1>4, <1>5

Outcomes == \/ Quiet
            \/ \E w, t : t \in TaskId /\ HandOut(w, t)
            \/ \E t \in TaskId : NewTask(t) \/ TakeBack(t)

LEMMA StepOutcome ==
  ASSUME RunsInv, [Next]_vars
  PROVE  Outcomes
<1>1. ASSUME NEW u \in User, Desk(u) PROVE Outcomes
  BY <1>1, DeskRuns DEF Outcomes
<1>2. ASSUME NEW w \in Worker, Claiming(w) \/ Reporting(w) PROVE Outcomes
  BY <1>2, LoopRuns DEF Outcomes, Given
<1>3. ASSUME NEW w \in Worker,
             \/ Beating(w) \/ Failing(w) \/ Deadline(w) \/ AgentExits(w) \/ ChildrenEnd(w)
             \/ Signal(w) \/ Start(w)
      PROVE  Outcomes
  BY <1>3, OtherRuns DEF Outcomes
<1>4. ASSUME NEW r \in late, ServeLate(r) PROVE Outcomes
  BY <1>4, LateRuns DEF Outcomes
<1>5. CASE UNCHANGED vars
  <2>1. UNCHANGED <<queue, job, requeued>>
    BY <1>5 DEF vars, queue
  <2>2. QED  BY <2>1, SameTable DEF RunsInv, JobsOK, Quiet, JobsLeft, Outcomes
<1>6. QED  BY <1>1, <1>2, <1>3, <1>4, <1>5 DEF Next

LEMMA RunsInvariant == Spec => []RunsInv
<1>1. Init => RunsInv
  BY DEF Init, Queue!Init, Queue!Absent, Queue!Exists, RunsInv, TableOK, JobsOK, OldRuns, HeldRuns
<1>2. RunsInv /\ [Next]_vars => RunsInv'
  BY StepOutcome, QuietKeeps, HandOutKeeps, NewTaskKeeps, TakeBackKeeps DEF Outcomes
<1>3. QED  BY <1>1, <1>2, PTL DEF Spec

\* Two workers are on one task only after a user took the older run back, with
\* any number of lost, late and repeated calls, crashes and signals.
THEOREM OneWorkerPerTaskCorrect == Spec => []OneWorkerPerTask
<1>1. RunsInv => OneWorkerPerTask
  <2>1. SUFFICES ASSUME RunsInv, NEW w \in Worker, job[w] # NoJob
        PROVE  /\ job[w] = CurrentRun(job[w].task) => tasks[job[w].task].worker = w
               /\ \A v \in Worker \ {w} :
                    job[v] # NoJob /\ job[v].task = job[w].task /\ job[w].run <= job[v].run
                    => job[w] \in requeued
    BY DEF OneWorkerPerTask
  <2>2. \A v \in Worker : job[v] # NoJob =>
          /\ job[v].run \in 1 .. clock
          /\ \/ job[v] \in requeued /\ (\/ tasks[job[v].task].claimed = 0
                                        \/ job[v].run < tasks[job[v].task].claimed)
             \/ HeldRun(v)
    BY <2>1 DEF RunsInv, JobsOK, RunOK, HeldRuns, OldRuns
  <2>3. clock \in Nat
    BY <2>1 DEF RunsInv, TableOK
  <2>4. ASSUME job[w] = CurrentRun(job[w].task) PROVE HeldRun(w)
    <3>1. job[w].run = tasks[job[w].task].claimed
      BY <2>4 DEF CurrentRun
    <3>2. QED  BY <2>1, <2>2, <2>3, <3>1
  <2>5. ASSUME NEW v \in Worker \ {w}, job[v] # NoJob, job[v].task = job[w].task,
               job[w].run <= job[v].run, job[w] \notin requeued
        PROVE  FALSE
    <3>1. tasks[job[w].task].claimed = job[w].run /\ tasks[job[w].task].worker = w
      BY <2>1, <2>2, <2>5 DEF HeldRun
    <3>2. ~HeldRun(v)
      BY <2>5, <3>1 DEF HeldRun
    <3>3. \/ tasks[job[v].task].claimed = 0
          \/ job[v].run < tasks[job[v].task].claimed
      BY <2>2, <2>5, <3>2
    <3>4. job[w].run \in 1 .. clock /\ job[v].run \in 1 .. clock
      BY <2>1, <2>2, <2>5
    <3>5. QED  BY <2>3, <2>5, <3>1, <3>3, <3>4
  <2>6. QED  BY <2>4, <2>5 DEF HeldRun
<1>2. QED  BY <1>1, RunsInvariant, PTL
----------------------------------------------------------------------------
(***************************************************************************)
(* Where a worker is in its loop, and what it has there.                   *)
(***************************************************************************)
\* The task of r is running, and in that run.
Going(r) == tasks[r.task].claimed = r.run /\ tasks[r.task].status = "running"

Current(w) == Going(job[w])

\* Nothing to do, no run; a run to work on; a report that has been answered.
IdleOK(w)   == pc[w] \in {"off", "poll"} \/ (pc[w] = "claim" /\ call[w] = "asked")
                 => job[w] = NoJob
BusyOK(w)   == pc[w] \in {"run", "report"} => job[w] # NoJob
ServedOK(w) == pc[w] = "report" /\ call[w] = "answered" => ~Current(w) \/ job[w] \in refused

PlaceOK(w) == IdleOK(w) /\ BusyOK(w) /\ ServedOK(w)

LoopInv == /\ DOMAIN pc = Worker /\ DOMAIN call = Worker /\ faults \in Nat
           /\ \A w \in Worker : PlaceOK(w)

\* The runs whose report was refused stay so.
LEMMA RefusedGrows ==
  ASSUME [Next]_vars
  PROVE  refused \subseteq refused'
<1>1. ASSUME NEW w \in Worker, Claiming(w) \/ Beating(w) \/ Reporting(w)
      PROVE  refused \subseteq refused'
  BY <1>1 DEF Claiming, SendClaim, ServeClaim, GetClaim, Beating, SendBeat, ServeBeat, GetBeat,
              Reporting, KillAgent, SendReport, ServeReport, TooLong, GetReportReply, history
<1>2. ASSUME NEW w \in Worker,
             \/ Failing(w) \/ Deadline(w) \/ AgentExits(w) \/ ChildrenEnd(w)
             \/ Signal(w) \/ Start(w)
      PROVE  refused' = refused
  BY <1>2 DEF Failing, LoseClaim, LoseBeat, LoseReport, Crash, Deadline, AgentExits,
              ChildrenEnd, Signal, Start, history
<1>3. CASE UNCHANGED vars \/ (\E u \in User : Desk(u)) \/ \E r \in late : ServeLate(r)
  BY <1>3 DEF vars, Desk, ServeLate, TooLong, history
<1>4. QED  BY <1>1, <1>2, <1>3 DEF Next

\* A run stays known, and once it is over no step makes its task run in it.
LEMMA GoingStays ==
  ASSUME RunsInv, Outcomes, NEW r, RunOK(r)
  PROVE  RunOK(r)' /\ (Going(r)' => Going(r))
<1>1. r.task \in TaskId /\ r.run \in 1 .. clock /\ clock \in Nat /\ Queue!Exists(r.task)
  BY DEF RunsInv, RunOK, Job, TableOK
<1>2. CASE Quiet
  BY <1>1, <1>2 DEF Quiet, SameRuns, SameRun, RunOK, Going
<1>3. ASSUME NEW w, NEW t \in TaskId, HandOut(w, t) PROVE RunOK(r)' /\ (Going(r)' => Going(r))
  <2>1. /\ Queue!Exists(t)' /\ clock' = clock + 1 /\ tasks'[t].claimed = clock + 1
        /\ \A s \in TaskId : s # t => tasks'[s] = tasks[s]
    BY <1>3, ClaimEffect DEF HandOut, RunsInv
  <2>2. QED  BY <1>1, <2>1 DEF RunOK, Going, Queue!Exists
<1>4. ASSUME NEW t \in TaskId, NewTask(t) \/ TakeBack(t)
      PROVE  RunOK(r)' /\ (Going(r)' => Going(r))
  <2>1. /\ clock' = clock + 1 /\ tasks'[t].status = "queued"
        /\ \A s \in TaskId : s # t => tasks'[s] = tasks[s]
    BY <1>4, CreateEffect, RequeueEffect DEF NewTask, TakeBack, RunsInv
  <2>2. QED  BY <1>1, <2>1 DEF RunOK, Going, Queue!Exists
<1>5. QED  BY <1>2, <1>3, <1>4 DEF Outcomes

LEMMA CurrentStays ==
  ASSUME RunsInv, Outcomes, NEW v \in Worker, job'[v] = job[v], job[v] # NoJob, Current(v)'
  PROVE  Current(v)
<1>1. RunOK(job[v])
  BY DEF RunsInv, JobsOK
<1>2. PICK r : r = job[v]
  OBVIOUS
<1>3. QED  BY <1>1, <1>2, GoingStays DEF Current, Going

\* A report that is answered is stored or too long, or the run was not going on
\* any more.
LEMMA ReportEnds ==
  ASSUME RunsInv, NEW w \in Worker, job[w] # NoJob, ServeReport(w)
  PROVE  ~Current(w)' \/ job'[w] \in refused'
<1>1. /\ RunOK(job[w]) /\ job[w].task \in TaskId /\ job[w].run \in 1 .. clock /\ clock \in Nat
      /\ job' = job /\ TableOK
  BY DEF RunsInv, JobsOK, RunOK, Job, TableOK, ServeReport, process
<1>2. CASE Queue!FinishTask(w, job[w].task, work[w], job[w].run)
  BY <1>1, <1>2, FinishEffect DEF Current, Going
<1>3. CASE ~Queue!RunningFor(Owner[w], job[w].task) /\ UNCHANGED queue
  <2>1. SUFFICES ASSUME Current(w) PROVE FALSE
    BY <1>1, <1>3 DEF Current, Going, queue
  <2>2. job[w] \notin requeued
    BY <1>1, <2>1 DEF RunsInv, OldRuns, Current, Going
  <2>3. HeldRun(w) /\ RowOK(tasks[job[w].task], clock)
    BY <1>1, <2>2 DEF RunsInv, HeldRuns, TableOK, RunOK
  <2>4. QED  BY <1>1, <1>3, <2>1, <2>3 DEF HeldRun, RowOK, Current, Going, RunOK, Queue!RunningFor
<1>4. CASE TooLong(w, job[w])
  BY <1>1, <1>4 DEF TooLong
<1>5. QED  BY <1>2, <1>3, <1>4 DEF ServeReport

\* The other workers stay where they are.
SameFor(v) == pc'[v] = pc[v] /\ call'[v] = call[v] /\ job'[v] = job[v]

LEMMA PlaceStays ==
  ASSUME RunsInv, Outcomes, refused \subseteq refused', NEW v \in Worker, PlaceOK(v), SameFor(v)
  PROVE  PlaceOK(v)'
<1>1. IdleOK(v)' /\ BusyOK(v)'
  BY DEF PlaceOK, IdleOK, BusyOK, SameFor
<1>2. ServedOK(v)'
  BY CurrentStays DEF PlaceOK, BusyOK, ServedOK, SameFor
<1>3. QED  BY <1>1, <1>2 DEF PlaceOK

Domains == DOMAIN pc' = Worker /\ DOMAIN call' = Worker /\ faults' \in {faults, faults + 1}

OnlyMoves(w) == Domains /\ \A v \in Worker \ {w} : SameFor(v)

LEMMA RestingPlace ==
  ASSUME RunsInv, LoopInv, NEW w \in Worker, NEW ends, Resting(w, ends)
  PROVE  /\ DOMAIN pc' = Worker /\ DOMAIN call' = Worker /\ \A v \in Worker \ {w} : SameFor(v)
         /\ PlaceOK(w)'
BY DEF Resting, RunsInv, JobsOK, LoopInv, SameFor, PlaceOK, IdleOK, BusyOK, ServedOK

\* A step of w's own: the others stay where they are, and w fits its new place.
LEMMA LoopPlace ==
  ASSUME RunsInv, LoopInv, NEW w \in Worker, Claiming(w) \/ Reporting(w)
  PROVE  OnlyMoves(w) /\ PlaceOK(w)'
<1>1. DOMAIN pc = Worker /\ DOMAIN call = Worker /\ DOMAIN job = Worker /\ PlaceOK(w)
  BY DEF RunsInv, JobsOK, LoopInv
<1>2. Outcomes
  BY LoopRuns DEF Outcomes, Given
<1>3. ASSUME UNCHANGED faults, NEW ends, Resting(w, ends) PROVE OnlyMoves(w) /\ PlaceOK(w)'
  BY <1>3, RestingPlace DEF OnlyMoves, Domains
<1>4. CASE SendClaim(w)
  BY <1>1, <1>4 DEF SendClaim, OnlyMoves, Domains, SameFor, PlaceOK, IdleOK, BusyOK, ServedOK
<1>5. CASE ServeClaim(w)
  BY <1>1, <1>5 DEF ServeClaim, OnlyMoves, Domains, SameFor, PlaceOK, IdleOK, BusyOK, ServedOK
<1>6. CASE GetClaim(w)
  <2>1. CASE job[w] = NoJob
    BY <1>3, <1>6, <2>1 DEF GetClaim
  <2>2. CASE job[w] # NoJob
    BY <1>1, <1>6, <2>2
       DEF GetClaim, OnlyMoves, Domains, SameFor, PlaceOK, IdleOK, BusyOK, ServedOK
  <2>3. QED  BY <2>1, <2>2
<1>7. CASE KillAgent(w)
  <2>1. SameFor(w) /\ OnlyMoves(w)
    BY <1>1, <1>7 DEF KillAgent, wire, OnlyMoves, Domains, SameFor
  <2>2. refused' = refused
    BY <1>7 DEF KillAgent, history
  <2>3. QED  BY <1>1, <1>2, <2>1, <2>2, PlaceStays
<1>8. CASE SendReport(w)
  BY <1>1, <1>8
     DEF SendReport, Fault, OnlyMoves, Domains, SameFor, PlaceOK, IdleOK, BusyOK, ServedOK
<1>9. CASE ServeReport(w)
  <2>1. pc' = pc /\ job' = job /\ pc[w] = "report" /\ OnlyMoves(w)
    BY <1>1, <1>9 DEF ServeReport, process, OnlyMoves, Domains, SameFor
  <2>2. job[w] # NoJob
    BY <1>1, <2>1 DEF PlaceOK, BusyOK
  <2>3. QED  BY <1>9, <2>1, <2>2, ReportEnds DEF PlaceOK, IdleOK, BusyOK, ServedOK
<1>10. CASE GetReportReply(w)
  BY <1>3, <1>10 DEF GetReportReply
<1>11. QED
  BY <1>4, <1>5, <1>6, <1>7, <1>8, <1>9, <1>10 DEF Claiming, Reporting

LEMMA OtherPlace ==
  ASSUME RunsInv, LoopInv, NEW w \in Worker,
         \/ Beating(w) \/ Failing(w) \/ Deadline(w) \/ AgentExits(w) \/ ChildrenEnd(w)
         \/ Signal(w) \/ Start(w)
  PROVE  OnlyMoves(w) /\ PlaceOK(w)'
<1>1. DOMAIN pc = Worker /\ DOMAIN call = Worker /\ DOMAIN job = Worker /\ PlaceOK(w)
  BY DEF RunsInv, JobsOK, LoopInv
<1>2. Outcomes
  BY OtherRuns DEF Outcomes
<1>3. ASSUME faults' \in {faults, faults + 1}, NEW ends, Resting(w, ends)
      PROVE  OnlyMoves(w) /\ PlaceOK(w)'
  BY <1>3, RestingPlace DEF OnlyMoves, Domains
<1>4. ASSUME UNCHANGED <<pc, job, call, history>>, faults' \in {faults, faults + 1}
      PROVE  OnlyMoves(w) /\ PlaceOK(w)'
  <2>1. SameFor(w) /\ OnlyMoves(w)
    BY <1>1, <1>4 DEF OnlyMoves, Domains, SameFor
  <2>2. refused' = refused
    BY <1>4 DEF history
  <2>3. QED  BY <1>1, <1>2, <2>1, <2>2, PlaceStays
<1>5. CASE Beating(w) \/ LoseBeat(w)
  BY <1>4, <1>5 DEF Beating, SendBeat, ServeBeat, GetBeat, LoseBeat, GiveUp, Fault, process
<1>6. CASE Deadline(w) \/ AgentExits(w) \/ ChildrenEnd(w)
  BY <1>4, <1>6 DEF Deadline, AgentExits, ChildrenEnd, wire
<1>7. CASE LoseClaim(w) \/ LoseReport(w) \/ Crash(w)
  BY <1>3, <1>7 DEF LoseClaim, LoseReport, Crash, GiveUp, Fault
<1>8. CASE Signal(w)
  BY <1>3, <1>4, <1>8 DEF Signal, GiveUp, Fault
<1>9. CASE Start(w)
  BY <1>1, <1>9 DEF Start, wire, OnlyMoves, Domains, SameFor, PlaceOK, IdleOK, BusyOK, ServedOK
<1>10. QED  BY <1>5, <1>6, <1>7, <1>8, <1>9 DEF Failing

LEMMA LoopStep ==
  ASSUME RunsInv, LoopInv, [Next]_vars
  PROVE  LoopInv'
<1>1. Outcomes /\ refused \subseteq refused' /\ faults \in Nat /\ \A v \in Worker : PlaceOK(v)
  BY StepOutcome, RefusedGrows DEF LoopInv
<1>2. ASSUME NEW w \in Worker, OnlyMoves(w), PlaceOK(w)' PROVE LoopInv'
  <2>1. \A v \in Worker \ {w} : PlaceOK(v)'
    BY <1>1, <1>2, PlaceStays DEF OnlyMoves
  <2>2. QED  BY <1>1, <1>2, <2>1 DEF OnlyMoves, Domains, LoopInv
<1>3. ASSUME UNCHANGED <<process, wire>> PROVE LoopInv'
  <2>1. \A v \in Worker : SameFor(v)
    BY <1>3 DEF process, wire, SameFor
  <2>2. \A v \in Worker : PlaceOK(v)'
    BY <1>1, <2>1, PlaceStays
  <2>3. QED  BY <1>3, <2>2 DEF LoopInv, process, wire
<1>4. ASSUME NEW r \in late, ServeLate(r) PROVE LoopInv'
  <2>1. UNCHANGED <<process, call, faults>>
    BY <1>4 DEF ServeLate
  <2>2. \A v \in Worker : SameFor(v)
    BY <2>1 DEF process, SameFor
  <2>3. \A v \in Worker : PlaceOK(v)'
    BY <1>1, <2>2, PlaceStays
  <2>4. QED  BY <2>1, <2>3 DEF LoopInv, process
<1>5. ASSUME NEW u \in User, Desk(u) PROVE LoopInv'
  BY <1>3, <1>5 DEF Desk
<1>6. CASE UNCHANGED vars
  BY <1>3, <1>6 DEF vars, process, wire
<1>7. QED
  BY <1>2, <1>4, <1>5, <1>6, LoopPlace, OtherPlace DEF Next

LEMMA LoopInvariant == Spec => []LoopInv
<1>1. Init => LoopInv
  BY DEF Init, LoopInv, PlaceOK, IdleOK, BusyOK, ServedOK
<1>2. RunsInv /\ LoopInv /\ [Next]_vars => LoopInv'
  BY LoopStep
<1>3. QED  BY <1>1, <1>2, RunsInvariant, PTL DEF Spec

----------------------------------------------------------------------------
(***************************************************************************)
(* No running task without a worker: without a fault there is no late      *)
(* request, and a worker drops a run only when its report is answered.     *)
(***************************************************************************)
\* v keeps its run, or has none, or its task is not running in it, or its report
\* was refused for its length.
MayDrop(v) == job'[v] = job[v] \/ job[v] = NoJob \/ ~Current(v) \/ job[v] \in refused

NoneDropped == /\ Quiet \/ \E t \in TaskId : NewTask(t) \/ TakeBack(t)
               /\ \A v \in Worker : MayDrop(v)

\* A worker that has nothing gets a task.
Handed == \E w \in Worker, t \in TaskId : Given(w, t) /\ job[w] = NoJob

LEMMA FaultsGrow ==
  ASSUME RunsInv, LoopInv, [Next]_vars
  PROVE  faults' \in {faults, faults + 1} /\ faults \in Nat
<1>1. CASE UNCHANGED vars \/ \E u \in User : Desk(u)
  BY <1>1 DEF vars, Desk, wire, LoopInv
<1>2. CASE \E r \in late : ServeLate(r)
  BY <1>2 DEF ServeLate, LoopInv
<1>3. ASSUME NEW w \in Worker, OnlyMoves(w) PROVE faults' \in {faults, faults + 1}
  BY <1>3 DEF OnlyMoves, Domains
<1>4. QED  BY <1>1, <1>2, <1>3, LoopPlace, OtherPlace DEF Next, LoopInv

LEMMA LoopDrop ==
  ASSUME RunsInv, LoopInv, NEW w \in Worker, Claiming(w) \/ Reporting(w)
  PROVE  MayDrop(w)
<1>1. PlaceOK(w) /\ DOMAIN job = Worker
  BY DEF RunsInv, JobsOK, LoopInv
<1>2. CASE SendClaim(w) \/ KillAgent(w) \/ SendReport(w) \/ ServeReport(w)
  BY <1>2 DEF SendClaim, KillAgent, SendReport, ServeReport, process, MayDrop
<1>3. CASE ServeClaim(w)
  BY <1>1, <1>3 DEF ServeClaim, PlaceOK, IdleOK, MayDrop
<1>4. CASE GetClaim(w)
  BY <1>4 DEF GetClaim, MayDrop
<1>5. CASE GetReportReply(w)
  BY <1>1, <1>5 DEF GetReportReply, PlaceOK, ServedOK, MayDrop
<1>6. QED  BY <1>2, <1>3, <1>4, <1>5 DEF Claiming, Reporting

LEMMA OtherDrop ==
  ASSUME RunsInv, LoopInv, faults' = faults, NEW w \in Worker,
         \/ Beating(w) \/ Failing(w) \/ Deadline(w) \/ AgentExits(w) \/ ChildrenEnd(w)
         \/ Signal(w) \/ Start(w)
  PROVE  MayDrop(w)
<1>1. PlaceOK(w) /\ faults \in Nat
  BY DEF LoopInv
<1>2. ~GiveUp(w)
  BY <1>1 DEF GiveUp, Fault
<1>3. CASE Beating(w)
  BY <1>3 DEF Beating, SendBeat, ServeBeat, GetBeat, process, MayDrop
<1>4. CASE Deadline(w) \/ AgentExits(w) \/ ChildrenEnd(w) \/ Start(w)
  BY <1>4 DEF Deadline, AgentExits, ChildrenEnd, Start, MayDrop
<1>5. CASE Signal(w)
  BY <1>1, <1>2, <1>5 DEF Signal, PlaceOK, IdleOK, MayDrop
<1>6. ~Failing(w)
  BY <1>2 DEF Failing, LoseClaim, LoseBeat, LoseReport, Crash
<1>7. QED  BY <1>3, <1>4, <1>5, <1>6

LEMMA NoFaultStep ==
  ASSUME RunsInv, LoopInv, late = {}, faults' = faults, [Next]_vars
  PROVE  late' = {} /\ (NoneDropped \/ Handed)
<1>1. faults \in Nat /\ \A v \in Worker : PlaceOK(v)
  BY DEF LoopInv
<1>2. ASSUME NEW w \in Worker, OnlyMoves(w), MayDrop(w) PROVE \A v \in Worker : MayDrop(v)
  BY <1>2 DEF OnlyMoves, SameFor, MayDrop
<1>3. ASSUME NEW w \in Worker PROVE ~GiveUp(w)
  BY <1>1 DEF GiveUp, Fault
<1>4. ASSUME NEW w \in Worker, Claiming(w) \/ Reporting(w)
      PROVE  late' = {} /\ (NoneDropped \/ Handed)
  <2>1. late' = {}
    BY <1>1, <1>4
       DEF Claiming, Reporting, SendClaim, ServeClaim, GetClaim, KillAgent, SendReport,
           ServeReport, GetReportReply, wire, Fault
  <2>2. \A v \in Worker : MayDrop(v)
    BY <1>2, <1>4, LoopPlace, LoopDrop
  <2>3. CASE Quiet
    BY <2>1, <2>2, <2>3 DEF NoneDropped
  <2>4. CASE pc[w] = "claim" /\ call[w] = "asked" /\ \E t \in TaskId : Given(w, t)
    BY <1>1, <2>1, <2>4 DEF PlaceOK, IdleOK, Handed
  <2>5. QED  BY <1>4, <2>3, <2>4, LoopRuns
<1>5. ASSUME NEW w \in Worker,
             \/ Beating(w) \/ Failing(w) \/ Deadline(w) \/ AgentExits(w) \/ ChildrenEnd(w)
             \/ Signal(w) \/ Start(w)
      PROVE  late' = {} /\ NoneDropped
  <2>1. ~Failing(w)
    BY <1>3 DEF Failing, LoseClaim, LoseBeat, LoseReport, Crash
  <2>2. late' = {}
    BY <1>3, <1>5, <2>1
       DEF Beating, SendBeat, ServeBeat, GetBeat, Deadline, AgentExits, ChildrenEnd, Signal,
           Start, wire
  <2>3. \A v \in Worker : MayDrop(v)
    BY <1>2, <1>5, OtherPlace, OtherDrop
  <2>4. QED  BY <1>5, <2>2, <2>3, OtherRuns DEF NoneDropped
<1>6. ASSUME NEW u \in User, Desk(u) PROVE late' = {} /\ NoneDropped
  <2>1. late' = {} /\ job' = job
    BY <1>6 DEF Desk, process, wire
  <2>2. QED  BY <1>6, <2>1, DeskRuns DEF NoneDropped, MayDrop
<1>7. CASE UNCHANGED vars
  <2>1. UNCHANGED <<queue, job, requeued, late>>
    BY <1>7 DEF vars, queue
  <2>2. Quiet
    BY <2>1, SameTable DEF RunsInv, JobsOK, Quiet, JobsLeft
  <2>3. QED  BY <2>1, <2>2 DEF NoneDropped, MayDrop
<1>8. QED  BY <1>4, <1>5, <1>6, <1>7 DEF Next

LEMMA ClaimedRun ==
  ASSUME RunsInv, NEW t \in TaskId, Queue!Exists(t)
  PROVE  /\ CurrentRun(t) # NoJob
         /\ CurrentRun(t).task = t /\ CurrentRun(t).run = tasks[t].claimed
<1>1. tasks[t].claimed \in Nat
  BY DEF RunsInv, TableOK, RowOK
<1>2. PICK r \in Nat : r = tasks[t].claimed
  BY <1>1
<1>3. [task |-> t, run |-> r] \in Job
  BY RunIsJob
<1>4. QED  BY <1>2, <1>3, NoJobAssumption DEF CurrentRun

\* What NoOrphanRun says of one task that is running.
InHand(t) == CurrentRun(t) \in refused \/ \E v \in Worker : job[v] = CurrentRun(t)

\* A task that keeps its run keeps the worker that has it, up to a refusal.
LEMMA RunKept ==
  ASSUME RunsInv, refused \subseteq refused', \A v \in Worker : MayDrop(v),
         NEW t \in TaskId, tasks[t].status = "running",
         tasks'[t].claimed = tasks[t].claimed, InHand(t)
  PROVE  InHand(t)'
<1>1. CurrentRun(t)' = CurrentRun(t)
  BY DEF CurrentRun
<1>2. CASE CurrentRun(t) \in refused
  BY <1>1, <1>2 DEF InHand
<1>3. ASSUME NEW v \in Worker, job[v] = CurrentRun(t) PROVE InHand(t)'
  <2>1. job[v] # NoJob /\ Current(v)
    BY <1>3, ClaimedRun DEF Current, Going, Queue!Exists
  <2>2. QED  BY <1>1, <1>3, <2>1 DEF MayDrop, InHand
<1>4. QED  BY <1>2, <1>3 DEF InHand

LEMMA NoOrphanStays ==
  ASSUME RunsInv, refused \subseteq refused', faults = 0, NoOrphanRun, NoneDropped \/ Handed
  PROVE  NoOrphanRun'
<1>1. SUFFICES ASSUME NEW s \in TaskId, tasks'[s].status = "running"
               PROVE  InHand(s)'
  BY DEF NoOrphanRun, InHand
<1>2. ASSUME tasks[s].status = "running", tasks'[s].claimed = tasks[s].claimed, NoneDropped
      PROVE  InHand(s)'
  BY <1>2, RunKept DEF NoOrphanRun, InHand, NoneDropped
<1>3. CASE NoneDropped /\ Quiet
  <2>1. Queue!Exists(s)'
    BY <1>1 DEF Queue!Exists
  <2>2. tasks[s].status = "running" /\ tasks'[s].claimed = tasks[s].claimed
    BY <1>1, <1>3, <2>1 DEF Quiet, SameRuns, SameRun
  <2>3. QED  BY <1>2, <1>3, <2>2
<1>4. ASSUME NoneDropped, NEW t \in TaskId, NewTask(t)
      PROVE  InHand(s)'
  <2>1. tasks'[t].status = "queued" /\ \A x \in TaskId : x # t => tasks'[x] = tasks[x]
    BY <1>4, CreateEffect DEF NewTask, RunsInv
  <2>2. QED  BY <1>1, <1>2, <1>4, <2>1
<1>5. ASSUME NoneDropped, NEW t \in TaskId, TakeBack(t)
      PROVE  InHand(s)'
  <2>1. tasks'[t].status = "queued" /\ \A x \in TaskId : x # t => tasks'[x] = tasks[x]
    BY <1>5, RequeueEffect DEF TakeBack, RunsInv
  <2>2. QED  BY <1>1, <1>2, <1>5, <2>1
<1>6. CASE Handed
  <2>1. PICK w \in Worker, t \in TaskId : Given(w, t) /\ job[w] = NoJob
    BY <1>6 DEF Handed
  <2>2. tasks'[t].claimed = clock + 1 /\ \A x \in TaskId : x # t => tasks'[x] = tasks[x]
    BY <2>1, ClaimEffect DEF Given, HandOut, RunsInv
  <2>3. CASE s = t
    BY <2>1, <2>2, <2>3 DEF Given, CurrentRun, InHand
  <2>4. CASE s # t
    <3>1. tasks'[s] = tasks[s] /\ tasks[s].status = "running"
      BY <1>1, <2>2, <2>4
    <3>2. \A v \in Worker : MayDrop(v)
      BY <2>1 DEF Given, HandOut, MayDrop
    <3>3. QED  BY <3>1, <3>2, RunKept DEF NoOrphanRun, InHand
  <2>5. QED  BY <2>3, <2>4
<1>7. QED  BY <1>3, <1>4, <1>5, <1>6 DEF NoneDropped

\* As long as no call fails and nobody crashes, every task marked running is in
\* the hands of a worker that will report on it, or the report on it was too
\* long for the server and the worker has gone on; whatever the users do at the
\* desk, and whichever workers are stopped by a signal.
THEOREM NoOrphanRunCorrect == Spec => []NoOrphanRun
<1> DEFINE Inv == NoOrphanRun /\ (faults = 0 => late = {})
<1>1. Init => Inv
  BY DEF Init, Queue!Init, Queue!Absent, NoOrphanRun
<1>2. RunsInv /\ LoopInv /\ Inv /\ [Next]_vars => Inv'
  <2>1. SUFFICES ASSUME RunsInv, LoopInv, Inv, [Next]_vars, faults' = 0 PROVE Inv'
    BY DEF NoOrphanRun
  <2>2. faults = 0
    BY <2>1, FaultsGrow
  <2>3. QED  BY <2>1, <2>2, NoFaultStep, NoOrphanStays, RefusedGrows
<1>3. QED  BY <1>1, <1>2, RunsInvariant, LoopInvariant, PTL DEF Spec
----------------------------------------------------------------------------
(***************************************************************************)
(* Reports, when no two workers hold tokens of one user and no request is  *)
(* served late: a worker then holds the latest run that it was given.      *)
(***************************************************************************)
OneWorkerEach == \A v, w \in Worker : Owner[v] = Owner[w] => v = w

KeepsReports == \A t \in TaskId : tasks'[t].status \in Queue!Outcome => tasks'[t] = tasks[t]

Finishing(w) == ServeReport(w) /\ Queue!FinishTask(w, job[w].task, work[w], job[w].run)

LEMMA BeatReports ==
  ASSUME TableOK, NEW w, NEW x, Queue!HeartbeatTask(w, x)
  PROVE  KeepsReports
<1>1. \A t \in TaskId : t # x => tasks'[t] = tasks[t]
  BY DEF Queue!HeartbeatTask, TableOK
<1>2. x \in TaskId => tasks'[x].status = "running"
  BY BeatEffect DEF Queue!HeartbeatTask, Queue!RunningFor
<1>3. QED  BY <1>1, <1>2 DEF KeepsReports, Queue!Outcome

LEMMA ClaimReports ==
  ASSUME TableOK, NEW w, NEW x \in TaskId, Queue!ClaimTask(w, x)
  PROVE  KeepsReports
BY ClaimEffect DEF KeepsReports, Queue!Outcome

LEMMA DeskReports ==
  ASSUME TableOK, NEW u \in User, Desk(u)
  PROVE  KeepsReports
<1>1. ASSUME NEW t \in TaskId, Queue!CancelTask(u, t) PROVE KeepsReports
  <2>1. DOMAIN tasks = TaskId /\ DOMAIN tasks[t] = Columns
    BY <1>1 DEF TableOK, RowOK, Queue!CancelTask, Queue!Visible
  <2>2. /\ tasks'[t].status = "cancelled"
        /\ \A x \in TaskId : x # t => tasks'[x] = tasks[x]
    BY <1>1, <2>1 DEF Queue!CancelTask, Columns
  <2>3. QED  BY <2>2 DEF KeepsReports, Queue!Outcome
<1>2. ASSUME NEW t \in TaskId,
             \/ \E p \in Project, a \in User : Queue!CreateTask(u, t, p, a)
             \/ Queue!RequeueTask(u, t)
      PROVE  KeepsReports
  BY <1>2, CreateEffect, RequeueEffect DEF KeepsReports, Queue!Outcome
<1>3. QED  BY <1>1, <1>2 DEF Desk

LEMMA ReportStep ==
  ASSUME TableOK, late = {}, [Next]_vars
  PROVE  KeepsReports \/ \E w \in Worker : Finishing(w)
<1>1. ASSUME UNCHANGED queue PROVE KeepsReports
  BY <1>1 DEF queue, KeepsReports
<1>2. ASSUME NEW w \in Worker, Claiming(w) PROVE KeepsReports
  BY <1>1, <1>2, ClaimReports
     DEF Claiming, SendClaim, ServeClaim, GetClaim, Queue!ClaimNothing, Queue!vars, queue
<1>3. ASSUME NEW w \in Worker, Beating(w) PROVE KeepsReports
  BY <1>1, <1>3, BeatReports DEF Beating, SendBeat, ServeBeat, GetBeat
<1>4. ASSUME NEW w \in Worker, Reporting(w) PROVE KeepsReports \/ Finishing(w)
  BY <1>1, <1>4
     DEF Reporting, KillAgent, SendReport, ServeReport, TooLong, GetReportReply, Finishing
<1>5. ASSUME NEW w \in Worker,
             \/ Failing(w) \/ Deadline(w) \/ AgentExits(w) \/ ChildrenEnd(w)
             \/ Signal(w) \/ Start(w)
      PROVE  KeepsReports
  BY <1>1, <1>5
     DEF Failing, LoseClaim, LoseBeat, LoseReport, Crash, Deadline, AgentExits, ChildrenEnd,
         Signal, Start
<1>6. CASE UNCHANGED vars
  BY <1>1, <1>6 DEF vars, queue
<1>7. QED  BY <1>2, <1>3, <1>4, <1>5, <1>6, DeskReports DEF Next

\* Without delays, tasks are handed out to workers that wait for them.
LEMMA PromptStep ==
  ASSUME RunsInv, Delays = FALSE, late = {}, [Next]_vars
  PROVE  /\ late' = {}
         /\ \/ Quiet
            \/ \E w \in Worker, t \in TaskId : Given(w, t)
            \/ \E t \in TaskId : NewTask(t) \/ TakeBack(t)
<1>1. ASSUME NEW w, NEW op PROVE ~Delay(w, op) /\ (GiveUp(w) => late' = {})
  BY DEF Delay, GiveUp
<1>2. ASSUME NEW w \in Worker, Claiming(w) \/ Reporting(w)
      PROVE  late' = {} /\ (Quiet \/ \E t \in TaskId : Given(w, t))
  <2>1. late' = {}
    BY <1>1, <1>2
       DEF Claiming, Reporting, SendClaim, ServeClaim, GetClaim, KillAgent, SendReport,
           ServeReport, GetReportReply, wire
  <2>2. QED  BY <1>2, <2>1, LoopRuns
<1>3. ASSUME NEW w \in Worker,
             \/ Beating(w) \/ Failing(w) \/ Deadline(w) \/ AgentExits(w) \/ ChildrenEnd(w)
             \/ Signal(w) \/ Start(w)
      PROVE  late' = {} /\ Quiet
  <2>1. late' = {}
    BY <1>1, <1>3
       DEF Beating, SendBeat, ServeBeat, GetBeat, Failing, LoseClaim, LoseBeat, LoseReport,
           Crash, Deadline, AgentExits, ChildrenEnd, Signal, Start, wire
  <2>2. QED  BY <1>3, <2>1, OtherRuns
<1>4. ASSUME NEW u \in User, Desk(u)
      PROVE  late' = {} /\ (Quiet \/ \E t \in TaskId : NewTask(t) \/ TakeBack(t))
  BY <1>4, DeskRuns DEF Desk, wire
<1>5. CASE UNCHANGED vars
  <2>1. UNCHANGED <<queue, job, requeued, late>>
    BY <1>5 DEF vars, queue
  <2>2. QED  BY <2>1, SameTable DEF RunsInv, JobsOK, Quiet, JobsLeft
<1>6. QED  BY <1>2, <1>3, <1>4, <1>5 DEF Next

\* Of the tasks that name w, none is in a later run than the one that w has.
LatestOK(w) ==
  job[w] # NoJob =>
    \A t \in TaskId : Queue!Exists(t) /\ tasks[t].claimed # 0 /\ tasks[t].worker = w =>
      tasks[t].claimed <= job[w].run

AloneInv ==
  /\ late = {}
  /\ \A t \in TaskId : tasks[t].status = "running" => tasks[t].worker \in Worker
  /\ \A w \in Worker : LatestOK(w)

LEMMA AloneStep ==
  ASSUME RunsInv, AloneInv, Delays = FALSE, [Next]_vars
  PROVE  AloneInv'
<1>1. TableOK' /\ clock \in Nat /\ JobsOK
  BY StepOutcome, QuietKeeps, HandOutKeeps, NewTaskKeeps, TakeBackKeeps
     DEF Outcomes, RunsInv, TableOK
<1>2. late' = {}
  BY PromptStep DEF AloneInv
<1>3. CASE Quiet
  <2>1. \A t \in TaskId : Queue!Exists(t)' =>
          /\ Queue!Exists(t) /\ tasks'[t].claimed = tasks[t].claimed
          /\ tasks'[t].worker = tasks[t].worker
          /\ tasks'[t].status = "running" => tasks[t].status = "running"
    BY <1>3 DEF Quiet, SameRuns, SameRun
  <2>2. \A w \in Worker : LatestOK(w)'
    BY <1>3, <2>1 DEF AloneInv, LatestOK, Quiet, JobsLeft
  <2>3. \A t \in TaskId : tasks'[t].status = "running" => tasks'[t].worker \in Worker
    BY <2>1 DEF AloneInv, Queue!Exists
  <2>4. QED  BY <1>2, <2>2, <2>3 DEF AloneInv
<1>4. ASSUME NEW v \in Worker, NEW x \in TaskId, Given(v, x) PROVE AloneInv'
  <2>1. /\ tasks'[x].claimed = clock + 1 /\ tasks'[x].worker = v /\ clock' = clock + 1
        /\ \A t \in TaskId : t # x => tasks'[t] = tasks[t]
    BY <1>4, ClaimEffect DEF Given, HandOut, RunsInv
  <2>2. job'[v].run = clock + 1 /\ \A w \in Worker \ {v} : job'[w] = job[w]
    BY <1>4 DEF Given, HandOut
  <2>3. LatestOK(v)'
    <3>1. \A t \in TaskId : Queue!Exists(t)' => tasks'[t].claimed \in 0 .. clock + 1
      BY <1>1, <2>1 DEF TableOK, RowOK
    <3>2. QED  BY <1>1, <2>2, <3>1 DEF LatestOK
  <2>4. ASSUME NEW w \in Worker \ {v} PROVE LatestOK(w)'
    BY <2>1, <2>2, <2>4 DEF AloneInv, LatestOK, Queue!Exists
  <2>5. \A t \in TaskId : tasks'[t].status = "running" => tasks'[t].worker \in Worker
    BY <2>1 DEF AloneInv
  <2>6. QED  BY <1>2, <2>3, <2>4, <2>5 DEF AloneInv
<1>5. ASSUME NEW x \in TaskId, NewTask(x) \/ TakeBack(x) PROVE AloneInv'
  <2>1. /\ tasks'[x].status = "queued" /\ job' = job
        /\ \A t \in TaskId : t # x => tasks'[t] = tasks[t]
    BY <1>5, CreateEffect, RequeueEffect DEF NewTask, TakeBack, RunsInv
  <2>2. tasks'[x].claimed = 0
    BY <1>1, <2>1 DEF TableOK, RowOK, Queue!Exists
  <2>3. \A w \in Worker : LatestOK(w)'
    BY <2>1, <2>2 DEF AloneInv, LatestOK, Queue!Exists
  <2>4. QED  BY <1>2, <2>1, <2>3 DEF AloneInv
<1>6. QED  BY <1>3, <1>4, <1>5, PromptStep DEF AloneInv

\* What the WHERE clause of a heartbeat or report finds is the run of its sender.
LEMMA WantedIsGoing ==
  ASSUME OneWorkerEach, RunsInv, AloneInv, NEW w \in Worker, job[w] # NoJob,
         Queue!RunningFor(Owner[w], job[w].task)
  PROVE  Going(job[w]) /\ tasks[job[w].task].worker = w
<1>1. RunOK(job[w]) /\ job[w].task \in TaskId /\ job[w].run \in 1 .. clock /\ clock \in Nat
  BY DEF RunsInv, JobsOK, RunOK, Job, TableOK
<1>2. /\ tasks[job[w].task].status = "running" /\ tasks[job[w].task].assignee = Owner[w]
      /\ RowOK(tasks[job[w].task], clock)
  BY <1>1 DEF Queue!RunningFor, RunOK, RunsInv, TableOK
<1>3. tasks[job[w].task].worker = w
  BY <1>1, <1>2 DEF AloneInv, RowOK, OneWorkerEach
<1>4. /\ tasks[job[w].task].claimed # 0 /\ tasks[job[w].task].claimed \in 0 .. clock
      /\ tasks[job[w].task].claimed <= job[w].run
  BY <1>1, <1>2, <1>3 DEF AloneInv, LatestOK, RowOK, RunOK
<1>5. CASE job[w] \in requeued
  BY <1>1, <1>4, <1>5 DEF RunsInv, OldRuns
<1>6. CASE HeldRun(w)
  BY <1>2, <1>6 DEF HeldRun, Going
<1>7. QED  BY <1>3, <1>5, <1>6 DEF RunsInv, HeldRuns

LEMMA FinishIsOfRun ==
  ASSUME OneWorkerEach, RunsInv, LoopInv, AloneInv, NEW w \in Worker, Finishing(w)
  PROVE  LET t == job[w].task IN
         /\ \A s \in TaskId : s # t => tasks'[s] = tasks[s]
         /\ tasks'[t].report = [worker |-> tasks'[t].worker, run |-> tasks'[t].claimed]
<1> DEFINE t == job[w].task
<1>1. job[w] # NoJob
  BY DEF Finishing, ServeReport, LoopInv, PlaceOK, BusyOK
<1>2. t \in TaskId /\ RowOK(tasks[t], clock)
  BY <1>1 DEF RunsInv, JobsOK, RunOK, Job, TableOK
<1>3. tasks[t].worker = w /\ tasks[t].claimed = job[w].run
  BY <1>1, WantedIsGoing DEF Finishing, Queue!FinishTask, Going
<1>4. /\ tasks'[t] = [tasks[t] EXCEPT !.status = work[w],
                        !.report = [worker |-> w, run |-> job[w].run], !.finished = clock]
      /\ \A s \in TaskId : s # t => tasks'[s] = tasks[s]
  BY <1>2 DEF Finishing, Queue!FinishTask, RunsInv, TableOK, RowOK, Columns
<1>5. /\ tasks'[t].report = [worker |-> w, run |-> job[w].run]
      /\ tasks'[t].worker = tasks[t].worker /\ tasks'[t].claimed = tasks[t].claimed
  BY <1>2, <1>4 DEF RowOK, Columns
<1>6. QED  BY <1>3, <1>4, <1>5

\* A finished task shows the report of the run that its columns describe, if
\* every worker has a user of its own and no abandoned request is served late:
\* no cancelling, requeueing, crashing or losing of calls can mix runs up then.
THEOREM ReportOfRunAlone ==
  ASSUME OneWorkerEach, Delays = FALSE
  PROVE  Spec => []ReportOfRun
<1>1. Init => AloneInv /\ ReportOfRun
  BY DEF Init, Queue!Init, Queue!Absent, Queue!Exists, Queue!Outcome, AloneInv, LatestOK,
         ReportOfRun
<1>2. RunsInv /\ LoopInv /\ AloneInv /\ ReportOfRun /\ [Next]_vars => (AloneInv /\ ReportOfRun)'
  <2>1. SUFFICES ASSUME RunsInv, LoopInv, AloneInv, ReportOfRun, [Next]_vars
                 PROVE  AloneInv' /\ ReportOfRun'
    OBVIOUS
  <2>2. AloneInv'
    BY <2>1, AloneStep
  <2>3. ASSUME KeepsReports PROVE ReportOfRun'
    BY <2>1, <2>3 DEF KeepsReports, ReportOfRun
  <2>4. ASSUME NEW w \in Worker, Finishing(w) PROVE ReportOfRun'
    BY <2>1, <2>4, FinishIsOfRun DEF ReportOfRun
  <2>5. KeepsReports \/ \E w \in Worker : Finishing(w)
    BY <2>1, ReportStep DEF RunsInv, AloneInv
  <2>6. QED  BY <2>2, <2>3, <2>4, <2>5
<1>3. QED  BY <1>1, <1>2, RunsInvariant, LoopInvariant, PTL DEF Spec
----------------------------------------------------------------------------
(***************************************************************************)
(* Cancelling, in the same circumstances: a heartbeat is then about the    *)
(* run that its task is in, and a cancelled run is not going on any more.  *)
(***************************************************************************)
BeatOK(w) == beat[w] = "asked" => pc[w] = "run"

BeatsInv == DOMAIN beat = Worker /\ \A w \in Worker : BeatOK(w)

CancelledOver == \A r \in cancelled : RunOK(r) /\ ~Going(r)

LEMMA BeatsStep ==
  ASSUME LoopInv, BeatsInv, [Next]_vars
  PROVE  BeatsInv'
<1>1. DOMAIN pc = Worker /\ DOMAIN beat = Worker /\ \A w \in Worker : BeatOK(w)
  BY DEF LoopInv, BeatsInv
<1>2. ASSUME UNCHANGED <<pc, beat>> PROVE BeatsInv'
  BY <1>1, <1>2 DEF BeatsInv, BeatOK
<1>3. ASSUME NEW w \in Worker, DOMAIN beat' = Worker,
             \A v \in Worker \ {w} : pc'[v] = pc[v] /\ beat'[v] = beat[v],
             BeatOK(w)'
      PROVE  BeatsInv'
  BY <1>1, <1>3 DEF BeatsInv, BeatOK
<1>4. ASSUME NEW w \in Worker, Claiming(w) PROVE BeatsInv'
  BY <1>1, <1>2, <1>3, <1>4 DEF Claiming, SendClaim, ServeClaim, GetClaim, Resting, BeatOK
<1>5. ASSUME NEW w \in Worker, Beating(w) PROVE BeatsInv'
  BY <1>1, <1>3, <1>5 DEF Beating, SendBeat, ServeBeat, GetBeat, process, BeatOK
<1>6. ASSUME NEW w \in Worker, Reporting(w) PROVE BeatsInv'
  BY <1>1, <1>2, <1>3, <1>6
     DEF Reporting, KillAgent, SendReport, ServeReport, GetReportReply, Resting, wire, process,
         BeatOK
<1>7. ASSUME NEW w \in Worker, Failing(w) PROVE BeatsInv'
  BY <1>1, <1>3, <1>7 DEF Failing, LoseClaim, LoseBeat, LoseReport, Crash, Resting, process, BeatOK
<1>8. ASSUME NEW w \in Worker, Signal(w) \/ Start(w) PROVE BeatsInv'
  BY <1>1, <1>2, <1>3, <1>8 DEF Signal, Start, Resting, wire, BeatOK
<1>9. ASSUME NEW w \in Worker, Deadline(w) \/ AgentExits(w) \/ ChildrenEnd(w) PROVE BeatsInv'
  BY <1>2, <1>9 DEF Deadline, AgentExits, ChildrenEnd, wire
<1>10. CASE UNCHANGED vars \/ (\E u \in User : Desk(u)) \/ (\E r \in late : ServeLate(r))
  BY <1>2, <1>10 DEF vars, Desk, ServeLate, process, wire
<1>11. QED  BY <1>4, <1>5, <1>6, <1>7, <1>8, <1>9, <1>10 DEF Next

\* A user has cancelled t: the run it had is over.
Cancelling(t) == /\ \E u \in User : Queue!CancelTask(u, t)
                 /\ cancelled' = cancelled \union CurrentRuns(t)

LEMMA CancelledStep ==
  ASSUME [Next]_vars
  PROVE  cancelled' = cancelled \/ \E t \in TaskId : Cancelling(t)
<1>1. ASSUME NEW u \in User, Desk(u)
      PROVE  cancelled' = cancelled \/ \E t \in TaskId : Cancelling(t)
  BY <1>1 DEF Desk, Cancelling, history
<1>2. ASSUME NEW w \in Worker, Claiming(w) \/ Beating(w) \/ Reporting(w)
      PROVE  cancelled' = cancelled
  BY <1>2 DEF Claiming, SendClaim, ServeClaim, GetClaim, Beating, SendBeat, ServeBeat, GetBeat,
              Reporting, KillAgent, SendReport, ServeReport, GetReportReply, history
<1>3. ASSUME NEW w \in Worker,
             \/ Failing(w) \/ Deadline(w) \/ AgentExits(w) \/ ChildrenEnd(w)
             \/ Signal(w) \/ Start(w)
      PROVE  cancelled' = cancelled
  BY <1>3 DEF Failing, LoseClaim, LoseBeat, LoseReport, Crash, Deadline, AgentExits,
              ChildrenEnd, Signal, Start, history
<1>4. CASE UNCHANGED vars \/ \E r \in late : ServeLate(r)
  BY <1>4 DEF vars, ServeLate, history
<1>5. QED  BY <1>1, <1>2, <1>3, <1>4 DEF Next

LEMMA CancelledOverStep ==
  ASSUME RunsInv, CancelledOver, [Next]_vars
  PROVE  CancelledOver'
<1>1. Outcomes
  BY StepOutcome
<1>2. ASSUME NEW r \in cancelled PROVE RunOK(r)' /\ ~Going(r)'
  BY <1>1, <1>2, GoingStays DEF CancelledOver
<1>3. ASSUME NEW t \in TaskId, Cancelling(t), NEW r \in CurrentRuns(t)
      PROVE  RunOK(r)' /\ ~Going(r)'
  <2>1. Queue!Exists(t) /\ DOMAIN tasks = TaskId /\ clock \in Nat /\ RowOK(tasks[t], clock)
    BY <1>3 DEF Cancelling, Queue!CancelTask, Queue!Visible, RunsInv, TableOK
  <2>2. r = CurrentRun(t) /\ tasks[t].claimed \in 1 .. clock
    BY <1>3, <2>1 DEF CurrentRuns, RowOK
  <2>3. r.task = t /\ r.run = tasks[t].claimed /\ r \in Job
    BY <2>1, <2>2, RunIsJob DEF CurrentRun
  <2>4. RunOK(r)
    BY <2>1, <2>2, <2>3 DEF RunOK
  <2>5. tasks'[t].status = "cancelled"
    BY <1>3, <2>1 DEF Cancelling, Queue!CancelTask, RowOK, Columns
  <2>6. QED  BY <1>1, <2>3, <2>4, <2>5, GoingStays DEF Going
<1>4. QED  BY <1>2, <1>3, CancelledStep DEF CancelledOver, Cancelling

\* A beat is answered by no other step.
LEMMA BeatAnswered ==
  ASSUME BeatsInv, [Next]_vars, NEW v \in Worker, beat[v] = "asked", beat'[v] = "yes"
  PROVE  ServeBeat(v)
<1>1. DOMAIN beat = Worker /\ beat' # beat
  BY DEF BeatsInv
<1>2. ASSUME NEW w \in Worker, SendBeat(w) \/ GetBeat(w) \/ Failing(w) \/ SendReport(w)
      PROVE  FALSE
  BY <1>1, <1>2
     DEF SendBeat, GetBeat, Failing, LoseClaim, LoseBeat, LoseReport, Crash, SendReport
<1>3. ASSUME NEW w \in Worker, ServeBeat(w) PROVE w = v
  BY <1>1, <1>3 DEF ServeBeat
<1>4. ASSUME NEW w \in Worker,
             \/ Claiming(w) \/ KillAgent(w) \/ ServeReport(w) \/ GetReportReply(w)
             \/ Deadline(w) \/ AgentExits(w) \/ ChildrenEnd(w) \/ Signal(w) \/ Start(w)
      PROVE  FALSE
  BY <1>1, <1>4
     DEF Claiming, SendClaim, ServeClaim, GetClaim, KillAgent, ServeReport, GetReportReply,
         Deadline, AgentExits, ChildrenEnd, Signal, Start, wire
<1>5. ~UNCHANGED vars /\ ~(\E u \in User : Desk(u)) /\ ~(\E r \in late : ServeLate(r))
  BY <1>1 DEF vars, Desk, ServeLate, wire
<1>6. QED  BY <1>2, <1>3, <1>4, <1>5 DEF Next, Beating, Reporting

\* In the same circumstances, no heartbeat tells a worker to continue with a
\* run that a user has cancelled, even if its task was requeued and claimed.
THEOREM CancelledIsToldAlone ==
  ASSUME OneWorkerEach, Delays = FALSE
  PROVE  Spec => CancelledIsTold
<1> DEFINE Inv == RunsInv /\ LoopInv /\ AloneInv /\ BeatsInv /\ CancelledOver
           Told == \A w \in Worker :
                     beat[w] = "asked" /\ beat'[w] = "yes" => job[w] \notin cancelled
<1>1. Init => AloneInv /\ BeatsInv /\ CancelledOver
  BY DEF Init, Queue!Init, Queue!Absent, Queue!Exists, AloneInv, LatestOK, BeatsInv, BeatOK,
         CancelledOver
<1>2. RunsInv /\ LoopInv /\ AloneInv /\ BeatsInv /\ CancelledOver /\ [Next]_vars
        => (AloneInv /\ BeatsInv /\ CancelledOver)'
  BY AloneStep, BeatsStep, CancelledOverStep
<1>3. Inv /\ [Next]_vars => Told
  <2>1. SUFFICES ASSUME Inv, [Next]_vars, NEW w \in Worker, beat[w] = "asked", beat'[w] = "yes"
                 PROVE  job[w] \notin cancelled
    OBVIOUS
  <2>2. ServeBeat(w)
    BY <2>1, BeatAnswered
  <2>3. Queue!RunningFor(Owner[w], job[w].task)
    BY <2>1, <2>2 DEF ServeBeat, Queue!HeartbeatTask, BeatsInv
  <2>4. job[w] # NoJob
    BY <2>1 DEF BeatsInv, BeatOK, LoopInv, PlaceOK, BusyOK
  <2>5. QED  BY <2>1, <2>3, <2>4, WantedIsGoing DEF CancelledOver
<1>4. Spec => []Inv
  BY <1>1, <1>2, RunsInvariant, LoopInvariant, PTL DEF Spec
<1>5. QED  BY <1>3, <1>4, PTL DEF Spec, CancelledIsTold

----------------------------------------------------------------------------
(***************************************************************************)
(* Types.  What is under way fits the place its worker is at (SentOK), so  *)
(* that what is given up and comes late is a request (LateOK), and what is *)
(* served is about a task that exists.                                     *)
(***************************************************************************)
Stages   == {"off", "poll", "claim", "run", "report"}
Works    == {"none", "agent", "ok", "error", "ok held", "error held"} \union Queue!Outcome
Contexts == {"open", "deadline", "cancel"}
Calls    == {"none", "asked", "answered"}
Beats    == {"none", "asked", "yes", "no"}

RangesOK ==
  /\ pc \in [Worker -> Stages] /\ work \in [Worker -> Works] /\ ctx \in [Worker -> Contexts]
  /\ stopped \in [Worker -> BOOLEAN] /\ job \in [Worker -> Job \union {NoJob}]
  /\ call \in [Worker -> Calls] /\ beat \in [Worker -> Beats]

SentOK(w) ==
  /\ call[w] = "asked" => pc[w] \in {"claim", "report"}
  /\ pc[w] = "report" => work[w] \in Queue!Outcome

LateOK ==
  /\ late \subseteq Request /\ \A r \in late : r.op # "claim" => r.job # NoJob
  /\ faults \in 0 .. MaxFaults

WorkersOK == RangesOK /\ (\A w \in Worker : SentOK(w)) /\ LateOK

\* A row that is there has the columns of Row, and putting one keeps the types.
LEMMA RowTyped ==
  ASSUME Queue!TypeOK, NEW t \in TaskId, Queue!Exists(t)
  PROVE  tasks[t] \in Queue!Row
BY DEF Queue!TypeOK, Queue!Exists, Queue!Absent

LEMMA RowPut ==
  ASSUME Queue!TypeOK, NEW t \in TaskId, NEW row \in Queue!Row,
         clock' \in Nat, tasks' = [tasks EXCEPT ![t] = row]
  PROVE  Queue!TypeOK'
BY DEF Queue!TypeOK

LEMMA ClaimTyped ==
  ASSUME Queue!TypeOK, NEW w \in Worker, NEW t \in TaskId, Queue!ClaimTask(w, t)
  PROVE  Queue!TypeOK'
<1> DEFINE row == [tasks[t] EXCEPT !.status = "running", !.claimed = clock + 1,
                                   !.heartbeat = clock + 1, !.worker = w]
<1>1. tasks[t] \in Queue!Row /\ clock + 1 \in Nat /\ clock' = clock + 1
  BY RowTyped DEF Queue!ClaimTask, Queue!FirstFor, Queue!Claimable, Queue!TypeOK
<1>2. row \in Queue!Row
  <2>1. "running" \in Queue!Status
    BY DEF Queue!Status
  <2>2. QED  BY <1>1, <2>1 DEF Queue!Row
<1>3. tasks' = [tasks EXCEPT ![t] = row]
  BY <1>1 DEF Queue!ClaimTask, Queue!TypeOK, Queue!Row
<1> HIDE DEF row
<1>4. QED  BY <1>1, <1>2, <1>3, RowPut

LEMMA BeatTyped ==
  ASSUME Queue!TypeOK, NEW w \in Worker, NEW t \in TaskId, Queue!HeartbeatTask(w, t)
  PROVE  Queue!TypeOK'
<1> DEFINE row == [tasks[t] EXCEPT !.heartbeat = clock]
<1>1. tasks[t] \in Queue!Row /\ clock \in Nat /\ clock' = clock
  BY RowTyped DEF Queue!HeartbeatTask, Queue!RunningFor, Queue!TypeOK
<1>2. row \in Queue!Row
  BY <1>1 DEF Queue!Row
<1>3. tasks' = [tasks EXCEPT ![t] = row]
  BY <1>1 DEF Queue!HeartbeatTask, Queue!TypeOK, Queue!Row
<1> HIDE DEF row
<1>4. QED  BY <1>1, <1>2, <1>3, RowPut

LEMMA FinishTyped ==
  ASSUME Queue!TypeOK, NEW w \in Worker, NEW t \in TaskId, NEW s, NEW r \in Nat,
         Queue!FinishTask(w, t, s, r)
  PROVE  Queue!TypeOK'
<1> DEFINE row == [tasks[t] EXCEPT !.status = s, !.report = [worker |-> w, run |-> r],
                                   !.finished = clock]
<1>1. tasks[t] \in Queue!Row /\ clock \in Nat /\ clock' = clock /\ s \in Queue!Status
  BY RowTyped DEF Queue!FinishTask, Queue!RunningFor, Queue!TypeOK, Queue!Status
<1>2. row \in Queue!Row
  BY <1>1 DEF Queue!Row, Queue!Report
<1>3. tasks' = [tasks EXCEPT ![t] = row]
  BY <1>1 DEF Queue!FinishTask, Queue!TypeOK, Queue!Row
<1> HIDE DEF row
<1>4. QED  BY <1>1, <1>2, <1>3, RowPut

LEMMA DeskTyped ==
  ASSUME Queue!TypeOK, NEW u \in User, Desk(u)
  PROVE  Queue!TypeOK'
<1>1. clock \in Nat /\ clock + 1 \in Nat
  BY DEF Queue!TypeOK
<1>2. PICK t \in TaskId : \/ \E p \in Project, a \in User : Queue!CreateTask(u, t, p, a)
                          \/ Queue!CancelTask(u, t) \/ Queue!RequeueTask(u, t)
  BY DEF Desk
<1>3. ASSUME NEW p \in Project, NEW a \in User, Queue!CreateTask(u, t, p, a) PROVE Queue!TypeOK'
  <2>1. Queue!NewRow(p, a, clock + 1) \in Queue!Row
    BY <1>1 DEF Queue!NewRow, Queue!Row, Queue!Status
  <2>2. QED  BY <1>1, <1>3, <2>1, RowPut DEF Queue!CreateTask
<1>4. CASE Queue!CancelTask(u, t)
  <2> DEFINE row == [tasks[t] EXCEPT !.status = "cancelled", !.finished = clock]
  <2>1. tasks[t] \in Queue!Row /\ clock' = clock
    BY <1>4, RowTyped DEF Queue!CancelTask, Queue!Visible
  <2>2. row \in Queue!Row
    BY <1>1, <2>1 DEF Queue!Row, Queue!Status
  <2>3. tasks' = [tasks EXCEPT ![t] = row]
    BY <1>4, <2>1 DEF Queue!CancelTask, Queue!TypeOK, Queue!Row
  <2> HIDE DEF row
  <2>4. QED  BY <1>1, <2>1, <2>2, <2>3, RowPut
<1>5. CASE Queue!RequeueTask(u, t)
  <2>1. tasks[t] \in Queue!Row
    BY <1>5, RowTyped DEF Queue!RequeueTask, Queue!Visible
  <2>2. Queue!Requeued(tasks[t]) \in Queue!Row
    BY <2>1 DEF Queue!Requeued, Queue!Row, Queue!Status
  <2>3. QED  BY <1>1, <1>5, <2>2, RowPut DEF Queue!RequeueTask
<1>6. QED  BY <1>2, <1>3, <1>4, <1>5

\* The table keeps its types: what is served is about a task that exists.
LEMMA TableTyped ==
  ASSUME RunsInv, LoopInv, BeatsInv, LateOK, Queue!TypeOK, [Next]_vars
  PROVE  Queue!TypeOK'
<1>1. UNCHANGED queue => Queue!TypeOK'
  BY DEF queue, Queue!TypeOK
<1>2. \A w \in Worker : job[w] # NoJob => job[w].task \in TaskId /\ job[w].run \in Nat
  BY DEF RunsInv, JobsOK, RunOK, Job
<1>3. \A w \in Worker : beat[w] = "asked" \/ pc[w] = "report" => job[w] # NoJob
  BY DEF BeatsInv, BeatOK, LoopInv, PlaceOK, BusyOK
<1>4. ASSUME NEW w \in Worker, Queue!ClaimNothing(w) PROVE Queue!TypeOK'
  BY <1>1, <1>4 DEF Queue!ClaimNothing, Queue!vars, queue
<1>5. ASSUME NEW w \in Worker, ServeClaim(w) PROVE Queue!TypeOK'
  BY <1>4, <1>5, ClaimTyped DEF ServeClaim
<1>6. ASSUME NEW w \in Worker, ServeBeat(w) PROVE Queue!TypeOK'
  BY <1>1, <1>2, <1>3, <1>6, BeatTyped DEF ServeBeat
<1>7. ASSUME NEW w \in Worker, ServeReport(w) PROVE Queue!TypeOK'
  BY <1>1, <1>2, <1>3, <1>7, FinishTyped DEF ServeReport, TooLong
<1>8. ASSUME NEW r \in late, ServeLate(r) PROVE Queue!TypeOK'
  <2>1. r.worker \in Worker /\ (r.op # "claim" => r.job.task \in TaskId /\ r.job.run \in Nat)
    BY DEF LateOK, Request, Job
  <2>2. CASE r.op = "claim"
    BY <1>4, <1>8, <2>1, <2>2, ClaimTyped DEF ServeLate
  <2>3. CASE r.op # "claim"
    BY <1>1, <1>8, <2>1, <2>3, BeatTyped, FinishTyped DEF ServeLate, TooLong
  <2>4. QED  BY <2>2, <2>3
<1>9. ASSUME NEW w \in Worker,
             \/ SendClaim(w) \/ GetClaim(w) \/ SendBeat(w) \/ GetBeat(w) \/ KillAgent(w)
             \/ SendReport(w) \/ GetReportReply(w) \/ Failing(w) \/ Deadline(w)
             \/ AgentExits(w) \/ ChildrenEnd(w) \/ Signal(w) \/ Start(w)
      PROVE  UNCHANGED queue
  BY <1>9 DEF SendClaim, GetClaim, SendBeat, GetBeat, KillAgent, SendReport, GetReportReply,
              Failing, LoseClaim, LoseBeat, LoseReport, Crash, Deadline, AgentExits, ChildrenEnd,
              Signal, Start
<1>10. UNCHANGED vars => UNCHANGED queue
  BY DEF vars, queue
<1>11. QED
  BY <1>1, <1>5, <1>6, <1>7, <1>8, <1>9, <1>10, DeskTyped DEF Next, Claiming, Beating, Reporting

----------------------------------------------------------------------------
\* A request that is given up is one that was made.
LEMMA DelayTyped ==
  ASSUME RunsInv, LateOK, NEW w \in Worker, NEW op \in {"claim", "report", "beat"}, Delay(w, op),
         op = "report" => work[w] \in Queue!Outcome,
         op # "claim" => job[w] # NoJob
  PROVE  late' \subseteq Request /\ \A r \in late' : r.op # "claim" => r.job # NoJob
<1> DEFINE new == [id |-> faults, worker |-> w, op |-> op, job |-> job[w],
                   status |-> IF op = "report" THEN work[w] ELSE "none"]
<1>1. job[w] \in Job \union {NoJob} /\ faults \in Nat
  BY FaultsAssumption DEF RunsInv, JobsOK, RunOK, LateOK
<1>2. new \in Request /\ new.op = op /\ new.job = job[w]
  BY <1>1 DEF Request
<1>3. late' = late \union {new}
  BY DEF Delay
<1> HIDE DEF new
<1>4. QED  BY <1>2, <1>3 DEF LateOK

LEMMA FaultTyped ==
  ASSUME LateOK, Fault
  PROVE  faults' \in 0 .. MaxFaults
BY FaultsAssumption DEF LateOK, Fault

LEMMA GiveUpTyped ==
  ASSUME RunsInv, LoopInv, BeatsInv, RangesOK, LateOK, NEW w \in Worker, SentOK(w), GiveUp(w)
  PROVE  LateOK'
<1>1. faults' \in 0 .. MaxFaults
  BY FaultTyped DEF GiveUp
<1>2. CASE UNCHANGED late
  BY <1>1, <1>2 DEF LateOK
<1>3. CASE call[w] = "asked" /\ Delay(w, pc[w])
  <2>1. pc[w] \in {"claim", "report"} /\ (pc[w] = "report" => work[w] \in Queue!Outcome /\ job[w] # NoJob)
    BY <1>3 DEF SentOK, LoopInv, PlaceOK, BusyOK
  <2>2. QED  BY <1>1, <1>3, <2>1, DelayTyped DEF LateOK
<1>4. CASE beat[w] = "asked" /\ Delay(w, "beat")
  <2>1. job[w] # NoJob
    BY <1>4 DEF BeatsInv, BeatOK, LoopInv, PlaceOK, BusyOK
  <2>2. QED  BY <1>1, <1>4, <2>1, DelayTyped DEF LateOK
<1>5. QED  BY <1>2, <1>3, <1>4 DEF GiveUp

\* What is late, and how many faults there were.
LEMMA LateStep ==
  ASSUME RunsInv, LoopInv, BeatsInv, WorkersOK, [Next]_vars
  PROVE  LateOK'
<1>1. RangesOK /\ LateOK /\ \A w \in Worker : SentOK(w)
  BY DEF WorkersOK
<1>2. UNCHANGED <<late, faults>> => LateOK'
  BY <1>1 DEF LateOK
<1>3. ASSUME NEW w \in Worker, GiveUp(w) PROVE LateOK'
  BY <1>1, <1>3, GiveUpTyped
<1>4. ASSUME NEW w \in Worker, Failing(w) \/ Signal(w) PROVE LateOK'
  BY <1>2, <1>3, <1>4 DEF Failing, LoseClaim, LoseBeat, LoseReport, Crash, Signal
<1>5. ASSUME NEW w \in Worker, SendReport(w) PROVE LateOK'
  <2>1. CASE UNCHANGED <<late, faults>>
    BY <1>2, <2>1
  <2>2. CASE beat[w] = "asked" /\ Fault /\ Delay(w, "beat")
    <3>1. job[w] # NoJob
      BY <2>2 DEF BeatsInv, BeatOK, LoopInv, PlaceOK, BusyOK
    <3>2. QED  BY <1>1, <2>2, <3>1, DelayTyped, FaultTyped DEF LateOK
  <2>3. QED  BY <1>5, <2>1, <2>2 DEF SendReport
<1>6. ASSUME NEW r \in late, ServeLate(r) PROVE LateOK'
  BY <1>1, <1>6 DEF ServeLate, LateOK
<1>7. ASSUME NEW w \in Worker,
             \/ Claiming(w) \/ Beating(w) \/ KillAgent(w) \/ ServeReport(w) \/ GetReportReply(w)
             \/ Deadline(w) \/ AgentExits(w) \/ ChildrenEnd(w) \/ Start(w)
      PROVE  UNCHANGED <<late, faults>>
  BY <1>7 DEF Claiming, SendClaim, ServeClaim, GetClaim, Beating, SendBeat, ServeBeat, GetBeat,
              KillAgent, ServeReport, GetReportReply, Deadline, AgentExits, ChildrenEnd, Start, wire
<1>8. UNCHANGED vars \/ (\E u \in User : Desk(u)) => UNCHANGED <<late, faults>>
  BY DEF vars, Desk, wire
<1>9. QED  BY <1>2, <1>4, <1>5, <1>6, <1>7, <1>8 DEF Next, Reporting

----------------------------------------------------------------------------
\* A worker that rests has nothing to report and has asked nothing.
LEMMA RestingTyped ==
  ASSUME RangesOK, \A v \in Worker : SentOK(v), NEW w \in Worker, NEW ends, Resting(w, ends),
         beat' \in [Worker -> Beats]
  PROVE  RangesOK' /\ \A v \in Worker : SentOK(v)'
BY DEF RangesOK, SentOK, Resting, Stages, Works, Contexts, Calls

LEMMA ClaimingTyped ==
  ASSUME clock \in Nat, RangesOK, \A v \in Worker : SentOK(v), NEW w \in Worker, Claiming(w)
  PROVE  RangesOK' /\ \A v \in Worker : SentOK(v)'
<1>1. SendClaim(w) => RangesOK' /\ \A v \in Worker : SentOK(v)'
  BY DEF SendClaim, RangesOK, SentOK, Stages, Calls
<1>2. ASSUME ServeClaim(w) PROVE RangesOK' /\ \A v \in Worker : SentOK(v)'
  <2>1. \A t \in TaskId : [task |-> t, run |-> clock + 1] \in Job
    BY DEF Job
  <2>2. job' \in [Worker -> Job \union {NoJob}]
    BY <1>2, <2>1 DEF ServeClaim, RangesOK
  <2>3. QED  BY <1>2, <2>2 DEF ServeClaim, RangesOK, SentOK, Calls
<1>3. ASSUME GetClaim(w) PROVE RangesOK' /\ \A v \in Worker : SentOK(v)'
  <2>1. CASE job[w] = NoJob
    BY <1>3, <2>1, RestingTyped DEF GetClaim, RangesOK
  <2>2. CASE job[w] # NoJob
    BY <1>3, <2>2 DEF GetClaim, RangesOK, SentOK, Stages, Works, Calls
  <2>3. QED  BY <2>1, <2>2
<1>4. QED  BY <1>1, <1>2, <1>3 DEF Claiming

LEMMA BeatingTyped ==
  ASSUME RangesOK, \A v \in Worker : SentOK(v), NEW w \in Worker,
         Beating(w) \/ LoseBeat(w) \/ Deadline(w)
  PROVE  RangesOK' /\ \A v \in Worker : SentOK(v)'
<1>1. UNCHANGED <<pc, work, call>> => \A v \in Worker : SentOK(v)'
  BY DEF SentOK
<1>2. \A reason \in {"deadline", "cancel"} : Closed(w, reason) \in [Worker -> Contexts]
  BY DEF Closed, RangesOK, Contexts
<1>3. SendBeat(w) \/ ServeBeat(w) \/ LoseBeat(w) => RangesOK'
  BY DEF SendBeat, ServeBeat, LoseBeat, RangesOK, process, Beats
<1>4. GetBeat(w) => RangesOK'
  BY <1>2 DEF GetBeat, RangesOK, Beats
<1>5. Deadline(w) => RangesOK'
  BY <1>2 DEF Deadline, RangesOK, wire
<1>6. UNCHANGED <<pc, work, call>>
  BY DEF Beating, SendBeat, ServeBeat, GetBeat, LoseBeat, Deadline, process, wire
<1>7. QED  BY <1>1, <1>3, <1>4, <1>5, <1>6 DEF Beating

\* The agent comes to an end only while its worker is in a run.
LEMMA AgentTyped ==
  ASSUME RangesOK, \A v \in Worker : SentOK(v), NEW w \in Worker,
         AgentExits(w) \/ KillAgent(w) \/ ChildrenEnd(w)
  PROVE  RangesOK' /\ \A v \in Worker : SentOK(v)'
<1>1. UNCHANGED <<pc, job, ctx, stopped, call, beat>>
  BY DEF AgentExits, KillAgent, ChildrenEnd, wire
<1>2. Held["ok"] = "ok held" /\ Held["error"] = "error held"
  BY DEF Held
<1>3. \E end \in {"ok", "error", "ok held", "error held"} : work' = [work EXCEPT ![w] = end]
  BY <1>2 DEF AgentExits, KillAgent, ChildrenEnd, Ends
<1>4. pc[w] # "report"
  BY <1>2 DEF AgentExits, KillAgent, ChildrenEnd, SentOK, Queue!Outcome
<1>5. QED  BY <1>1, <1>3, <1>4 DEF RangesOK, SentOK, Works

LEMMA ReportTyped ==
  ASSUME RangesOK, \A v \in Worker : SentOK(v), NEW w \in Worker,
         \/ SendReport(w) \/ ServeReport(w) \/ GetReportReply(w)
         \/ LoseClaim(w) \/ LoseReport(w) \/ Crash(w)
  PROVE  RangesOK' /\ \A v \in Worker : SentOK(v)'
<1>1. SendReport(w) => RangesOK' /\ \A v \in Worker : SentOK(v)'
  BY DEF SendReport, Verdict, RangesOK, SentOK, Stages, Works, Calls, Beats, Queue!Outcome
<1>2. ServeReport(w) => RangesOK' /\ \A v \in Worker : SentOK(v)'
  BY DEF ServeReport, process, RangesOK, SentOK, Calls
<1>3. GetReportReply(w) \/ LoseClaim(w) \/ LoseReport(w) => RangesOK' /\ \A v \in Worker : SentOK(v)'
  BY RestingTyped DEF GetReportReply, LoseClaim, LoseReport, RangesOK
<1>4. ASSUME Crash(w) PROVE RangesOK' /\ \A v \in Worker : SentOK(v)'
  <2>1. beat' \in [Worker -> Beats]
    BY <1>4 DEF Crash, RangesOK, Beats
  <2>2. QED  BY <1>4, <2>1, RestingTyped DEF Crash
<1>5. QED  BY <1>1, <1>2, <1>3, <1>4

LEMMA SignalTyped ==
  ASSUME RangesOK, \A v \in Worker : SentOK(v), NEW w \in Worker, Signal(w) \/ Start(w)
  PROVE  RangesOK' /\ \A v \in Worker : SentOK(v)'
<1>1. beat' = beat
  BY DEF Signal, Start, wire
<1>2. ASSUME NEW ends, Resting(w, ends) PROVE RangesOK' /\ \A v \in Worker : SentOK(v)'
  BY <1>1, <1>2, RestingTyped DEF RangesOK
<1>3. CASE /\ stopped' = [stopped EXCEPT ![w] = TRUE]
           /\ ctx' = IF pc[w] = "run" THEN Closed(w, "cancel") ELSE ctx
           /\ UNCHANGED <<pc, job, work, call>>
  BY <1>1, <1>3 DEF Closed, RangesOK, SentOK, Contexts
<1>4. CASE Start(w)
  BY <1>1, <1>4 DEF Start, wire, RangesOK, SentOK, Stages
<1>5. QED  BY <1>2, <1>3, <1>4 DEF Signal

LEMMA RangesStep ==
  ASSUME clock \in Nat, RangesOK, \A v \in Worker : SentOK(v), [Next]_vars
  PROVE  RangesOK' /\ \A v \in Worker : SentOK(v)'
<1>1. UNCHANGED <<pc, job, work, ctx, stopped, call, beat>> => RangesOK' /\ \A v \in Worker : SentOK(v)'
  BY DEF RangesOK, SentOK
<1>2. UNCHANGED vars \/ (\E u \in User : Desk(u)) \/ (\E r \in late : ServeLate(r))
        => UNCHANGED <<pc, job, work, ctx, stopped, call, beat>>
  BY DEF vars, Desk, ServeLate, process, wire
<1>3. QED
  BY <1>1, <1>2, ClaimingTyped, BeatingTyped, AgentTyped, ReportTyped, SignalTyped
     DEF Next, Reporting, Failing

\* What is refused is the report on a run.
RefusedOK == refused \subseteq Job

LEMMA RefusedStep ==
  ASSUME RunsInv, LoopInv, LateOK, RefusedOK, [Next]_vars
  PROVE  RefusedOK'
<1>1. ASSUME NEW w \in Worker, Claiming(w) \/ Beating(w) \/ Reporting(w)
      PROVE  refused' = refused \/ (pc[w] = "report" /\ refused' = refused \union {job[w]})
  BY <1>1 DEF Claiming, SendClaim, ServeClaim, GetClaim, Beating, SendBeat, ServeBeat, GetBeat,
              Reporting, KillAgent, SendReport, ServeReport, TooLong, GetReportReply, history
<1>2. ASSUME NEW w \in Worker, pc[w] = "report" PROVE job[w] \in Job
  BY <1>2 DEF LoopInv, PlaceOK, BusyOK, RunsInv, JobsOK, RunOK
<1>3. ASSUME NEW w \in Worker,
             \/ Failing(w) \/ Deadline(w) \/ AgentExits(w) \/ ChildrenEnd(w)
             \/ Signal(w) \/ Start(w)
      PROVE  refused' = refused
  BY <1>3 DEF Failing, LoseClaim, LoseBeat, LoseReport, Crash, Deadline, AgentExits,
              ChildrenEnd, Signal, Start, history
<1>4. ASSUME NEW r \in late, ServeLate(r)
      PROVE  refused' = refused \/ (r.op = "report" /\ refused' = refused \union {r.job})
  BY <1>4 DEF ServeLate, TooLong
<1>5. ASSUME NEW r \in late, r.op = "report" PROVE r.job \in Job
  BY <1>5 DEF LateOK, Request
<1>6. CASE UNCHANGED vars \/ \E u \in User : Desk(u)
  BY <1>6 DEF vars, Desk, history, RefusedOK
<1>7. QED  BY <1>1, <1>2, <1>3, <1>4, <1>5, <1>6 DEF Next, RefusedOK

\* Every variable of the workers, of their requests and of the queue has its
\* type, with any number of faults and late requests.
THEOREM WorkerTypeCorrect == Spec => []TypeOK
<1> DEFINE Inv == /\ RunsInv /\ LoopInv /\ BeatsInv /\ CancelledOver /\ WorkersOK /\ RefusedOK
                  /\ Queue!TypeOK
<1>1. Init => BeatsInv /\ CancelledOver /\ WorkersOK /\ RefusedOK /\ Queue!TypeOK
  <2>1. Init => BeatsInv /\ CancelledOver
    BY DEF Init, BeatsInv, BeatOK, CancelledOver
  <2>2. Init => WorkersOK
    BY FaultsAssumption DEF Init, WorkersOK, RangesOK, SentOK, LateOK, Stages, Works, Contexts, Calls, Beats
  <2>3. Init => Queue!TypeOK
    BY DEF Init, Queue!Init, Queue!TypeOK
  <2>4. Init => RefusedOK
    BY DEF Init, RefusedOK
  <2>5. QED  BY <2>1, <2>2, <2>3, <2>4
<1>2. Inv /\ [Next]_vars => (BeatsInv /\ CancelledOver /\ WorkersOK /\ RefusedOK /\ Queue!TypeOK)'
  <2>1. SUFFICES ASSUME RunsInv, LoopInv, BeatsInv, CancelledOver, WorkersOK, RefusedOK,
                        Queue!TypeOK, [Next]_vars
                 PROVE  (BeatsInv /\ CancelledOver /\ WorkersOK /\ RefusedOK /\ Queue!TypeOK)'
    OBVIOUS
  <2>2. BeatsInv' /\ CancelledOver' /\ LateOK'
    BY <2>1, BeatsStep, CancelledOverStep, LateStep
  <2>3. Queue!TypeOK' /\ RangesOK' /\ \A v \in Worker : SentOK(v)'
    BY <2>1, TableTyped, RangesStep DEF WorkersOK, Queue!TypeOK
  <2>4. RefusedOK'
    BY <2>1, RefusedStep DEF WorkersOK
  <2>5. QED  BY <2>2, <2>3, <2>4 DEF WorkersOK
<1>3. Inv => TypeOK
  <2>1. SUFFICES ASSUME Inv PROVE TypeOK
    OBVIOUS
  <2>2. cancelled \subseteq Job /\ requeued \subseteq Job /\ refused \subseteq Job
    BY <2>1 DEF CancelledOver, RunsInv, OldRuns, RunOK, RefusedOK
  <2>3. QED
    BY <2>1, <2>2 DEF TypeOK, WorkersOK, RangesOK, LateOK, Stages, Works, Contexts, Calls, Beats
<1>4. Spec => []Inv
  BY <1>1, <1>2, RunsInvariant, LoopInvariant, PTL DEF Spec
<1>5. QED  BY <1>3, <1>4, PTL
=============================================================================
