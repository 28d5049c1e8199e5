----------------------------- MODULE TaskQueue -----------------------------
(***************************************************************************)
(* The table of agent tasks (internal/store/tasks.go) behind its REST      *)
(* handlers (internal/httpapi/tasks.go).  Every handler is one action:     *)
(* each of them comes down to a single SQL statement or, for a claim, to   *)
(* one transaction on the only connection of the store.                    *)
(*                                                                         *)
(* A task is a row of tasks.  Prompts, titles and the text of a report are *)
(* abstracted away; what is kept of a report is who wrote it and about     *)
(* which run, since that is what the properties tell apart.  A run is the  *)
(* stretch from one claim of a task on, named by its claimed stamp.        *)
(***************************************************************************)
EXTENDS Stamps

CONSTANTS
  TaskId,    \* ids note.NewID can return
  User,      \* names tokens belong to
  Worker,    \* worker processes, by the label they send (host:directory)
  Owner,     \* the user whose token a worker holds
  Project,
  Grants,    \* the projects a user's token is scoped to (Identity.Allows)
  NoWorker,  \* the empty worker column
  NoReport,  \* the empty report column
  MaxTime    \* bound: no task is queued once the clock has reached it

ASSUME OwnerAssumption  == Owner \in [Worker -> User]
ASSUME GrantsAssumption == Grants \in [User -> SUBSET Project]
ASSUME NullAssumption   == NoWorker \notin Worker
ASSUME TimeAssumption   == MaxTime \in Nat

VARIABLES
  tasks,     \* the table: the row of each id, or Absent
  clock      \* the time of the latest stamp that must differ from all others

vars == <<tasks, clock>>

----------------------------------------------------------------------------
Absent == [status |-> "absent"]

Outcome == {"done", "failed"}

Status == {"queued", "running", "cancelled"} \union Outcome

Report == [worker : Worker, run : Nat]

ASSUME ReportAssumption == NoReport \notin Report

\* A stamp is 0 when its column is the empty string.
Row == [project   : Project,
        assignee  : User,
        status    : Status,
        report    : Report \union {NoReport},
        created   : Nat,
        claimed   : Nat,
        heartbeat : Nat,
        finished  : Nat,
        worker    : Worker \union {NoWorker}]

\* Every id is unused or holds a row of the table's types.
TypeOK ==
  /\ tasks \in [TaskId -> Row \union {Absent}]
  /\ clock \in Nat

Init ==
  /\ tasks = [t \in TaskId |-> Absent]
  /\ clock = 0

----------------------------------------------------------------------------
Exists(t) == tasks[t].status # "absent"

\* Slip: the status is one the table does not know.
NewRowPending(p, a, now) ==
  [project |-> p, assignee |-> a, status |-> "pending", report |-> NoReport,
   created |-> now, claimed |-> 0, heartbeat |-> 0, finished |-> 0,
   worker |-> NoWorker]

\* The row a new task is inserted with.
NewRow(p, a, now) ==
  [project |-> p, assignee |-> a, status |-> "queued", report |-> NoReport,
   created |-> now, claimed |-> 0, heartbeat |-> 0, finished |-> 0,
   worker |-> NoWorker]

\* taskVisible: user u reaches task t only through a grant of its project.
Visible(u, t) == Exists(t) /\ tasks[t].project \in Grants[u]

\* Slip: the assignee is not compared.
ClaimableByAnyone(u) == {t \in TaskId : /\ Exists(t)
                                        /\ tasks[t].status = "queued"
                                        /\ tasks[t].project \in Grants[u]}

\* Slip: the status is not compared.
ClaimableAgain(u) == {t \in TaskId : /\ Exists(t)
                                     /\ tasks[t].assignee = u
                                     /\ tasks[t].project \in Grants[u]}

\* The rows a claim with the token of u may pick.
Claimable(u) == {t \in TaskId : /\ Exists(t)
                                /\ tasks[t].status = "queued"
                                /\ tasks[t].assignee = u
                                /\ tasks[t].project \in Grants[u]}

\* Slip: no ORDER BY.
AnyFor(u, t) == t \in Claimable(u)

\* ORDER BY created, which compares texts; first allowed row.
FirstFor(u, t) ==
  /\ t \in Claimable(u)
  /\ \A s \in Claimable(u) : ~WrittenBefore(tasks[s].created, tasks[t].created)

\* Slip: the status is not compared.
AssignedTo(u, t) == Exists(t) /\ tasks[t].assignee = u

\* The WHERE clause of a heartbeat and of a report.
RunningFor(u, t) ==
  /\ Exists(t)
  /\ tasks[t].assignee = u
  /\ tasks[t].status = "running"

\* Slip: any task is cancelled, finished or not.
CancellableAlways(t) == Exists(t)

Cancellable(t) == tasks[t].status \in {"queued", "running"}

Requeueable(t) == tasks[t].status # "queued"

\* Slip: the time of the end stays.
RequeuedButFinished(row) ==
  [row EXCEPT !.status = "queued", !.claimed = 0, !.heartbeat = 0, !.worker = NoWorker]

\* What RequeueTask makes of a row: the report stays.
Requeued(row) ==
  [row EXCEPT !.status = "queued", !.claimed = 0, !.heartbeat = 0,
              !.finished = 0, !.worker = NoWorker]

----------------------------------------------------------------------------
\* taskCreate: user u queues a task of project p for a.  Nothing asks whether
\* a exists or is granted p.
CreateTask(u, t, p, a) ==
  /\ clock < MaxTime
  /\ ~Exists(t)
  /\ p \in Grants[u]
  /\ clock' = clock + 1
  /\ tasks' = [tasks EXCEPT ![t] = NewRow(p, a, clock + 1)]

\* taskClaim by worker w, when there is a task for it.
ClaimTask(w, t) ==
  /\ FirstFor(Owner[w], t)
  /\ clock' = clock + 1
  /\ tasks' = [tasks EXCEPT ![t].status = "running",
                            ![t].claimed = clock + 1,
                            ![t].heartbeat = clock + 1,
                            ![t].worker = w]

\* taskClaim by worker w, when there is none: 204.
ClaimNothing(w) ==
  /\ Claimable(Owner[w]) = {}
  /\ UNCHANGED vars

\* taskHeartbeat by worker w, answered continue=true.
HeartbeatTask(w, t) ==
  /\ RunningFor(Owner[w], t)
  /\ tasks' = [tasks EXCEPT ![t].heartbeat = clock]
  /\ UNCHANGED clock

\* taskReport: worker w reports outcome s of run r of task t.
FinishTask(w, t, s, r) ==
  /\ RunningFor(Owner[w], t)
  /\ s \in Outcome
  /\ tasks' = [tasks EXCEPT ![t].status = s,
                            ![t].report = [worker |-> w, run |-> r],
                            ![t].finished = clock]
  /\ UNCHANGED clock

CancelTask(u, t) ==
  /\ Visible(u, t)
  /\ Cancellable(t)
  /\ tasks' = [tasks EXCEPT ![t].status = "cancelled", ![t].finished = clock]
  /\ UNCHANGED clock

\* The clock moves although no stamp is written: that bounds the requeues.
RequeueTask(u, t) ==
  /\ clock < MaxTime
  /\ Visible(u, t)
  /\ Requeueable(t)
  /\ clock' = clock + 1
  /\ tasks' = [tasks EXCEPT ![t] = Requeued(tasks[t])]

\* One user's request at the control desk.
Desk ==
  \E u \in User, t \in TaskId :
    \/ \E p \in Project, a \in User : CreateTask(u, t, p, a)
    \/ CancelTask(u, t)
    \/ RequeueTask(u, t)

\* One worker's request.  What run a report is about is the worker's affair:
\* the request does not name it, so any earlier one is possible here.
FromWorker ==
  \E w \in Worker :
    \/ ClaimNothing(w)
    \/ \E t \in TaskId :
         \/ ClaimTask(w, t)
         \/ HeartbeatTask(w, t)
         \/ \E s \in Outcome, r \in 1 .. clock : FinishTask(w, t, s, r)

Next == Desk \/ FromWorker

Spec == Init /\ [][Next]_vars

----------------------------------------------------------------------------
\* The stamps, the worker column and the report tell the same story as the
\* status.  In particular a requeued task shows no trace of its last claim, a
\* cancelled one was claimed exactly if it names a worker, and the report a
\* running task may still show is from before its claim.
QueuedStory(row) ==
  row.claimed = 0 /\ row.heartbeat = 0 /\ row.finished = 0 /\ row.worker = NoWorker

ClaimStory(row, now) ==
  /\ row.worker # NoWorker
  /\ row.created < row.claimed
  /\ row.claimed <= row.heartbeat
  /\ row.heartbeat <= now

RunningStory(row, now) ==
  /\ ClaimStory(row, now)
  /\ row.finished = 0
  /\ row.report # NoReport => row.report.run < row.claimed

EndStory(row, now) ==
  /\ ClaimStory(row, row.finished)
  /\ row.finished <= now

CancelledStory(row, now) ==
  /\ 0 < row.finished /\ row.finished <= now
  /\ \/ row.claimed = 0 /\ row.heartbeat = 0 /\ row.worker = NoWorker
     \/ EndStory(row, now)

RowStory(row, now) ==
  /\ 0 < row.created /\ row.created <= now
  /\ row.report # NoReport => row.report.run <= now
  /\ row.status = "queued" => QueuedStory(row)
  /\ row.status = "running" => RunningStory(row, now)
  /\ row.status \in Outcome => EndStory(row, now) /\ row.report # NoReport
  /\ row.status = "cancelled" => CancelledStory(row, now)

\* The columns of every row of the table agree with its status, whatever
\* sequence of calls produced it (CreateTask to RequeueTask).
StampsMatchStatus == \A t \in TaskId : Exists(t) => RowStory(tasks[t], clock)

\* Only the assignee's workers ever touch a task: the worker named on a row
\* and the author of its report hold the assignee's token, and that token is
\* granted the project (ClaimTask's filter, FinishTask's WHERE clause).
OnlyAssigneeWorks ==
  \A t \in TaskId : Exists(t) =>
    LET row == tasks[t] IN
    /\ row.worker # NoWorker => /\ Owner[row.worker] = row.assignee
                                /\ row.project \in Grants[row.assignee]
    /\ row.report # NoReport => /\ Owner[row.report.worker] = row.assignee
                                /\ row.project \in Grants[row.assignee]

\* A claim never overtakes: when a task is handed out, every task of the same
\* assignee that was queued in an earlier second and is left waiting is one
\* its token may not see (ClaimTask: "the oldest queued task for assignee
\* (within the allowed projects)").  Among the tasks of one second the order
\* of the texts decides, and that is not always the order of time.
ClaimsInOrder ==
  \A s, t \in TaskId :
    /\ Exists(s) /\ Exists(t)
    /\ tasks[t].status = "queued" /\ tasks'[t].status = "running"
    /\ tasks[s].status = "queued" /\ tasks'[s].status = "queued"
    /\ tasks[s].assignee = tasks[t].assignee
    /\ Second(tasks[s].created) < Second(tasks[t].created)
    => tasks[s].project \notin Grants[tasks[s].assignee]

NoOvertaking == [][ClaimsInOrder]_vars

\* The table implements the abstract life of a task.
StatusOf == [t \in TaskId |-> tasks[t].status]
WorkerOf == [t \in TaskId |-> IF Exists(t) THEN tasks[t].worker ELSE NoWorker]

Lifecycle == INSTANCE TaskLifecycle WITH status <- StatusOf, worker <- WorkerOf

\* Every call moves a task the way TaskLifecycle allows, or not at all: it is
\* handed to one worker at a time, and an outcome is given to running tasks.
LifecycleSpec == Lifecycle!Spec
============================================================================
