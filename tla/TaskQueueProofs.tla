-------------------------- MODULE TaskQueueProofs --------------------------
(***************************************************************************)
(* What holds of the task table for every number of tasks, users, workers  *)
(* and projects and for every length of time.                              *)
(***************************************************************************)
EXTENDS TaskQueue, TLAPS

\* A row that is in use has the columns of Row.
LEMMA ExistingRow ==
  ASSUME TypeOK, NEW t \in TaskId, Exists(t)
  PROVE  tasks[t] \in Row
BY DEF TypeOK, Exists, Absent

\* The grants of a user are projects, the owner of a worker is a user.
LEMMA GrantsAndOwners ==
  /\ \A u \in User : Grants[u] \subseteq Project
  /\ \A w \in Worker : Owner[w] \in User
BY GrantsAssumption, OwnerAssumption

\* Putting a row in the table keeps its types.
LEMMA PutRow ==
  ASSUME TypeOK, NEW t \in TaskId, NEW row \in Row,
         clock' \in Nat, tasks' = [tasks EXCEPT ![t] = row]
  PROVE  TypeOK'
BY DEF TypeOK

----------------------------------------------------------------------------
(***************************************************************************)
(* The row each action leaves behind.  The lemmas below are all that the   *)
(* proofs need to know of the actions: which row changed and from what.    *)
(***************************************************************************)
ClaimedRow(row, w, now) ==
  [row EXCEPT !.status = "running", !.claimed = now, !.heartbeat = now, !.worker = w]

BeatRow(row, now) == [row EXCEPT !.heartbeat = now]

FinishedRow(row, w, s, r, now) ==
  [row EXCEPT !.status = s, !.report = [worker |-> w, run |-> r], !.finished = now]

CancelledRow(row, now) == [row EXCEPT !.status = "cancelled", !.finished = now]

\* A step replaces the row of one task, and says which.
Replace(t, row) == tasks' = [tasks EXCEPT ![t] = row]

LEMMA CreateRow ==
  ASSUME TypeOK, NEW t \in TaskId, NEW u \in User, NEW p \in Project, NEW a \in User,
         CreateTask(u, t, p, a)
  PROVE  /\ clock' = clock + 1 /\ ~Exists(t)
         /\ NewRow(p, a, clock + 1) \in Row
         /\ Replace(t, NewRow(p, a, clock + 1))
BY DEF CreateTask, NewRow, Row, Status, TypeOK, Replace

LEMMA ClaimRow ==
  ASSUME TypeOK, NEW t \in TaskId, NEW w \in Worker, ClaimTask(w, t)
  PROVE  /\ clock' = clock + 1 /\ tasks[t] \in Row
         /\ tasks[t].status = "queued"
         /\ tasks[t].assignee = Owner[w]
         /\ tasks[t].project \in Grants[Owner[w]]
         /\ ClaimedRow(tasks[t], w, clock + 1) \in Row
         /\ Replace(t, ClaimedRow(tasks[t], w, clock + 1))
<1>1. /\ Exists(t) /\ tasks[t].status = "queued" /\ clock' = clock + 1
      /\ tasks[t].assignee = Owner[w] /\ tasks[t].project \in Grants[Owner[w]]
  BY DEF ClaimTask, FirstFor, Claimable
<1>2. tasks[t] \in Row
  BY <1>1, ExistingRow
<1>3. ClaimedRow(tasks[t], w, clock + 1) \in Row
  <2>1. "running" \in Status /\ clock + 1 \in Nat
    BY DEF Status, TypeOK
  <2> QED
    BY <1>2, <2>1 DEF ClaimedRow, Row
<1>4. Replace(t, ClaimedRow(tasks[t], w, clock + 1))
  BY <1>2 DEF ClaimTask, ClaimedRow, Replace, TypeOK, Row
<1> QED
  BY <1>1, <1>2, <1>3, <1>4

LEMMA BeatenRow ==
  ASSUME TypeOK, NEW t \in TaskId, NEW w \in Worker, HeartbeatTask(w, t)
  PROVE  /\ clock' = clock /\ tasks[t] \in Row
         /\ tasks[t].status = "running"
         /\ BeatRow(tasks[t], clock) \in Row
         /\ Replace(t, BeatRow(tasks[t], clock))
<1>1. Exists(t) /\ tasks[t].status = "running" /\ clock' = clock
  BY DEF HeartbeatTask, RunningFor
<1>2. tasks[t] \in Row
  BY <1>1, ExistingRow
<1>3. BeatRow(tasks[t], clock) \in Row
  BY <1>2 DEF BeatRow, Row, Status, TypeOK
<1>4. Replace(t, BeatRow(tasks[t], clock))
  BY <1>2 DEF HeartbeatTask, BeatRow, Replace, TypeOK, Row
<1> QED
  BY <1>1, <1>2, <1>3, <1>4

LEMMA FinishRow ==
  ASSUME TypeOK, NEW t \in TaskId, NEW w \in Worker, NEW s \in Outcome,
         NEW r \in 1 .. clock, FinishTask(w, t, s, r)
  PROVE  /\ clock' = clock /\ tasks[t] \in Row
         /\ tasks[t].status = "running"
         /\ tasks[t].assignee = Owner[w]
         /\ FinishedRow(tasks[t], w, s, r, clock) \in Row
         /\ Replace(t, FinishedRow(tasks[t], w, s, r, clock))
<1>1. /\ Exists(t) /\ tasks[t].status = "running" /\ clock' = clock
      /\ tasks[t].assignee = Owner[w]
  BY DEF FinishTask, RunningFor
<1>2. tasks[t] \in Row
  BY <1>1, ExistingRow
<1>3. FinishedRow(tasks[t], w, s, r, clock) \in Row
  <2>1. s \in Status /\ [worker |-> w, run |-> r] \in Report /\ clock \in Nat
    BY DEF Status, Report, TypeOK
  <2> QED
    BY <1>2, <2>1 DEF FinishedRow, Row
<1>4. Replace(t, FinishedRow(tasks[t], w, s, r, clock))
  BY <1>2 DEF FinishTask, FinishedRow, Replace, TypeOK, Row
<1> QED
  BY <1>1, <1>2, <1>3, <1>4

LEMMA CancelRow ==
  ASSUME TypeOK, NEW t \in TaskId, NEW u \in User, CancelTask(u, t)
  PROVE  /\ clock' = clock /\ tasks[t] \in Row
         /\ tasks[t].status \in {"queued", "running"}
         /\ CancelledRow(tasks[t], clock) \in Row
         /\ Replace(t, CancelledRow(tasks[t], clock))
<1>1. Exists(t) /\ tasks[t].status \in {"queued", "running"} /\ clock' = clock
  BY DEF CancelTask, Visible, Cancellable
<1>2. tasks[t] \in Row
  BY <1>1, ExistingRow
<1>3. CancelledRow(tasks[t], clock) \in Row
  BY <1>2 DEF CancelledRow, Row, Status, TypeOK
<1>4. Replace(t, CancelledRow(tasks[t], clock))
  BY <1>2 DEF CancelTask, CancelledRow, Replace, TypeOK, Row
<1> QED
  BY <1>1, <1>2, <1>3, <1>4

LEMMA RequeueRow ==
  ASSUME TypeOK, NEW t \in TaskId, NEW u \in User, RequeueTask(u, t)
  PROVE  /\ clock' = clock + 1 /\ tasks[t] \in Row
         /\ tasks[t].status # "queued"
         /\ Requeued(tasks[t]) \in Row
         /\ Replace(t, Requeued(tasks[t]))
<1>1. Exists(t) /\ tasks[t].status # "queued" /\ clock' = clock + 1
  BY DEF RequeueTask, Visible, Requeueable
<1>2. tasks[t] \in Row
  BY <1>1, ExistingRow
<1>3. Requeued(tasks[t]) \in Row
  BY <1>2 DEF Requeued, Row, Status
<1>4. Replace(t, Requeued(tasks[t]))
  BY DEF RequeueTask, Replace
<1> QED
  BY <1>1, <1>2, <1>3, <1>4
----------------------------------------------------------------------------
LEMMA InitType == Init => TypeOK
BY DEF Init, TypeOK

\* A step keeps the types of the table.
LEMMA NextType == TypeOK /\ [Next]_vars => TypeOK'
<1> SUFFICES ASSUME TypeOK, [Next]_vars PROVE TypeOK'
  OBVIOUS
<1> clock + 1 \in Nat /\ clock \in Nat
  BY DEF TypeOK
<1>1. ASSUME NEW u \in User, NEW t \in TaskId, NEW p \in Project, NEW a \in User,
             CreateTask(u, t, p, a)
      PROVE  TypeOK'
  BY <1>1, CreateRow, PutRow DEF Replace
<1>2. ASSUME NEW u \in User, NEW t \in TaskId, CancelTask(u, t)
      PROVE  TypeOK'
  BY <1>2, CancelRow, PutRow DEF Replace
<1>3. ASSUME NEW u \in User, NEW t \in TaskId, RequeueTask(u, t)
      PROVE  TypeOK'
  BY <1>3, RequeueRow, PutRow DEF Replace
<1>4. ASSUME NEW w \in Worker, NEW t \in TaskId, ClaimTask(w, t)
      PROVE  TypeOK'
  BY <1>4, ClaimRow, PutRow DEF Replace
<1>5. ASSUME NEW w \in Worker, NEW t \in TaskId, HeartbeatTask(w, t)
      PROVE  TypeOK'
  BY <1>5, BeatenRow, PutRow DEF Replace
<1>6. ASSUME NEW w \in Worker, NEW t \in TaskId, NEW s \in Outcome, NEW r \in 1 .. clock,
             FinishTask(w, t, s, r)
      PROVE  TypeOK'
  BY <1>6, FinishRow, PutRow DEF Replace
<1>7. ASSUME NEW w \in Worker, ClaimNothing(w)
      PROVE  TypeOK'
  BY <1>7 DEF ClaimNothing, vars, TypeOK
<1>8. CASE UNCHANGED vars
  BY <1>8 DEF vars, TypeOK
<1> QED
  BY <1>1, <1>2, <1>3, <1>4, <1>5, <1>6, <1>7, <1>8 DEF Next, Desk, FromWorker

\* Every id is unused or holds a row of the table's types, whatever the calls
\* (CreateTask to RequeueTask) and their order.
THEOREM TypeCorrect == Spec => []TypeOK
<1>1. Init => TypeOK
  BY InitType
<1>2. TypeOK /\ [Next]_vars => TypeOK'
  BY NextType
<1> QED
  BY <1>1, <1>2, PTL DEF Spec

----------------------------------------------------------------------------
(***************************************************************************)
(* StampsMatchStatus is inductive together with the types: each action     *)
(* writes the columns of one row so that the story of its new status       *)
(* follows from that of the old one, and the stories of the other rows     *)
(* only speak of stamps that are not in the future.                        *)
(***************************************************************************)

\* The story of a row as of now is its story as of any later time.
LEMMA StoryKept ==
  ASSUME NEW row \in Row, NEW now \in Nat, NEW later \in Nat, now <= later,
         RowStory(row, now)
  PROVE  RowStory(row, later)
BY DEF RowStory, ClaimStory, RunningStory, EndStory, CancelledStory, Row, Report

LEMMA NewStory ==
  ASSUME NEW p \in Project, NEW a \in User, NEW now \in Nat
  PROVE  RowStory(NewRow(p, a, now + 1), now + 1)
BY DEF RowStory, NewRow, QueuedStory, Outcome

LEMMA ClaimedStory ==
  ASSUME NEW row \in Row, NEW now \in Nat, NEW w \in Worker,
         row.status = "queued", RowStory(row, now)
  PROVE  RowStory(ClaimedRow(row, w, now + 1), now + 1)
<1> DEFINE new == ClaimedRow(row, w, now + 1)
<1>1. /\ new.status = "running" /\ new.worker = w /\ new.finished = row.finished
      /\ new.claimed = now + 1 /\ new.heartbeat = now + 1
      /\ new.created = row.created /\ new.report = row.report
  BY DEF ClaimedRow, Row
<1>2. /\ 0 < row.created /\ row.created <= now /\ row.finished = 0
      /\ row.report # NoReport => row.report.run <= now
      /\ row.created \in Nat
      /\ row.report # NoReport => row.report.run \in Nat
  BY DEF RowStory, QueuedStory, Row, Report
<1> HIDE DEF new
<1>3. RunningStory(new, now + 1)
  BY <1>1, <1>2, NullAssumption DEF RunningStory, ClaimStory
<1>4. RowStory(new, now + 1)
  BY <1>1, <1>2, <1>3 DEF RowStory, Outcome
<1> QED
  BY <1>4 DEF new

LEMMA BeatenStory ==
  ASSUME NEW row \in Row, NEW now \in Nat, row.status = "running", RowStory(row, now)
  PROVE  RowStory(BeatRow(row, now), now)
BY ReportAssumption
   DEF RowStory, BeatRow, RunningStory, ClaimStory, Row, Report, Outcome

LEMMA FinishedStory ==
  ASSUME NEW row \in Row, NEW now \in Nat, NEW w \in Worker, NEW s \in Outcome,
         NEW r \in 1 .. now, row.status = "running", RowStory(row, now)
  PROVE  RowStory(FinishedRow(row, w, s, r, now), now)
BY ReportAssumption
   DEF RowStory, FinishedRow, RunningStory, ClaimStory, EndStory, Row, Report, Outcome

LEMMA CancelStory ==
  ASSUME NEW row \in Row, NEW now \in Nat,
         row.status \in {"queued", "running"}, RowStory(row, now)
  PROVE  RowStory(CancelledRow(row, now), now)
BY DEF RowStory, CancelledRow, QueuedStory, RunningStory, ClaimStory, EndStory,
       CancelledStory, Row, Report, Outcome

LEMMA RequeuedStory ==
  ASSUME NEW row \in Row, NEW now \in Nat, RowStory(row, now)
  PROVE  RowStory(Requeued(row), now)
BY DEF RowStory, Requeued, QueuedStory, Row, Report, Outcome

\* Putting a row with the right story in the table keeps all the stories.
LEMMA PutStory ==
  ASSUME TypeOK, StampsMatchStatus, clock' \in Nat, clock <= clock',
         NEW t \in TaskId, NEW row \in Row, tasks' = [tasks EXCEPT ![t] = row],
         RowStory(row, clock')
  PROVE  StampsMatchStatus'
<1> SUFFICES ASSUME NEW s \in TaskId, Exists(s)'
             PROVE  RowStory(tasks'[s], clock')
  BY DEF StampsMatchStatus
<1>1. CASE s = t
  BY <1>1 DEF TypeOK
<1>2. CASE s # t
  <2>1. tasks'[s] = tasks[s] /\ Exists(s)
    BY <1>2 DEF TypeOK, Exists
  <2>2. tasks[s] \in Row /\ RowStory(tasks[s], clock)
    BY <2>1, ExistingRow DEF StampsMatchStatus
  <2> QED
    BY <2>1, <2>2, StoryKept DEF TypeOK
<1> QED
  BY <1>1, <1>2

LEMMA InitStamps == Init => StampsMatchStatus
BY DEF Init, StampsMatchStatus, Exists, Absent

\* A step keeps the stories of all rows.
LEMMA NextStamps ==
  TypeOK /\ StampsMatchStatus /\ [Next]_vars => StampsMatchStatus'
<1> SUFFICES ASSUME TypeOK, StampsMatchStatus, [Next]_vars PROVE StampsMatchStatus'
  OBVIOUS
<1>0. /\ clock \in Nat /\ clock + 1 \in Nat /\ clock <= clock /\ clock <= clock + 1
      /\ \A t \in TaskId : tasks[t] \in Row => RowStory(tasks[t], clock)
  BY DEF TypeOK, StampsMatchStatus, Row, Status, Outcome, Exists
<1>1. ASSUME NEW u \in User, NEW t \in TaskId, NEW p \in Project, NEW a \in User,
             CreateTask(u, t, p, a)
      PROVE  StampsMatchStatus'
  BY <1>0, <1>1, CreateRow, NewStory, PutStory DEF Replace
<1>2. ASSUME NEW u \in User, NEW t \in TaskId, CancelTask(u, t)
      PROVE  StampsMatchStatus'
  BY <1>0, <1>2, CancelRow, CancelStory, PutStory DEF Replace
<1>3. ASSUME NEW u \in User, NEW t \in TaskId, RequeueTask(u, t)
      PROVE  StampsMatchStatus'
  <2>1. RowStory(Requeued(tasks[t]), clock)
    BY <1>0, <1>3, RequeueRow, RequeuedStory
  <2>2. RowStory(Requeued(tasks[t]), clock + 1)
    BY <2>1, <1>0, <1>3, RequeueRow, StoryKept
  <2> QED
    BY <2>2, <1>0, <1>3, RequeueRow, PutStory DEF Replace
<1>4. ASSUME NEW w \in Worker, NEW t \in TaskId, ClaimTask(w, t)
      PROVE  StampsMatchStatus'
  BY <1>0, <1>4, ClaimRow, ClaimedStory, PutStory DEF Replace
<1>5. ASSUME NEW w \in Worker, NEW t \in TaskId, HeartbeatTask(w, t)
      PROVE  StampsMatchStatus'
  BY <1>0, <1>5, BeatenRow, BeatenStory, PutStory DEF Replace
<1>6. ASSUME NEW w \in Worker, NEW t \in TaskId, NEW s \in Outcome, NEW r \in 1 .. clock,
             FinishTask(w, t, s, r)
      PROVE  StampsMatchStatus'
  BY <1>0, <1>6, FinishRow, FinishedStory, PutStory DEF Replace
<1>7. ASSUME NEW w \in Worker, ClaimNothing(w)
      PROVE  StampsMatchStatus'
  BY <1>7 DEF ClaimNothing, vars, StampsMatchStatus, Exists
<1>8. CASE UNCHANGED vars
  BY <1>8 DEF vars, StampsMatchStatus, Exists
<1> QED
  BY <1>1, <1>2, <1>3, <1>4, <1>5, <1>6, <1>7, <1>8 DEF Next, Desk, FromWorker

\* The columns of every row agree with its status, whatever the calls.
THEOREM StampsCorrect == Spec => []StampsMatchStatus
<1>1. Init => TypeOK /\ StampsMatchStatus
  BY InitType, InitStamps
<1>2. TypeOK /\ StampsMatchStatus /\ [Next]_vars => TypeOK' /\ StampsMatchStatus'
  BY NextType, NextStamps
<1> QED
  BY <1>1, <1>2, PTL DEF Spec

----------------------------------------------------------------------------
(***************************************************************************)
(* OnlyAssigneeWorks needs the stamps: that a report is from a worker      *)
(* entitled to the project follows from the row being running, hence       *)
(* claimed, hence naming a worker that was.                                *)
(***************************************************************************)
Entitled(row) ==
  /\ row.worker # NoWorker => /\ Owner[row.worker] = row.assignee
                              /\ row.project \in Grants[row.assignee]
  /\ row.report # NoReport => /\ Owner[row.report.worker] = row.assignee
                              /\ row.project \in Grants[row.assignee]

LEMMA OnlyAssigneeByRow ==
  OnlyAssigneeWorks <=> \A t \in TaskId : Exists(t) => Entitled(tasks[t])
BY DEF OnlyAssigneeWorks, Entitled

\* Putting an entitled row in the table keeps all rows entitled.
LEMMA PutEntitled ==
  ASSUME TypeOK, OnlyAssigneeWorks, NEW t \in TaskId, NEW row \in Row,
         tasks' = [tasks EXCEPT ![t] = row], Entitled(row)
  PROVE  OnlyAssigneeWorks'
<1> SUFFICES ASSUME NEW s \in TaskId, Exists(s)' PROVE Entitled(tasks'[s])
  BY DEF OnlyAssigneeWorks, Entitled
<1>1. CASE s = t
  BY <1>1 DEF TypeOK
<1>2. CASE s # t
  BY <1>2, OnlyAssigneeByRow DEF TypeOK, Exists
<1> QED
  BY <1>1, <1>2

LEMMA InitEntitled == Init => OnlyAssigneeWorks
BY DEF Init, OnlyAssigneeWorks, Exists, Absent

\* A step keeps all rows entitled.
LEMMA NextEntitled ==
  TypeOK /\ StampsMatchStatus /\ OnlyAssigneeWorks /\ [Next]_vars => OnlyAssigneeWorks'
<1> SUFFICES ASSUME TypeOK, StampsMatchStatus, OnlyAssigneeWorks, [Next]_vars
             PROVE  OnlyAssigneeWorks'
  OBVIOUS
<1>0. \A t \in TaskId : tasks[t] \in Row =>
        /\ Entitled(tasks[t])
        /\ tasks[t].status = "running" => tasks[t].worker # NoWorker
  BY OnlyAssigneeByRow
     DEF StampsMatchStatus, RowStory, RunningStory, ClaimStory, Row, Status, Outcome, Exists
<1>1. ASSUME NEW u \in User, NEW t \in TaskId, NEW p \in Project, NEW a \in User,
             CreateTask(u, t, p, a)
      PROVE  OnlyAssigneeWorks'
  <2>1. Entitled(NewRow(p, a, clock + 1))
    BY DEF Entitled, NewRow
  <2> QED
    BY <1>1, <2>1, CreateRow, PutEntitled DEF Replace
<1>2. ASSUME NEW u \in User, NEW t \in TaskId, CancelTask(u, t)
      PROVE  OnlyAssigneeWorks'
  <2>1. Entitled(CancelledRow(tasks[t], clock))
    BY <1>0, <1>2, CancelRow DEF Entitled, CancelledRow, Row
  <2> QED
    BY <1>2, <2>1, CancelRow, PutEntitled DEF Replace
<1>3. ASSUME NEW u \in User, NEW t \in TaskId, RequeueTask(u, t)
      PROVE  OnlyAssigneeWorks'
  <2>1. Entitled(Requeued(tasks[t]))
    BY <1>0, <1>3, RequeueRow DEF Entitled, Requeued, Row
  <2> QED
    BY <1>3, <2>1, RequeueRow, PutEntitled DEF Replace
<1>4. ASSUME NEW w \in Worker, NEW t \in TaskId, ClaimTask(w, t)
      PROVE  OnlyAssigneeWorks'
  <2>1. Entitled(ClaimedRow(tasks[t], w, clock + 1))
    BY <1>0, <1>4, ClaimRow DEF Entitled, ClaimedRow, Row
  <2> QED
    BY <1>4, <2>1, ClaimRow, PutEntitled DEF Replace
<1>5. ASSUME NEW w \in Worker, NEW t \in TaskId, HeartbeatTask(w, t)
      PROVE  OnlyAssigneeWorks'
  <2>1. Entitled(BeatRow(tasks[t], clock))
    BY <1>0, <1>5, BeatenRow DEF Entitled, BeatRow, Row
  <2> QED
    BY <1>5, <2>1, BeatenRow, PutEntitled DEF Replace
<1>6. ASSUME NEW w \in Worker, NEW t \in TaskId, NEW s \in Outcome, NEW r \in 1 .. clock,
             FinishTask(w, t, s, r)
      PROVE  OnlyAssigneeWorks'
  <2>1. /\ tasks[t].worker # NoWorker /\ Entitled(tasks[t])
        /\ tasks[t].assignee = Owner[w] /\ tasks[t] \in Row
    BY <1>0, <1>6, FinishRow
  <2>2. Entitled(FinishedRow(tasks[t], w, s, r, clock))
    BY <2>1 DEF Entitled, FinishedRow, Row
  <2> QED
    BY <1>6, <2>2, FinishRow, PutEntitled DEF Replace
<1>7. ASSUME NEW w \in Worker, ClaimNothing(w)
      PROVE  OnlyAssigneeWorks'
  BY <1>7 DEF ClaimNothing, vars, OnlyAssigneeWorks, Exists
<1>8. CASE UNCHANGED vars
  BY <1>8 DEF vars, OnlyAssigneeWorks, Exists
<1> QED
  BY <1>1, <1>2, <1>3, <1>4, <1>5, <1>6, <1>7, <1>8 DEF Next, Desk, FromWorker

\* The worker and the reporter of a task always hold its assignee's token,
\* and that token is granted the project.
THEOREM AssigneeCorrect == Spec => []OnlyAssigneeWorks
<1>1. Init => TypeOK /\ StampsMatchStatus /\ OnlyAssigneeWorks
  BY InitType, InitStamps, InitEntitled
<1>2. TypeOK /\ StampsMatchStatus /\ OnlyAssigneeWorks /\ [Next]_vars
      => TypeOK' /\ StampsMatchStatus' /\ OnlyAssigneeWorks'
  BY NextType, NextStamps, NextEntitled
<1> QED
  BY <1>1, <1>2, PTL DEF Spec

----------------------------------------------------------------------------
\* The status and the worker each kind of step leaves on a row.
LEMMA StatusAndWorker ==
  ASSUME NEW row \in Row
  PROVE  /\ \A w, now : /\ ClaimedRow(row, w, now).status = "running"
                        /\ ClaimedRow(row, w, now).worker = w
         /\ \A now : /\ BeatRow(row, now).status = row.status
                     /\ BeatRow(row, now).worker = row.worker
         /\ \A w, s, r, now : /\ FinishedRow(row, w, s, r, now).status = s
                              /\ FinishedRow(row, w, s, r, now).worker = row.worker
         /\ \A now : /\ CancelledRow(row, now).status = "cancelled"
                     /\ CancelledRow(row, now).worker = row.worker
         /\ Requeued(row).status = "queued"
         /\ Requeued(row).worker = NoWorker
BY DEF Row, ClaimedRow, BeatRow, FinishedRow, CancelledRow, Requeued

\* A step replaces one row and no other.
LEMMA ReplacedOne ==
  ASSUME TypeOK, NEW t \in TaskId, NEW row, Replace(t, row)
  PROVE  /\ tasks'[t] = row
         /\ \A s \in TaskId : s # t => tasks'[s] = tasks[s]
BY DEF TypeOK, Replace

\* A step that is not a claim turns no queued task into a running one.
LEMMA OnlyClaimsStart ==
  ASSUME TypeOK, [Next]_vars, NEW t \in TaskId, Exists(t),
         tasks[t].status = "queued", tasks'[t].status = "running"
  PROVE  \E w \in Worker : ClaimTask(w, t)
<1>1. ASSUME NEW u \in User, NEW s \in TaskId, NEW p \in Project, NEW a \in User,
             CreateTask(u, s, p, a)
      PROVE  FALSE
  BY <1>1, CreateRow, ReplacedOne DEF NewRow
<1>2. ASSUME NEW u \in User, NEW s \in TaskId, CancelTask(u, s)
      PROVE  FALSE
  <2>1. tasks[s] \in Row /\ Replace(s, CancelledRow(tasks[s], clock))
    BY <1>2, CancelRow
  <2>2. tasks'[s].status = "cancelled" /\ \A x \in TaskId : x # s => tasks'[x] = tasks[x]
    BY <2>1, ReplacedOne, StatusAndWorker
  <2> QED
    BY <2>2
<1>3. ASSUME NEW u \in User, NEW s \in TaskId, RequeueTask(u, s)
      PROVE  FALSE
  BY <1>3, RequeueRow, ReplacedOne, StatusAndWorker
<1>4. ASSUME NEW w \in Worker, NEW s \in TaskId, ClaimTask(w, s)
      PROVE  s = t
  BY <1>4, ClaimRow, ReplacedOne
<1>5. ASSUME NEW w \in Worker, NEW s \in TaskId, HeartbeatTask(w, s)
      PROVE  FALSE
  BY <1>5, BeatenRow, ReplacedOne, StatusAndWorker
<1>6. ASSUME NEW w \in Worker, NEW s \in TaskId, NEW o \in Outcome, NEW r \in 1 .. clock,
             FinishTask(w, s, o, r)
      PROVE  FALSE
  BY <1>6, FinishRow, ReplacedOne
<1>7. ~UNCHANGED vars /\ \A w \in Worker : ~ClaimNothing(w)
  BY DEF ClaimNothing, vars
<1> QED
  BY <1>1, <1>2, <1>3, <1>4, <1>5, <1>6, <1>7 DEF Next, Desk, FromWorker

\* No claim overtakes a task of an earlier second that its token may see.
THEOREM OvertakingNever == Spec => NoOvertaking
<1>1. TypeOK /\ [Next]_vars => [ClaimsInOrder]_vars
  <2> SUFFICES ASSUME TypeOK, [Next]_vars, NEW s \in TaskId, NEW t \in TaskId,
                      Exists(s), Exists(t),
                      tasks[t].status = "queued", tasks'[t].status = "running",
                      tasks[s].status = "queued",
                      tasks[s].assignee = tasks[t].assignee,
                      Second(tasks[s].created) < Second(tasks[t].created)
               PROVE  tasks[s].project \notin Grants[tasks[s].assignee]
    BY DEF ClaimsInOrder
  <2>1. PICK w \in Worker : ClaimTask(w, t)
    BY OnlyClaimsStart
  <2>2. t \in Claimable(Owner[w])
    BY <2>1 DEF ClaimTask, FirstFor
  <2>3. WrittenBefore(tasks[s].created, tasks[t].created)
    BY DEF WrittenBefore
  <2>4. s \notin Claimable(Owner[w])
    BY <2>1, <2>3 DEF ClaimTask, FirstFor
  <2> QED
    BY <2>2, <2>4 DEF Claimable
<1> QED
  BY <1>1, TypeCorrect, PTL DEF Spec, NoOvertaking

----------------------------------------------------------------------------
(***************************************************************************)
(* TaskQueue implements TaskLifecycle under the mapping StatusOf,          *)
(* WorkerOf: every action is the step of the same name, a heartbeat and an *)
(* empty claim are stutters.                                               *)
(***************************************************************************)

\* What putting a row in the table does to the abstract state.
LEMMA MapRow ==
  ASSUME TypeOK, NEW t \in TaskId, NEW row \in Row, tasks' = [tasks EXCEPT ![t] = row]
  PROVE  /\ StatusOf' = [StatusOf EXCEPT ![t] = row.status]
         /\ WorkerOf' = [WorkerOf EXCEPT ![t] = row.worker]
<1>1. /\ tasks'[t] = row /\ row.status # "absent"
      /\ \A s \in TaskId : s # t => tasks'[s] = tasks[s]
  BY DEF TypeOK, Row, Status, Outcome
<1>2. StatusOf' = [StatusOf EXCEPT ![t] = row.status]
  <2>1. \A s \in TaskId : tasks'[s].status = IF s = t THEN row.status ELSE tasks[s].status
    BY <1>1
  <2> QED
    BY <2>1 DEF StatusOf
<1>3. WorkerOf' = [WorkerOf EXCEPT ![t] = row.worker]
  <2>1. \A s \in TaskId : (IF Exists(s)' THEN tasks'[s].worker ELSE NoWorker)
          = IF s = t THEN row.worker ELSE IF Exists(s) THEN tasks[s].worker ELSE NoWorker
    BY <1>1 DEF Exists
  <2> QED
    BY <2>1 DEF WorkerOf, Exists
<1> QED
  BY <1>2, <1>3

LEMMA InitLifecycle == Init => Lifecycle!Init
BY DEF Init, Lifecycle!Init, StatusOf, WorkerOf, Exists, Absent

\* A step of the table is a step of the life of a task.
LEMMA NextLifecycle ==
  TypeOK /\ StampsMatchStatus /\ [Next]_vars => [Lifecycle!Next]_(Lifecycle!vars)
<1> SUFFICES ASSUME TypeOK, StampsMatchStatus, [Next]_vars
             PROVE  [Lifecycle!Next]_(Lifecycle!vars)
  OBVIOUS
<1>0. \A t \in TaskId : tasks[t] \in Row =>
        /\ StatusOf[t] = tasks[t].status /\ WorkerOf[t] = tasks[t].worker
        /\ tasks[t].status # "absent"
  BY DEF StatusOf, WorkerOf, Exists, Row, Status, Outcome
<1>01. /\ StatusOf \in [TaskId -> {StatusOf[t] : t \in TaskId}]
       /\ WorkerOf \in [TaskId -> {WorkerOf[t] : t \in TaskId}]
  BY DEF StatusOf, WorkerOf
<1>1. ASSUME NEW u \in User, NEW t \in TaskId, NEW p \in Project, NEW a \in User,
             CreateTask(u, t, p, a)
      PROVE  Lifecycle!Create(t)
  <2>1. StatusOf[t] = "absent" /\ WorkerOf[t] = NoWorker
    BY <1>1, CreateRow DEF StatusOf, WorkerOf, Exists
  <2>2. /\ StatusOf' = [StatusOf EXCEPT ![t] = "queued"]
        /\ WorkerOf' = [WorkerOf EXCEPT ![t] = NoWorker]
    <3>1. NewRow(p, a, clock + 1).status = "queued" /\ NewRow(p, a, clock + 1).worker = NoWorker
      BY DEF NewRow
    <3> QED
      BY <3>1, <1>1, CreateRow, MapRow DEF Replace
  <2> QED
    BY <1>01, <2>1, <2>2 DEF Lifecycle!Create
<1>2. ASSUME NEW u \in User, NEW t \in TaskId, CancelTask(u, t)
      PROVE  Lifecycle!Cancel(t)
  <2>1. /\ StatusOf' = [StatusOf EXCEPT ![t] = "cancelled"]
        /\ WorkerOf' = [WorkerOf EXCEPT ![t] = tasks[t].worker]
    BY <1>2, CancelRow, MapRow, StatusAndWorker DEF Replace
  <2> QED
    BY <1>0, <1>01, <1>2, <2>1, CancelRow DEF Lifecycle!Cancel
<1>3. ASSUME NEW u \in User, NEW t \in TaskId, RequeueTask(u, t)
      PROVE  Lifecycle!Requeue(t)
  <2>1. /\ StatusOf' = [StatusOf EXCEPT ![t] = "queued"]
        /\ WorkerOf' = [WorkerOf EXCEPT ![t] = NoWorker]
    BY <1>3, RequeueRow, MapRow, StatusAndWorker DEF Replace
  <2> QED
    BY <1>0, <1>3, <2>1, RequeueRow DEF Lifecycle!Requeue
<1>4. ASSUME NEW w \in Worker, NEW t \in TaskId, ClaimTask(w, t)
      PROVE  Lifecycle!Claim(t, w)
  <2>1. /\ StatusOf' = [StatusOf EXCEPT ![t] = "running"]
        /\ WorkerOf' = [WorkerOf EXCEPT ![t] = w]
    BY <1>4, ClaimRow, MapRow, StatusAndWorker DEF Replace
  <2> QED
    BY <1>0, <1>4, <2>1, ClaimRow DEF Lifecycle!Claim
<1>5. ASSUME NEW w \in Worker, NEW t \in TaskId, HeartbeatTask(w, t)
      PROVE  UNCHANGED Lifecycle!vars
  <2>1. /\ StatusOf' = [StatusOf EXCEPT ![t] = tasks[t].status]
        /\ WorkerOf' = [WorkerOf EXCEPT ![t] = tasks[t].worker]
    BY <1>5, BeatenRow, MapRow, StatusAndWorker DEF Replace
  <2> QED
    BY <1>0, <1>01, <1>5, <2>1, BeatenRow DEF Lifecycle!vars
<1>6. ASSUME NEW w \in Worker, NEW t \in TaskId, NEW s \in Outcome, NEW r \in 1 .. clock,
             FinishTask(w, t, s, r)
      PROVE  Lifecycle!Finish(t, s)
  <2>1. /\ StatusOf' = [StatusOf EXCEPT ![t] = s]
        /\ WorkerOf' = [WorkerOf EXCEPT ![t] = tasks[t].worker]
    BY <1>6, FinishRow, MapRow, StatusAndWorker DEF Replace
  <2> QED
    BY <1>0, <1>01, <1>6, <2>1, FinishRow DEF Lifecycle!Finish
<1>7. ASSUME NEW w \in Worker, ClaimNothing(w)
      PROVE  UNCHANGED Lifecycle!vars
  BY <1>7 DEF ClaimNothing, vars, Lifecycle!vars, StatusOf, WorkerOf, Exists
<1>8. CASE UNCHANGED vars
  BY <1>8 DEF vars, Lifecycle!vars, StatusOf, WorkerOf, Exists
<1> QED
  BY <1>1, <1>2, <1>3, <1>4, <1>5, <1>6, <1>7, <1>8
     DEF Next, Desk, FromWorker, Lifecycle!Next, Outcome

\* The table of tasks implements the abstract life of a task.
THEOREM QueueRefines == Spec => LifecycleSpec
<1>1. Init => Lifecycle!Init
  BY InitLifecycle
<1>2. TypeOK /\ StampsMatchStatus /\ [Next]_vars => [Lifecycle!Next]_(Lifecycle!vars)
  BY NextLifecycle
<1> QED
  BY <1>1, <1>2, TypeCorrect, StampsCorrect, PTL DEF Spec, LifecycleSpec, Lifecycle!Spec
============================================================================
