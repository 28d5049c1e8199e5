----------------------------- MODULE TaskWorker -----------------------------
(***************************************************************************)
(* The task queue in use: "openmind worker" processes (cmd/openmind/       *)
(* worker.go) that claim tasks over HTTP, run an agent on them, beat, and  *)
(* report; a network that can lose a request or its reply, or deliver a    *)
(* request after its sender gave it up; and users at the control desk.     *)
(*                                                                         *)
(* The server is TaskQueue: every request that is served is one of its     *)
(* actions.  A worker has at most one claim or report under way (call) and *)
(* beside it at most one heartbeat (beat), sent by its own goroutine.  A   *)
(* run is named by the claimed stamp; the worker does not know that name:  *)
(* no request carries it, the model only follows it.                       *)
(***************************************************************************)
EXTENDS Naturals

CONSTANTS
  TaskId, User, Worker, Owner, Project, Grants, NoWorker, NoReport, MaxTime, Unit,
  Once,        \* workers started with --once
  Interrupted, \* workers that may be sent SIGINT or SIGTERM
  Delays,      \* whether an abandoned request may still reach the server
  Lingering,   \* whether an agent may leave children behind
  Verbose,     \* workers whose reports may be longer than the server reads: 2 MiB
  MaxFaults,   \* bound: lost calls, delayed calls and crashes in all
  NoJob        \* what a worker has when it has no task

ASSUME OnceAssumption   == Once \union Interrupted \union Verbose \subseteq Worker
ASSUME FaultsAssumption == {Delays, Lingering} \subseteq BOOLEAN /\ MaxFaults \in Nat

VARIABLES
  tasks, clock, \* the server, see TaskQueue
  pc,           \* where the worker's loop is
  job,          \* the run handed to the worker, in the claim's reply or held
  work,         \* how far the work on it is
  ctx,          \* state of runCtx: the first reason it was done for, if any
  stopped,      \* the signal context of a busy worker is done
  call, beat,   \* where its requests are
  late,         \* requests given up by their sender and not yet served
  faults,       \* how many faults happened
  cancelled,    \* history: the runs a user cancelled
  requeued,     \* history: the runs a user took back by requeueing their task
  refused       \* history: the runs whose report was too long for the server

queue   == <<tasks, clock>>
process == <<pc, job, work, ctx, stopped>>
wire    == <<call, beat, late, faults>>
history == <<cancelled, requeued, refused>>
vars    == <<tasks, clock, pc, job, work, ctx, stopped, call, beat, late, faults,
             cancelled, requeued, refused>>

Queue == INSTANCE TaskQueue

Job == [task : TaskId, run : Nat]

ASSUME NoJobAssumption == NoJob \notin Job

Request == [id : Nat, worker : Worker, op : {"claim", "report", "beat"},
            job : Job \union {NoJob}, status : Queue!Outcome \union {"none"}]

----------------------------------------------------------------------------
Init ==
  /\ Queue!Init
  /\ pc = [w \in Worker |-> "poll"]
  /\ job = [w \in Worker |-> NoJob]
  /\ work = [w \in Worker |-> "none"]
  /\ ctx = [w \in Worker |-> "open"]
  /\ stopped = [w \in Worker |-> FALSE]
  /\ call = [w \in Worker |-> "none"]
  /\ beat = [w \in Worker |-> "none"]
  /\ late = {}
  /\ faults = 0
  /\ cancelled = {}
  /\ requeued = {}
  /\ refused = {}

\* One more fault of the network or of a machine.
Fault == faults < MaxFaults /\ faults' = faults + 1

\* A request of w given up while it was on its way may be served later on.
Delay(w, op) ==
  /\ Delays
  /\ late' = late \union
       {[id |-> faults, worker |-> w, op |-> op, job |-> job[w],
         status |-> IF op = "report" THEN work[w] ELSE "none"]}

\* w gives up what it asked: lost, or late if the server has not seen it yet.
GiveUp(w) ==
  /\ Fault
  /\ \/ UNCHANGED late
     \/ call[w] = "asked" /\ Delay(w, pc[w])
     \/ beat[w] = "asked" /\ Delay(w, "beat")

\* Slip: the loop ends after every task.
RestingOff(w, ends) ==
  /\ pc' = [pc EXCEPT ![w] = "off"]
  /\ job' = [job EXCEPT ![w] = NoJob]
  /\ work' = [work EXCEPT ![w] = "none"]
  /\ ctx' = [ctx EXCEPT ![w] = "open"]
  /\ stopped' = [stopped EXCEPT ![w] = FALSE]
  /\ call' = [call EXCEPT ![w] = "none"]

\* Where the process is when it has nothing to do any more: back in the loop,
\* which ends with --once and when the signal context is done.
Resting(w, ends) ==
  /\ pc' = [pc EXCEPT ![w] = IF ends THEN "off" ELSE "poll"]
  /\ job' = [job EXCEPT ![w] = NoJob]
  /\ work' = [work EXCEPT ![w] = "none"]
  /\ ctx' = [ctx EXCEPT ![w] = "open"]
  /\ stopped' = [stopped EXCEPT ![w] = FALSE]
  /\ call' = [call EXCEPT ![w] = "none"]

----------------------------------------------------------------------------
\* The loop asks for the next task.
SendClaim(w) ==
  /\ pc[w] = "poll"
  /\ pc' = [pc EXCEPT ![w] = "claim"]
  /\ call' = [call EXCEPT ![w] = "asked"]
  /\ UNCHANGED <<queue, job, work, ctx, stopped, beat, late, faults, history>>

\* The server hands out a task, or has none: 204.
ServeClaim(w) ==
  /\ pc[w] = "claim" /\ call[w] = "asked"
  /\ call' = [call EXCEPT ![w] = "answered"]
  /\ \/ \E t \in TaskId :
          /\ Queue!ClaimTask(w, t)
          /\ job' = [job EXCEPT ![w] = [task |-> t, run |-> clock + 1]]
     \/ Queue!ClaimNothing(w) /\ UNCHANGED job
  /\ UNCHANGED <<pc, work, ctx, stopped, beat, late, faults, history>>

\* The answer arrives: start the agent and the heartbeats, or wait.
GetClaim(w) ==
  /\ pc[w] = "claim" /\ call[w] = "answered"
  /\ \/ /\ job[w] = NoJob
        /\ Resting(w, w \in Once)
     \/ /\ job[w] # NoJob
        /\ pc' = [pc EXCEPT ![w] = "run"]
        /\ work' = [work EXCEPT ![w] = "agent"]
        /\ call' = [call EXCEPT ![w] = "none"]
        /\ UNCHANGED <<job, ctx, stopped>>
  /\ UNCHANGED <<queue, beat, late, faults, history>>

\* The claim fails for the worker, by the network or by a statement of the
\* server (500), whatever the server did: it polls again.  A reply that is cut
\* off before its body reads like no task at all.
LoseClaim(w) ==
  /\ pc[w] = "claim"
  /\ GiveUp(w)
  /\ Resting(w, FALSE) \/ (call[w] = "answered" /\ Resting(w, w \in Once))
  /\ UNCHANGED <<queue, beat, history>>

----------------------------------------------------------------------------
\* The heartbeat goroutine, until runCtx is done.
SendBeat(w) ==
  /\ pc[w] = "run" /\ ctx[w] = "open" /\ beat[w] = "none"
  /\ beat' = [beat EXCEPT ![w] = "asked"]
  /\ UNCHANGED <<queue, process, call, late, faults, history>>

\* continue=true exactly if the UPDATE hits the row.
ServeBeat(w) ==
  /\ beat[w] = "asked"
  /\ \/ /\ Queue!HeartbeatTask(w, job[w].task)
        /\ beat' = [beat EXCEPT ![w] = "yes"]
     \/ /\ ~Queue!RunningFor(Owner[w], job[w].task)
        /\ beat' = [beat EXCEPT ![w] = "no"]
        /\ UNCHANGED queue
  /\ UNCHANGED <<process, call, late, faults, history>>

\* Slips: runCtx has no time limit; continue=false is not looked at.
ClosedButNotByTime(w, reason) ==
  [ctx EXCEPT ![w] = IF ctx[w] = "open" /\ reason # "deadline" THEN reason ELSE ctx[w]]

ClosedButNotByCancel(w, reason) ==
  [ctx EXCEPT ![w] = IF ctx[w] = "open" /\ reason # "cancel" THEN reason ELSE ctx[w]]

\* What runCtx is done for is the first reason to come up.
Closed(w, reason) ==
  [ctx EXCEPT ![w] = IF ctx[w] = "open" THEN reason ELSE ctx[w]]

\* continue=false closes runCtx.
GetBeat(w) ==
  /\ beat[w] \in {"yes", "no"}
  /\ beat' = [beat EXCEPT ![w] = "none"]
  /\ ctx' = IF beat[w] = "no" THEN Closed(w, "cancel") ELSE ctx
  /\ UNCHANGED <<queue, pc, job, work, stopped, call, late, faults, history>>

\* An error of a heartbeat is ignored.
LoseBeat(w) ==
  /\ beat[w] # "none"
  /\ GiveUp(w)
  /\ beat' = [beat EXCEPT ![w] = "none"]
  /\ UNCHANGED <<queue, process, call, history>>

----------------------------------------------------------------------------
\* The time limit of the run.
Deadline(w) ==
  /\ pc[w] = "run" /\ ctx[w] = "open"
  /\ ctx' = Closed(w, "deadline")
  /\ UNCHANGED <<queue, pc, job, work, stopped, wire, history>>

Held == [ok |-> "ok held", error |-> "error held"]

\* The agent's process is over; cmd.Run returns at once, or not before the
\* children it leaves have closed its output (no WaitDelay is set).
Ends(w, end) ==
  \/ work' = [work EXCEPT ![w] = end]
  \/ Lingering /\ work' = [work EXCEPT ![w] = Held[end]]

\* The agent comes to an end by itself.
AgentExits(w) ==
  /\ pc[w] = "run" /\ work[w] = "agent"
  /\ \E end \in {"ok", "error"} : Ends(w, end)
  /\ UNCHANGED <<queue, pc, job, ctx, stopped, wire, history>>

\* CommandContext kills the agent once runCtx is done, but not its children.
KillAgent(w) ==
  /\ pc[w] = "run" /\ work[w] = "agent" /\ ctx[w] # "open"
  /\ Ends(w, "error")
  /\ UNCHANGED <<queue, pc, job, ctx, stopped, wire, history>>

\* The last of its children has closed the output.
ChildrenEnd(w) ==
  /\ \E end \in {"ok", "error"} :
       work[w] = Held[end] /\ work' = [work EXCEPT ![w] = end]
  /\ UNCHANGED <<queue, pc, job, ctx, stopped, wire, history>>

\* Slip: the reason is reported instead of the outcome.
VerdictReason(w) ==
  IF ctx[w] # "open" THEN ctx[w] ELSE IF work[w] = "ok" THEN "done" ELSE "failed"

\* The agent's own outcome counts only if runCtx is not done by now.
Verdict(w) ==
  IF ctx[w] = "open" /\ work[w] = "ok" THEN "done" ELSE "failed"

\* The status is decided, the context of the heartbeats closed with a beat
\* perhaps under way, and the report sent.
SendReport(w) ==
  /\ pc[w] = "run" /\ work[w] \in {"ok", "error"}
  /\ pc' = [pc EXCEPT ![w] = "report"]
  /\ work' = [work EXCEPT ![w] = Verdict(w)]
  /\ call' = [call EXCEPT ![w] = "asked"]
  /\ beat' = [beat EXCEPT ![w] = "none"]
  /\ \/ UNCHANGED <<late, faults>>
     \/ beat[w] = "asked" /\ Fault /\ Delay(w, "beat")
  /\ UNCHANGED <<queue, job, ctx, stopped, history>>

\* The body is longer than MaxBytesReader lets through: 400, and FinishTask is
\* not called.
TooLong(w, run) ==
  /\ w \in Verbose
  /\ refused' = refused \union {run}
  /\ UNCHANGED queue

\* The report is stored, or refused: 409, or 400 before anything is looked at.
ServeReport(w) ==
  /\ pc[w] = "report" /\ call[w] = "asked"
  /\ call' = [call EXCEPT ![w] = "answered"]
  /\ \/ Queue!FinishTask(w, job[w].task, work[w], job[w].run) /\ UNCHANGED refused
     \/ ~Queue!RunningFor(Owner[w], job[w].task) /\ UNCHANGED <<queue, refused>>
     \/ TooLong(w, job[w])
  /\ UNCHANGED <<process, beat, late, faults, cancelled, requeued>>

\* Stored or refused, the worker goes on; a refusal is printed.
GetReportReply(w) ==
  /\ pc[w] = "report" /\ call[w] = "answered"
  /\ Resting(w, w \in Once \/ stopped[w])
  /\ UNCHANGED <<queue, beat, late, faults, history>>

\* An error of the network, or of a statement of the server (500), is printed;
\* the report is not sent again.
LoseReport(w) ==
  /\ pc[w] = "report"
  /\ GiveUp(w)
  /\ Resting(w, w \in Once \/ stopped[w])
  /\ UNCHANGED <<queue, beat, history>>

----------------------------------------------------------------------------
\* Slip: a busy worker leaves without a report.
SignalLeaves(w) ==
  /\ w \in Interrupted
  /\ pc[w] # "off"
  /\ Resting(w, TRUE)
  /\ beat' = [beat EXCEPT ![w] = "none"]
  /\ UNCHANGED <<queue, late, faults, history>>

\* SIGINT or SIGTERM: an idle worker leaves, giving up a claim under way; a
\* busy one stops its agent, reports, and leaves then.
Signal(w) ==
  /\ w \in Interrupted
  /\ \/ pc[w] = "poll" /\ Resting(w, TRUE) /\ UNCHANGED <<late, faults>>
     \/ pc[w] = "claim" /\ GiveUp(w) /\ Resting(w, TRUE)
     \/ /\ pc[w] \in {"run", "report"} /\ ~stopped[w]
        /\ stopped' = [stopped EXCEPT ![w] = TRUE]
        /\ ctx' = IF pc[w] = "run" THEN Closed(w, "cancel") ELSE ctx
        /\ UNCHANGED <<pc, job, work, call, late, faults>>
  /\ UNCHANGED <<queue, beat, history>>

\* The process or its machine dies; nothing of the run is kept.
Crash(w) ==
  /\ pc[w] # "off"
  /\ GiveUp(w)
  /\ Resting(w, TRUE)
  /\ beat' = [beat EXCEPT ![w] = "none"]
  /\ UNCHANGED <<queue, history>>

\* Somebody runs "openmind worker" again.
Start(w) ==
  /\ pc[w] = "off"
  /\ pc' = [pc EXCEPT ![w] = "poll"]
  /\ UNCHANGED <<queue, job, work, ctx, stopped, wire, history>>

\* A request that nobody waits for reaches the server.
ServeLate(r) ==
  /\ late' = late \ {r}
  /\ \/ /\ \/ r.op = "claim" /\ \E t \in TaskId : Queue!ClaimTask(r.worker, t)
           \/ r.op = "claim" /\ Queue!ClaimNothing(r.worker)
           \/ r.op = "beat" /\ Queue!HeartbeatTask(r.worker, r.job.task)
           \/ r.op = "report" /\ Queue!FinishTask(r.worker, r.job.task, r.status, r.job.run)
           \/ r.op # "claim" /\ ~Queue!RunningFor(Owner[r.worker], r.job.task) /\ UNCHANGED queue
        /\ UNCHANGED refused
     \/ r.op = "report" /\ TooLong(r.worker, r.job)
  /\ UNCHANGED <<process, call, beat, faults, cancelled, requeued>>

----------------------------------------------------------------------------
\* The latest run of task t, going on or not.
CurrentRun(t) == [task |-> t, run |-> tasks[t].claimed]

\* None if it was not handed out since it was queued.
CurrentRuns(t) == IF tasks[t].claimed = 0 THEN {} ELSE {CurrentRun(t)}

Desk(u) ==
  /\ \E t \in TaskId :
       \/ /\ \E p \in Project, a \in User : Queue!CreateTask(u, t, p, a)
          /\ UNCHANGED history
       \/ /\ Queue!CancelTask(u, t)
          /\ cancelled' = cancelled \union CurrentRuns(t)
          /\ UNCHANGED <<requeued, refused>>
       \/ /\ Queue!RequeueTask(u, t)
          /\ requeued' = requeued \union CurrentRuns(t)
          /\ UNCHANGED <<cancelled, refused>>
  /\ UNCHANGED <<process, wire>>

Claiming(w)  == SendClaim(w) \/ ServeClaim(w) \/ GetClaim(w)
Beating(w)   == SendBeat(w) \/ ServeBeat(w) \/ GetBeat(w)
Reporting(w) == KillAgent(w) \/ SendReport(w) \/ ServeReport(w) \/ GetReportReply(w)
Failing(w)   == LoseClaim(w) \/ LoseBeat(w) \/ LoseReport(w) \/ Crash(w)

Next ==
  \/ \E u \in User : Desk(u)
  \/ \E w \in Worker :
       \/ Claiming(w) \/ Beating(w) \/ Reporting(w) \/ Failing(w)
       \/ Deadline(w) \/ AgentExits(w) \/ ChildrenEnd(w) \/ Signal(w) \/ Start(w)
  \/ \E r \in late : ServeLate(r)

Spec == Init /\ [][Next]_vars

\* The worker's loop, its goroutine and the server go on; requests and replies
\* arrive.  Each of the three is a sequence of steps, one enabled at a time.
\* Nobody has to use the desk or start a worker, and no agent has to come to
\* an end by itself.
Progress(w) ==
  WF_vars(Claiming(w)) /\ WF_vars(Beating(w)) /\ WF_vars(Reporting(w))

LiveSpec == Spec /\ \A w \in Worker : Progress(w)

\* Not part of it, so that no promise rests on it unawares: every run reaches
\* its time limit unless it ends before, and children that an agent has left
\* behind come to an end.
TimePasses == \A w \in Worker : WF_vars(Deadline(w)) /\ WF_vars(ChildrenEnd(w))

----------------------------------------------------------------------------
\* Every variable has its type; what a worker has fits where it is.
TypeOK ==
  /\ Queue!TypeOK
  /\ pc \in [Worker -> {"off", "poll", "claim", "run", "report"}]
  /\ job \in [Worker -> Job \union {NoJob}]
  /\ work \in [Worker -> {"none", "agent", "ok", "error", "ok held", "error held"} \union Queue!Outcome]
  /\ ctx \in [Worker -> {"open", "deadline", "cancel"}]
  /\ stopped \in [Worker -> BOOLEAN]
  /\ call \in [Worker -> {"none", "asked", "answered"}]
  /\ beat \in [Worker -> {"none", "asked", "yes", "no"}]
  /\ late \subseteq Request
  /\ faults \in 0 .. MaxFaults
  /\ cancelled \subseteq Job
  /\ requeued \subseteq Job
  /\ refused \subseteq Job

\* Two workers are on the same task, counting claim replies under way, only
\* after a user took the older run back by requeueing the task; and as long as
\* a run is the latest of its task, the row names the worker that has it
\* (ClaimTask "atomically hands the oldest queued task ... to a worker").
OneWorkerPerTask ==
  \A w \in Worker : job[w] # NoJob =>
    /\ job[w] = CurrentRun(job[w].task) => tasks[job[w].task].worker = w
    /\ \A v \in Worker \ {w} :
         job[v] # NoJob /\ job[v].task = job[w].task /\ job[w].run <= job[v].run
         => job[w] \in requeued

\* As long as no call fails and nobody crashes, a task marked running is in the
\* hands of a worker that will report on it; the one exception is a report of
\* more than 2 MiB, which the server refuses and no worker sends again: its
\* task stays marked running although nobody works on it ("a report is never
\* lost" does not hold for that one).
NoOrphanRun ==
  faults = 0 =>
    \A t \in TaskId : tasks[t].status = "running" =>
      CurrentRun(t) \in refused \/ \E w \in Worker : job[w] = CurrentRun(t)

\* A finished task shows the report of the run that its claimed and worker
\* columns describe (the desk labels the report with that worker).
ReportOfRun ==
  \A t \in TaskId : tasks[t].status \in Queue!Outcome =>
    tasks[t].report = [worker |-> tasks[t].worker, run |-> tasks[t].claimed]

\* A worker whose run was cancelled is not told to continue (HeartbeatTask
\* "reports whether it is still wanted (false once cancelled)").
CancelledIsTold ==
  [][\A w \in Worker :
       beat[w] = "asked" /\ beat'[w] = "yes" => job[w] \notin cancelled]_vars

\* A task that some worker may claim does not wait for ever, as long as time
\* passes and nothing fails.
EveryTaskIsTaken ==
  TimePasses =>
    \A u \in {Owner[w] : w \in Worker}, t \in TaskId :
      t \in Queue!Claimable(u) ~> t \notin Queue!Claimable(u) \/ faults > 0

\* A task does not stay running for ever, even if the agent would, as long as
\* time passes and nothing fails, unless the report on it was too long for the
\* server; so it is not enough that some worker will report on it
\* (NoOrphanRun), the report also has to reach the row.
EveryRunEnds ==
  TimePasses =>
    \A t \in TaskId :
      tasks[t].status = "running" ~>
        tasks[t].status # "running" \/ CurrentRun(t) \in refused \/ faults > 0

\* Cancelling a task stops the agent that works on it, time limit or not
\* ("Cancelling a task in the desk stops the agent within 15 seconds").
CancelStopsAgent ==
  \A w \in Worker :
    work[w] = "agent" /\ job[w] \in cancelled ~> work[w] # "agent"

=============================================================================
