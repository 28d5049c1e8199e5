--------------------------- MODULE TaskLifecycle ---------------------------
(***************************************************************************)
(* What the task queue of internal/store/tasks.go promises to those who    *)
(* use it, without its columns, its stamps or the rules of who may do      *)
(* what.  A task has a status and, from the moment it is handed out until  *)
(* it is queued again, the one worker it was handed to.                    *)
(***************************************************************************)
CONSTANTS TaskId, Worker, NoWorker

VARIABLES status, worker

vars == <<status, worker>>

Init ==
  /\ status = [t \in TaskId |-> "absent"]
  /\ worker = [t \in TaskId |-> NoWorker]

\* A new task waits for a worker.
Create(t) ==
  /\ status[t] = "absent"
  /\ status' = [status EXCEPT ![t] = "queued"]
  /\ UNCHANGED worker

\* A waiting task is handed to exactly one worker.
Claim(t, w) ==
  /\ status[t] = "queued"
  /\ status' = [status EXCEPT ![t] = "running"]
  /\ worker' = [worker EXCEPT ![t] = w]

\* Only a running task gets an outcome; whom it was handed to stays known.
Finish(t, s) ==
  /\ status[t] = "running"
  /\ status' = [status EXCEPT ![t] = s]
  /\ UNCHANGED worker

Cancel(t) ==
  /\ status[t] \in {"queued", "running"}
  /\ status' = [status EXCEPT ![t] = "cancelled"]
  /\ UNCHANGED worker

\* Whatever became of a task, it may be queued again, as if never handed out.
Requeue(t) ==
  /\ status[t] \notin {"absent", "queued"}
  /\ status' = [status EXCEPT ![t] = "queued"]
  /\ worker' = [worker EXCEPT ![t] = NoWorker]

Next ==
  \E t \in TaskId :
    \/ Create(t)
    \/ \E w \in Worker : Claim(t, w)
    \/ \E s \in {"done", "failed"} : Finish(t, s)
    \/ Cancel(t)
    \/ Requeue(t)

Spec == Init /\ [][Next]_vars
============================================================================
