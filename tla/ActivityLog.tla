---------------------------- MODULE ActivityLog ----------------------------
(***************************************************************************)
(* The activity log (internal/store/activity.go).  A call that is to be    *)
(* recorded adds an event to a table that all processes share; and each    *)
(* process counts, in memory, the events it has added, to prune the table  *)
(* every now and then.  Calls whose handlers add no event are left out.    *)
(*                                                                         *)
(* An event is its id.  SQLite gives out ids in the order of the inserts   *)
(* (AUTOINCREMENT), and since an insert is one statement, events also      *)
(* appear to readers in that order.                                        *)
(***************************************************************************)
EXTENDS Naturals, FiniteSets

CONSTANTS
  Handler,   \* goroutines and commands that serve calls
  Process,
  Home,      \* the process of a handler
  MaxRows,   \* maxActivityRows
  Every,     \* how many inserts of a process make it prune
  Restarts,  \* whether processes end while the system is used
  MaxId      \* bound: the number of events

ASSUME HomeAssumption == Home \in [Handler -> Process]
ASSUME RowsAssumption ==
  /\ MaxRows \in Nat /\ Every \in Nat \ {0} /\ MaxId \in Nat
  /\ Restarts \in BOOLEAN

VARIABLES
  log,      \* the ids in the table
  last,     \* the latest id given out
  inserts,  \* activityInserts of each process, modulo Every
  stage     \* how far a handler is

vars == <<log, last, inserts, stage>>

Init ==
  /\ log = {}
  /\ last = 0
  /\ inserts = [p \in Process |-> 0]
  /\ stage = [h \in Handler |-> "idle"]

At(h, where) == stage' = [stage EXCEPT ![h] = where]

----------------------------------------------------------------------------
Recording == {h \in Handler : stage[h] = "record"}

\* A call is served, up to the point where it is to be recorded.
Serve(h) ==
  /\ stage[h] = "idle"
  /\ last + Cardinality(Recording) < MaxId
  /\ At(h, "record")
  /\ UNCHANGED <<log, last, inserts>>

\* LogActivity: the INSERT.
Record(h) ==
  /\ stage[h] = "record"
  /\ last' = last + 1
  /\ log' = log \union {last + 1}
  /\ At(h, "count")
  /\ UNCHANGED inserts

\* It fails, because another process keeps the table locked, and nobody is told.
RecordFails(h) ==
  /\ stage[h] = "record" /\ Process # {Home[h]}
  /\ At(h, "idle")
  /\ UNCHANGED <<log, last, inserts>>

\* Slip: the remainder is compared with the interval.
DueAtEvery(n) == n = Every

\* Add(1) % 500 == 0
Due(n) == n = 0

\* Slip: the count goes on and on.
CountOn(h) ==
  LET p == Home[h]
      n == inserts[p] + 1 IN
  /\ stage[h] = "count"
  /\ inserts' = [inserts EXCEPT ![p] = n]
  /\ At(h, IF Due(n % Every) THEN "prune" ELSE "idle")
  /\ UNCHANGED <<log, last>>

\* The process counts its insert.
Count(h) ==
  LET p == Home[h]
      n == (inserts[p] + 1) % Every IN
  /\ stage[h] = "count"
  /\ inserts' = [inserts EXCEPT ![p] = n]
  /\ At(h, IF Due(n) THEN "prune" ELSE "idle")
  /\ UNCHANGED <<log, last>>

\* Slip: one row too many goes.
ExpiredEarly(i) == i + MaxRows <= last + 1

\* The rows that DELETE removes.  The latest row is never removed, so that
\* MAX(id) is the latest id.
Expired(i) == i + MaxRows <= last

Prune(h) ==
  /\ stage[h] = "prune"
  /\ log' = {i \in log : ~Expired(i)}
  /\ At(h, "idle")
  /\ UNCHANGED <<last, inserts>>

\* It fails in the same way.
PruneFails(h) ==
  /\ stage[h] = "prune" /\ Process # {Home[h]}
  /\ At(h, "idle")
  /\ UNCHANGED <<log, last, inserts>>

\* A process ends, whatever it is doing, and another one like it is started: a
\* session of "openmind mcp" is over, or the server is restarted.
Restart(p) ==
  /\ Restarts
  /\ inserts' = [inserts EXCEPT ![p] = 0]
  /\ stage' = [h \in Handler |-> IF Home[h] = p THEN "idle" ELSE stage[h]]
  /\ UNCHANGED <<log, last>>

Next ==
  \/ \E h \in Handler :
       \/ Serve(h) \/ Record(h) \/ RecordFails(h)
       \/ Count(h) \/ Prune(h) \/ PruneFails(h)
  \/ \E p \in Process : Restart(p)

Spec == Init /\ [][Next]_vars

----------------------------------------------------------------------------
\* Every variable has its type.
TypeOK ==
  /\ log \subseteq 1 .. last /\ last \in Nat
  /\ inserts \in [Process -> 0 .. Every - 1]
  /\ stage \in [Handler -> {"idle", "record", "count", "prune"}]

\* However the prunes of several processes meet, an event stays in the log
\* until there are MaxRows newer ones.
NewestKept == \A i \in 1 .. last : last < i + MaxRows => i \in log
=============================================================================
