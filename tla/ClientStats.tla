---------------------------- MODULE ClientStats ----------------------------
(***************************************************************************)
(* What the control desk tells of each client (ClientStats in              *)
(* internal/store/activity.go), while events are recorded and pruned.  It  *)
(* takes several queries: one groups the events by their user and has the  *)
(* latest id of each, then one per user fetches that event.  The counts of *)
(* a day and the times are left out.  A read fails only when the reader    *)
(* has gone away.                                                          *)
(*                                                                         *)
(* The log is ActivityLog's; added here are the users of the events and,   *)
(* as history, the inserts that no prune answers for any more.             *)
(***************************************************************************)
EXTENDS ActivityLog, Functions, Sequences

CONSTANT Caller   \* the user whose calls a handler serves

ASSUME CallerAssumption == Caller \in [Handler -> STRING]
ASSUME FinitelyMany == IsFiniteSet(Process) /\ IsFiniteSet(Handler)

VARIABLES
  user,     \* the user of each event
  latest,   \* of a call of ClientStats: the latest id of each user, ...
  todo,     \* the users whose event is still to be fetched, ...
  lasts,    \* and the events it has fetched (ClientStat.Last)
  forgone   \* history: inserts whose prune failed, or ended with its process,
            \* since the last one that was done

stats   == <<latest, todo, lasts>>
allVars == <<vars, user, stats, forgone>>

StatsInit ==
  /\ Init
  /\ user = <<>> /\ latest = <<>> /\ todo = {} /\ lasts = <<>>
  /\ forgone = 0

----------------------------------------------------------------------------
\* The inserts a prune will be made for: those that processes have counted, and
\* those that handlers are going to count or to prune for.
Counted == {o \in Process \X (1 .. Every) : o[2] <= inserts[o[1]]}

Pending ==
  {o \in Handler \X (1 .. Every) :
     stage[o[1]] = "prune" \/ (stage[o[1]] = "count" /\ o[2] = 1)}

OwedBy(p) == inserts[p] + Cardinality({o \in Pending : Home[o[1]] = p})

RecordCall(h) ==
  /\ Record(h)
  /\ user' = Append(user, Caller[h])
  /\ UNCHANGED <<stats, forgone>>

Step(h) ==
  /\ Serve(h) \/ RecordFails(h) \/ Count(h)
  /\ UNCHANGED <<user, stats, forgone>>

PruneLog(h) == Prune(h) /\ forgone' = 0 /\ UNCHANGED <<user, stats>>

MissPrune(h) == PruneFails(h) /\ forgone' = forgone + Every /\ UNCHANGED <<user, stats>>

EndProcess(p) == Restart(p) /\ forgone' = forgone + OwedBy(p) /\ UNCHANGED <<user, stats>>

----------------------------------------------------------------------------
EventsOf(u) == {i \in log : user[i] = u}

Newest(i, events) == i \in events /\ \A j \in events : j <= i

\* The query that groups by user.
Aggregate ==
  /\ todo = {}
  /\ todo' = {user[i] : i \in log}
  /\ latest' \in [todo' -> log]
  /\ \A u \in todo' : Newest(latest'[u], EventsOf(u))
  /\ lasts' = <<>>
  /\ UNCHANGED <<vars, user, forgone>>

\* Slip: the event itself is not after its id.
AfterLatest(u) == {i \in EventsOf(u) : i > latest[u]}

\* Activity, with AfterID one less than the latest id and Limit 1.
FromLatest(u) == {i \in EventsOf(u) : i > latest[u] - 1}

\* The query for the event of one user, in the order of a Go map.
FetchLast(u) ==
  /\ u \in todo
  /\ todo' = todo \ {u}
  /\ \/ FromLatest(u) = {} /\ UNCHANGED lasts
     \/ \E i \in FromLatest(u) :
          /\ Newest(i, FromLatest(u))
          /\ lasts' = [v \in DOMAIN lasts \union {u} |-> IF v = u THEN i ELSE lasts[v]]
  /\ UNCHANGED <<vars, user, latest, forgone>>

StatsNext ==
  \/ \E h \in Handler : RecordCall(h) \/ Step(h) \/ PruneLog(h) \/ MissPrune(h)
  \/ \E p \in Process : EndProcess(p)
  \/ Aggregate
  \/ \E u \in Range(Caller) : FetchLast(u)

StatsSpec == StatsInit /\ [][StatsNext]_allVars

----------------------------------------------------------------------------
\* The event shown for a client is its own and not older than what the first
\* query saw; and where none is shown, prunes took it in the meantime, and
\* MaxRows events came after it.
LastTold ==
  \A u \in DOMAIN latest \ todo :
    IF u \in DOMAIN lasts
    THEN lasts[u] >= latest[u] /\ user[lasts[u]] = u
    ELSE latest[u] + MaxRows <= last

\* "The log is capped": what it has above the cap are inserts a prune is owed
\* for by a process that runs, or whose prune was forgone: by a failure, or by
\* a process that ended first, as every short session of "openmind mcp" does.
LogGrowth ==
  Cardinality(log) <= MaxRows + forgone + Cardinality(Counted) + Cardinality(Pending)
=============================================================================
