------------------------- MODULE ActivityLogProofs -------------------------
(***************************************************************************)
(* Theorems about ActivityLog and ClientStats, for any finite number of    *)
(* processes and handlers, any users, any cap, any interval between prunes *)
(* and any number of events.                                               *)
(*                                                                         *)
(* LastTold is not inductive: that an event which is gone had MaxRows      *)
(* newer ones is NewestKept of the log, and that the event was the user's  *)
(* own is what FoundOwn keeps.                                             *)
(***************************************************************************)
EXTENDS FiniteSetTheorems, ClientStats, TLAPS

USE HomeAssumption, RowsAssumption

\* How far a handler is says which steps it may take; a step moves it on.
LEMMA StageMoves ==
  ASSUME TypeOK, NEW h \in Handler,
         NEW where \in {"idle", "record", "count", "prune"}, At(h, where)
  PROVE  stage' \in [Handler -> {"idle", "record", "count", "prune"}]
  BY DEF TypeOK, At

\* The counter of a process stays below Every.
LEMMA CountWraps ==
  ASSUME NEW n \in Nat
  PROVE  n % Every \in 0 .. Every - 1
  OBVIOUS

\* Every variable keeps its type, whatever the handlers do.
THEOREM LogTypeCorrect == Spec => []TypeOK
<1>1. Init => TypeOK
  BY DEF Init, TypeOK
<1>2. TypeOK /\ [Next]_vars => TypeOK'
  <2>1. SUFFICES ASSUME TypeOK, [Next]_vars PROVE TypeOK'
    OBVIOUS
  <2>2. CASE UNCHANGED vars
    BY <2>1, <2>2 DEF TypeOK, vars
  <2>3. ASSUME NEW h \in Handler, Serve(h) PROVE TypeOK'
    BY <2>1, <2>3, StageMoves DEF Serve, TypeOK
  <2>4. ASSUME NEW h \in Handler, Record(h) PROVE TypeOK'
    <3>1. stage' \in [Handler -> {"idle", "record", "count", "prune"}]
      BY <2>1, <2>4, StageMoves DEF Record
    <3>2. log' \subseteq 1 .. last' /\ last' \in Nat
      BY <2>1, <2>4 DEF Record, TypeOK
    <3>3. QED  BY <2>1, <2>4, <3>1, <3>2 DEF Record, TypeOK
  <2>5. ASSUME NEW h \in Handler, RecordFails(h) PROVE TypeOK'
    BY <2>1, <2>5, StageMoves DEF RecordFails, TypeOK
  <2>6. ASSUME NEW h \in Handler, Count(h) PROVE TypeOK'
    <3>1. stage' \in [Handler -> {"idle", "record", "count", "prune"}]
      BY <2>1, <2>6, StageMoves DEF Count
    <3>2. Home[h] \in Process /\ inserts[Home[h]] + 1 \in Nat
      BY <2>1 DEF TypeOK
    <3>3. inserts' \in [Process -> 0 .. Every - 1]
      BY <2>1, <2>6, <3>2, CountWraps DEF Count, TypeOK
    <3>4. QED  BY <2>1, <2>6, <3>1, <3>3 DEF Count, TypeOK
  <2>7. ASSUME NEW h \in Handler, Prune(h) PROVE TypeOK'
    BY <2>1, <2>7, StageMoves DEF Prune, TypeOK
  <2>8. ASSUME NEW h \in Handler, PruneFails(h) PROVE TypeOK'
    BY <2>1, <2>8, StageMoves DEF PruneFails, TypeOK
  <2>9. ASSUME NEW p \in Process, Restart(p) PROVE TypeOK'
    BY <2>1, <2>9 DEF Restart, TypeOK
  <2>10. QED
    BY <2>1, <2>2, <2>3, <2>4, <2>5, <2>6, <2>7, <2>8, <2>9 DEF Next
<1>3. QED  BY <1>1, <1>2, PTL DEF Spec

\* The prunes of however many processes never take an event that has fewer
\* than MaxRows newer ones (the bound of the DELETE).
THEOREM NewestKeptCorrect == Spec => []NewestKept
<1>1. Init => NewestKept
  BY DEF Init, NewestKept
<1>2. TypeOK /\ NewestKept /\ [Next]_vars => NewestKept'
  <2>1. SUFFICES ASSUME TypeOK, NewestKept, [Next]_vars PROVE NewestKept'
    OBVIOUS
  <2>2. CASE UNCHANGED <<log, last>>
    BY <2>1, <2>2 DEF NewestKept
  <2>3. ASSUME NEW h \in Handler, Record(h) PROVE NewestKept'
    <3>1. SUFFICES ASSUME NEW i \in 1 .. last', last' < i + MaxRows PROVE i \in log'
      BY DEF NewestKept
    <3>2. CASE i = last + 1
      BY <2>3, <3>2 DEF Record
    <3>3. CASE i \in 1 .. last
      BY <2>1, <2>3, <3>1, <3>3 DEF Record, NewestKept, TypeOK
    <3>4. QED  BY <2>1, <2>3, <3>1, <3>2, <3>3 DEF Record, TypeOK
  <2>4. ASSUME NEW h \in Handler, Prune(h) PROVE NewestKept'
    <3>1. SUFFICES ASSUME NEW i \in 1 .. last, last < i + MaxRows PROVE i \in log'
      BY <2>4 DEF NewestKept, Prune
    <3>2. ~Expired(i)
      BY <2>1, <3>1 DEF Expired, TypeOK
    <3>3. QED  BY <2>1, <2>4, <3>1, <3>2 DEF Prune, NewestKept
  <2>5. ASSUME NEW h \in Handler, Serve(h) PROVE UNCHANGED <<log, last>>
    BY <2>5 DEF Serve
  <2>6. ASSUME NEW h \in Handler,
               RecordFails(h) \/ Count(h) \/ PruneFails(h)
        PROVE  UNCHANGED <<log, last>>
    BY <2>6 DEF RecordFails, Count, PruneFails
  <2>7. ASSUME NEW p \in Process, Restart(p) PROVE UNCHANGED <<log, last>>
    BY <2>7 DEF Restart
  <2>8. QED
    BY <2>1, <2>2, <2>3, <2>4, <2>5, <2>6, <2>7 DEF Next, vars
<1>3. QED  BY <1>1, <1>2, LogTypeCorrect, PTL DEF Spec

----------------------------------------------------------------------------
(***************************************************************************)
(* The statistics of clients.                                              *)
(***************************************************************************)
USE CallerAssumption

\* Every step of the log with its readers is a step of the log, or none.
LEMMA StatsStepIsLogStep ==
  ASSUME [StatsNext]_allVars
  PROVE  [Next]_vars
<1>1. ASSUME NEW h \in Handler, RecordCall(h) PROVE Next
  BY <1>1 DEF RecordCall, Next
<1>2. ASSUME NEW h \in Handler, Step(h) PROVE Next
  BY <1>2 DEF Step, Next
<1>3. ASSUME NEW h \in Handler, PruneLog(h) PROVE Next
  BY <1>3 DEF PruneLog, Next
<1>4. ASSUME NEW h \in Handler, MissPrune(h) PROVE Next
  BY <1>4 DEF MissPrune, Next
<1>5. ASSUME NEW p \in Process, EndProcess(p) PROVE Next
  BY <1>5 DEF EndProcess, Next
<1>6. CASE Aggregate
  BY <1>6 DEF Aggregate
<1>7. ASSUME NEW u \in Range(Caller), FetchLast(u) PROVE UNCHANGED vars
  BY <1>7 DEF FetchLast
<1>8. CASE UNCHANGED allVars
  BY <1>8 DEF allVars
<1>9. QED  BY <1>1, <1>2, <1>3, <1>4, <1>5, <1>6, <1>7, <1>8 DEF StatsNext

\* What is proved of the log holds under its readers.
LEMMA StatsImplementLog == StatsSpec => Spec
<1>1. StatsInit => Init
  BY DEF StatsInit
<1>2. [StatsNext]_allVars => [Next]_vars
  BY StatsStepIsLogStep
<1>3. QED  BY <1>1, <1>2, PTL DEF StatsSpec, Spec

UserTypeOK  == user \in Seq(Range(Caller)) /\ Len(user) = last
TodoTypeOK  == todo \subseteq DOMAIN latest /\ DOMAIN lasts \subseteq DOMAIN latest \ todo
FoundTypeOK == latest \in [DOMAIN latest -> 1 .. last] /\ lasts \in [DOMAIN lasts -> 1 .. last]
FoundOwn    == \A u \in DOMAIN latest : user[latest[u]] = u

StatsInv == UserTypeOK /\ TodoTypeOK /\ FoundTypeOK /\ FoundOwn /\ LastTold

\* A new event changes nothing of those that were found.
LEMMA RecordKeepsStats ==
  ASSUME TypeOK, StatsInv, NEW h \in Handler, RecordCall(h)
  PROVE  StatsInv'
<1>1. last' = last + 1 /\ last \in Nat /\ user' = Append(user, Caller[h]) /\ UNCHANGED stats
  BY DEF RecordCall, Record, TypeOK
<1>2. Caller[h] \in Range(Caller)
  BY DEF Range
<1>3. UserTypeOK'
  BY <1>1, <1>2 DEF StatsInv, UserTypeOK
<1>4. \A i \in 1 .. last : user'[i] = user[i]
  BY <1>1 DEF StatsInv, UserTypeOK
<1>5. TodoTypeOK' /\ FoundTypeOK'
  BY <1>1 DEF StatsInv, TodoTypeOK, FoundTypeOK, stats
<1>6. \A u \in DOMAIN latest : latest[u] \in 1 .. last
  BY DEF StatsInv, FoundTypeOK
<1>7. \A u \in DOMAIN lasts : lasts[u] \in 1 .. last
  BY DEF StatsInv, FoundTypeOK
<1>8. FoundOwn'
  BY <1>1, <1>4, <1>6 DEF StatsInv, FoundOwn, stats
<1>9. LastTold'
  <2>1. SUFFICES ASSUME NEW u \in DOMAIN latest \ todo
                 PROVE  IF u \in DOMAIN lasts
                        THEN lasts[u] >= latest[u] /\ user'[lasts[u]] = u
                        ELSE latest[u] + MaxRows <= last + 1
    BY <1>1 DEF LastTold, stats
  <2>2. CASE u \in DOMAIN lasts
    BY <1>4, <1>7, <2>1, <2>2 DEF StatsInv, LastTold
  <2>3. CASE u \notin DOMAIN lasts
    <3>1. latest[u] + MaxRows <= last
      BY <2>1, <2>3 DEF StatsInv, LastTold
    <3>2. QED  BY <1>1, <1>6, <2>1, <2>3, <3>1, RowsAssumption
  <2>4. QED  BY <2>2, <2>3
<1>10. QED  BY <1>3, <1>5, <1>8, <1>9 DEF StatsInv

\* The first query finds for each user an event of his.
LEMMA AggregateKeepsStats ==
  ASSUME TypeOK, StatsInv, Aggregate
  PROVE  StatsInv'
<1>1. UNCHANGED <<log, last, user>> /\ log \subseteq 1 .. last
  BY DEF Aggregate, vars, TypeOK
<1>2. latest' \in [todo' -> log] /\ DOMAIN latest' = todo' /\ lasts' = <<>>
  BY DEF Aggregate
<1>3. DOMAIN lasts' = {}
  BY <1>2
<1>4. FoundTypeOK' /\ TodoTypeOK'
  <2>1. latest' \in [DOMAIN latest' -> 1 .. last]
    BY <1>1, <1>2
  <2>2. <<>> \in [DOMAIN <<>> -> 1 .. last]
    OBVIOUS
  <2>3. QED  BY <1>1, <1>2, <1>3, <2>1, <2>2 DEF FoundTypeOK, TodoTypeOK
<1>5. FoundOwn'
  BY <1>1, <1>2 DEF Aggregate, FoundOwn, Newest, EventsOf
<1>6. LastTold'
  BY <1>2 DEF LastTold
<1>7. UserTypeOK'
  BY <1>1 DEF StatsInv, UserTypeOK
<1>8. QED  BY <1>4, <1>5, <1>6, <1>7 DEF StatsInv

\* A later query finds the event, a newer one of the same user, or none, and
\* then the event has been pruned.
LEMMA FetchKeepsStats ==
  ASSUME TypeOK, NewestKept, StatsInv, NEW u \in Range(Caller), FetchLast(u)
  PROVE  StatsInv'
<1>1. UNCHANGED <<log, last, user, latest>> /\ log \subseteq 1 .. last /\ last \in Nat
  BY DEF FetchLast, vars, TypeOK
<1>2. u \in DOMAIN latest /\ latest[u] \in 1 .. last /\ user[latest[u]] = u
  BY DEF FetchLast, StatsInv, TodoTypeOK, FoundTypeOK, FoundOwn
<1>3. UserTypeOK' /\ FoundOwn' /\ todo' = todo \ {u}
  BY <1>1 DEF StatsInv, UserTypeOK, FoundOwn, FetchLast
<1>4. CASE FromLatest(u) = {} /\ UNCHANGED lasts
  <2>1. TodoTypeOK' /\ FoundTypeOK'
    BY <1>1, <1>3, <1>4 DEF StatsInv, TodoTypeOK, FoundTypeOK
  <2>2. latest[u] \notin log
    BY <1>2, <1>4 DEF FromLatest, EventsOf
  <2>3. latest[u] + MaxRows <= last
    BY <1>1, <1>2, <2>2, RowsAssumption DEF NewestKept
  <2>4. u \notin DOMAIN lasts
    BY DEF FetchLast, StatsInv, TodoTypeOK
  <2>5. LastTold'
    BY <1>1, <1>3, <1>4, <2>3, <2>4 DEF StatsInv, LastTold
  <2>6. QED  BY <1>3, <2>1, <2>5 DEF StatsInv
<1>5. ASSUME NEW i \in FromLatest(u),
             lasts' = [v \in DOMAIN lasts \union {u} |-> IF v = u THEN i ELSE lasts[v]]
      PROVE  StatsInv'
  <2>1. i \in 1 .. last /\ i >= latest[u] /\ user[i] = u
    <3>1. i \in log /\ user[i] = u /\ i > latest[u] - 1
      BY DEF FromLatest, EventsOf
    <3>2. i \in 1 .. last
      BY <1>1, <3>1
    <3>3. QED  BY <1>2, <3>1, <3>2
  <2>2. TodoTypeOK'
    BY <1>1, <1>2, <1>3, <1>5 DEF StatsInv, TodoTypeOK
  <2>3. FoundTypeOK'
    BY <1>1, <1>5, <2>1 DEF StatsInv, FoundTypeOK
  <2>4. LastTold'
    BY <1>1, <1>3, <1>5, <2>1 DEF StatsInv, LastTold
  <2>5. QED  BY <1>3, <2>2, <2>3, <2>4 DEF StatsInv
<1>6. QED  BY <1>4, <1>5 DEF FetchLast

\* Whatever is recorded and pruned between the queries of ClientStats, the
\* event shown for a client is its own and as new as the first query saw, and
\* an event that is not shown had MaxRows newer ones.
THEOREM LastToldCorrect == StatsSpec => []LastTold
<1>1. StatsInit => StatsInv
  BY DEF StatsInit, Init, StatsInv, UserTypeOK, TodoTypeOK, FoundTypeOK, FoundOwn, LastTold
<1>2. TypeOK /\ NewestKept /\ StatsInv /\ [StatsNext]_allVars => StatsInv'
  <2>1. SUFFICES ASSUME TypeOK, NewestKept, StatsInv, [StatsNext]_allVars PROVE StatsInv'
    OBVIOUS
  <2>2. ASSUME UNCHANGED <<last, user, stats>> PROVE StatsInv'
    BY <2>1, <2>2 DEF StatsInv, UserTypeOK, TodoTypeOK, FoundTypeOK, FoundOwn, LastTold, stats
  <2>3. ASSUME NEW h \in Handler, Step(h) \/ PruneLog(h) \/ MissPrune(h)
        PROVE  UNCHANGED <<last, user, stats>>
    BY <2>3 DEF Step, Serve, RecordFails, Count, PruneLog, Prune, MissPrune, PruneFails
  <2>4. ASSUME NEW p \in Process, EndProcess(p) PROVE UNCHANGED <<last, user, stats>>
    BY <2>4 DEF EndProcess, Restart
  <2>5. UNCHANGED allVars => UNCHANGED <<last, user, stats>>
    BY DEF allVars, vars
  <2>6. QED
    BY <2>1, <2>2, <2>3, <2>4, <2>5, RecordKeepsStats, AggregateKeepsStats, FetchKeepsStats
       DEF StatsNext
<1>3. StatsInv => LastTold
  BY DEF StatsInv
<1>4. QED
  BY <1>1, <1>2, <1>3, StatsImplementLog, LogTypeCorrect, NewestKeptCorrect, PTL DEF StatsSpec

----------------------------------------------------------------------------
(***************************************************************************)
(* How far the log grows.  What is owed is a set of pairs, so that a step  *)
(* is judged by the pairs it adds and takes away.                          *)
(***************************************************************************)

OwedFinite ==
  /\ IsFiniteSet(Counted) /\ Cardinality(Counted) \in Nat
  /\ IsFiniteSet(Pending) /\ Cardinality(Pending) \in Nat

LEMMA OwedIsFinite == OwedFinite
<1>1. IsFiniteSet(1 .. Every)
  BY FS_Interval, RowsAssumption
<1>2. IsFiniteSet(Process \X (1 .. Every)) /\ IsFiniteSet(Handler \X (1 .. Every))
  BY <1>1, FS_Product, FinitelyMany
<1>3. IsFiniteSet(Counted) /\ IsFiniteSet(Pending)
  BY <1>2, FS_Subset DEF Counted, Pending
<1>4. QED  BY <1>3, FS_CardinalityType DEF OwedFinite

\* One element has n pairs with 1 .. n, or with any n numbers.
LEMMA PairsOfOne ==
  ASSUME NEW x, NEW a \in Nat, NEW b \in Nat, a <= b + 1
  PROVE  IsFiniteSet({x} \X (a .. b)) /\ Cardinality({x} \X (a .. b)) = b + 1 - a
<1>1. IsFiniteSet(a .. b) /\ Cardinality(a .. b) = b + 1 - a
  BY FS_Interval
<1>2. IsFiniteSet({x}) /\ Cardinality({x}) = 1
  BY FS_Singleton
<1>3. Cardinality({x} \X (a .. b)) = 1 * (b + 1 - a) /\ IsFiniteSet({x} \X (a .. b))
  BY SMTT(20), <1>1, <1>2, FS_Product
<1>4. QED  BY <1>3

\* Sets that come apart, and sets that a step adds to.
LEMMA DisjointUnion ==
  ASSUME NEW S, NEW T, IsFiniteSet(S), IsFiniteSet(T), S \intersect T = {}
  PROVE  /\ IsFiniteSet(S \union T)
         /\ Cardinality(S \union T) = Cardinality(S) + Cardinality(T)
<1>1. Cardinality(S \intersect T) = 0
  BY FS_EmptySet
<1>2. Cardinality(S) \in Nat /\ Cardinality(T) \in Nat
  BY FS_CardinalityType
<1>3. /\ IsFiniteSet(S \union T)
      /\ Cardinality(S \union T) = Cardinality(S) + Cardinality(T) - Cardinality(S \intersect T)
  BY FS_Union
<1>4. QED  BY <1>1, <1>2, <1>3

\* The ids in the log.
LEMMA LogIsFinite ==
  ASSUME TypeOK
  PROVE  IsFiniteSet(log) /\ Cardinality(log) \in Nat
<1>1. IsFiniteSet(1 .. last)
  BY FS_Interval DEF TypeOK
<1>2. log \in SUBSET (1 .. last)
  BY DEF TypeOK
<1>3. IsFiniteSet(log)
  BY <1>1, <1>2, FS_Subset
<1>4. QED  BY <1>3, FS_CardinalityType

GrowthInv == forgone \in Nat /\ LogGrowth

\* A record adds an event and one insert to be counted.
LEMMA RecordKeepsGrowth ==
  ASSUME TypeOK, GrowthInv, NEW h \in Handler, RecordCall(h)
  PROVE  GrowthInv'
<1>1. /\ last \in Nat /\ log' = log \union {last + 1} /\ inserts' = inserts
      /\ stage[h] = "record" /\ stage' = [stage EXCEPT ![h] = "count"] /\ forgone' = forgone
  BY DEF RecordCall, Record, At, TypeOK
<1>2. Counted' = Counted
  BY <1>1 DEF Counted
<1>3. Pending' = Pending \union {<<h, 1>>} /\ <<h, 1>> \notin Pending
  BY <1>1 DEF Pending, TypeOK
<1>4. IsFiniteSet(log) /\ Cardinality(log) \in Nat
  BY LogIsFinite
<1>5. Cardinality(log') = Cardinality(log) + 1
  <2>1. last + 1 \notin log
    BY DEF TypeOK
  <2>2. QED  BY <1>1, <1>4, <2>1, FS_AddElement
<1>6. Cardinality(Pending') = Cardinality(Pending) + 1
  BY <1>3, OwedIsFinite, FS_AddElement DEF OwedFinite
<1>7. QED  BY <1>1, <1>2, <1>4, <1>5, <1>6, OwedIsFinite, RowsAssumption DEF OwedFinite, GrowthInv, LogGrowth

\* A count moves an insert from its handler to the process, or all those of the
\* process back to the handler, which is going to prune.
LEMMA CountKeepsGrowth ==
  ASSUME TypeOK, GrowthInv, NEW h \in Handler, Count(h), UNCHANGED forgone
  PROVE  GrowthInv'
<1> DEFINE p == Home[h]
           n == inserts[p] + 1
<1>1. p \in Process /\ n \in 1 .. Every
  BY DEF TypeOK
<1>2. /\ log' = log /\ stage[h] = "count"
      /\ inserts' = [inserts EXCEPT ![p] = n % Every]
      /\ stage' = [stage EXCEPT ![h] = IF n % Every = 0 THEN "prune" ELSE "idle"]
  BY DEF Count, At, Due
<1>3. <<h, 1>> \in Pending /\ \A k \in 2 .. Every : <<h, k>> \notin Pending
  BY <1>2 DEF Pending
<1> HIDE DEF p, n
<1>4. CASE n < Every
  <2>1. n % Every = n
    BY <1>1, <1>4
  <2>2. Pending' = Pending \ {<<h, 1>>}
    BY <1>1, <1>2, <1>4, <2>1 DEF Pending, TypeOK
  <2>3. Counted' = Counted \union {<<p, n>>} /\ <<p, n>> \notin Counted
    <3>1. inserts[p] = n - 1
      BY <1>1 DEF n, p, TypeOK
    <3>2. inserts'[p] = n /\ \A q \in Process : q # p => inserts'[q] = inserts[q]
      BY <1>1, <1>2, <2>1 DEF TypeOK
    <3>3. \A k \in 1 .. Every : k <= n <=> k <= n - 1 \/ k = n
      BY <1>1
    <3>4. QED  BY <1>1, <3>1, <3>2, <3>3 DEF Counted
  <2>4. Cardinality(Pending') = Cardinality(Pending) - 1
    BY <1>3, <2>2, OwedIsFinite, FS_RemoveElement DEF OwedFinite
  <2>5. Cardinality(Counted') = Cardinality(Counted) + 1
    BY <2>3, OwedIsFinite, FS_AddElement DEF OwedFinite
  <2>6. QED  BY <1>2, <2>4, <2>5, OwedIsFinite, LogIsFinite, RowsAssumption DEF OwedFinite, GrowthInv, LogGrowth
<1>5. CASE n = Every
  <2> DEFINE Back == {p} \X (1 .. Every - 1)
             Up   == {h} \X (2 .. Every)
  <2>1. n % Every = 0
    BY <1>1, <1>5
  <2>2. Pending' = Pending \union Up /\ Pending \intersect Up = {}
    BY <1>1, <1>2, <1>3, <2>1 DEF Pending, TypeOK
  <2>3. Counted = Counted' \union Back /\ Counted' \intersect Back = {}
    <3>1. inserts[p] = Every - 1
      BY <1>1, <1>5 DEF n, p, TypeOK
    <3>2. inserts'[p] = 0 /\ \A q \in Process : q # p => inserts'[q] = inserts[q]
      BY <1>1, <1>2, <2>1 DEF TypeOK
    <3>3. QED  BY <1>1, <3>1, <3>2 DEF Counted
  <2>4. /\ IsFiniteSet(Up) /\ Cardinality(Up) = Every - 1
        /\ IsFiniteSet(Back) /\ Cardinality(Back) = Every - 1
    <3>1. 2 <= Every + 1 /\ 1 <= (Every - 1) + 1 /\ Every - 1 \in Nat
      BY RowsAssumption
    <3>2. /\ IsFiniteSet(Up) /\ Cardinality(Up) = Every + 1 - 2
          /\ IsFiniteSet(Back) /\ Cardinality(Back) = (Every - 1) + 1 - 1
      BY ZenonT(40), <3>1, PairsOfOne, RowsAssumption
    <3>3. QED  BY <3>2, RowsAssumption
  <2>5. IsFiniteSet(Counted')
    BY <2>3, OwedIsFinite, FS_Subset DEF OwedFinite
  <2> HIDE DEF Back, Up
  <2>6. Cardinality(Pending') = Cardinality(Pending) + (Every - 1)
    BY <2>2, <2>4, OwedIsFinite, DisjointUnion DEF OwedFinite
  <2>7. Cardinality(Counted) = Cardinality(Counted') + (Every - 1) /\ Cardinality(Counted') \in Nat
    BY <2>3, <2>4, <2>5, DisjointUnion, FS_CardinalityType
  <2>8. QED
    BY <1>2, <2>6, <2>7, OwedIsFinite, LogIsFinite, RowsAssumption DEF OwedFinite, GrowthInv, LogGrowth
<1>6. QED  BY <1>1, <1>4, <1>5

\* A prune leaves MaxRows events at most, whatever is owed.
LEMMA PruneKeepsGrowth ==
  ASSUME TypeOK, GrowthInv, NEW h \in Handler, PruneLog(h)
  PROVE  GrowthInv'
<1>1. log' \in SUBSET (last + 1 - MaxRows .. last) /\ last \in Nat /\ forgone' = 0
  <2>1. last' = last /\ log' = {i \in log : ~(i + MaxRows <= last)} /\ forgone' = 0
    BY DEF PruneLog, Prune, Expired
  <2>2. \A i \in 1 .. last : ~(i + MaxRows <= last) => i \in last + 1 - MaxRows .. last
    BY RowsAssumption DEF TypeOK
  <2>3. QED  BY <2>1, <2>2 DEF TypeOK
<1>2. /\ IsFiniteSet(last + 1 - MaxRows .. last)
      /\ Cardinality(last + 1 - MaxRows .. last) = MaxRows
  BY <1>1, FS_Interval, RowsAssumption
<1>3. Cardinality(log') <= MaxRows /\ Cardinality(log') \in Nat
  BY <1>1, <1>2, FS_Subset, FS_CardinalityType
<1>4. OwedFinite'
  BY OwedIsFinite, PTL
<1>5. QED  BY <1>1, <1>3, <1>4, RowsAssumption DEF OwedFinite, GrowthInv, LogGrowth

\* A prune that is given up takes with it no more than Every inserts.
LEMMA MissKeepsGrowth ==
  ASSUME TypeOK, GrowthInv, NEW h \in Handler, MissPrune(h)
  PROVE  GrowthInv'
<1> DEFINE Lost == {h} \X (1 .. Every)
<1>1. /\ log' = log /\ inserts' = inserts /\ stage[h] = "prune"
      /\ stage' = [stage EXCEPT ![h] = "idle"] /\ forgone' = forgone + Every
  BY DEF MissPrune, PruneFails, At
<1>2. Counted' = Counted
  BY <1>1 DEF Counted
<1>3. Pending = Pending' \union Lost /\ Pending' \intersect Lost = {}
  BY <1>1 DEF Pending, TypeOK
<1>4. IsFiniteSet(Lost) /\ Cardinality(Lost) = Every
  <2>1. Every \in Nat /\ 1 <= Every + 1
    BY RowsAssumption
  <2>2. IsFiniteSet(Lost) /\ Cardinality(Lost) = Every + 1 - 1
    BY <2>1, PairsOfOne
  <2>3. QED  BY <2>1, <2>2
<1> HIDE DEF Lost
<1>5. OwedFinite'
  BY OwedIsFinite, PTL
<1>6. Cardinality(Pending) = Cardinality(Pending') + Every
  BY <1>3, <1>4, <1>5, DisjointUnion DEF OwedFinite
<1>7. QED
  BY <1>1, <1>2, <1>5, <1>6, LogIsFinite, RowsAssumption DEF OwedFinite, GrowthInv, LogGrowth

\* With a process goes what it has counted, and what its handlers had to do.
LEMMA EndKeepsGrowth ==
  ASSUME TypeOK, GrowthInv, NEW p \in Process, EndProcess(p)
  PROVE  GrowthInv'
<1> DEFINE Of(q)   == {o \in Pending : Home[o[1]] = q}
           Back    == {p} \X (1 .. inserts[p])
<1>1. /\ log' = log /\ forgone' = forgone + (inserts[p] + Cardinality(Of(p)))
      /\ inserts' = [inserts EXCEPT ![p] = 0]
      /\ stage' = [h \in Handler |-> IF Home[h] = p THEN "idle" ELSE stage[h]]
  BY DEF EndProcess, OwedBy, Restart
<1>2. inserts[p] \in 0 .. Every - 1
  BY DEF TypeOK
<1>3. Pending = Pending' \union Of(p) /\ Pending' \intersect Of(p) = {}
  BY <1>1 DEF Pending, TypeOK
<1>4. Counted = Counted' \union Back /\ Counted' \intersect Back = {}
  <2>1. inserts'[p] = 0 /\ \A q \in Process : q # p => inserts'[q] = inserts[q]
    BY <1>1 DEF TypeOK
  <2>2. \A k \in 1 .. inserts[p] : k \in 1 .. Every
    BY <1>2, RowsAssumption
  <2>3. QED  BY <1>2, <2>1, <2>2 DEF Counted
<1>5. IsFiniteSet(Back) /\ Cardinality(Back) = inserts[p]
  <2>1. inserts[p] \in Nat /\ 1 <= inserts[p] + 1
    BY <1>2, RowsAssumption
  <2>2. IsFiniteSet(Back) /\ Cardinality(Back) = inserts[p] + 1 - 1
    BY <2>1, PairsOfOne
  <2>3. QED  BY <2>1, <2>2
<1>6. IsFiniteSet(Of(p)) /\ Cardinality(Of(p)) \in Nat
  BY OwedIsFinite, FS_Subset, FS_CardinalityType DEF OwedFinite
<1> HIDE DEF Of, Back
<1>7. OwedFinite'
  BY OwedIsFinite, PTL
<1>8. Cardinality(Pending) = Cardinality(Pending') + Cardinality(Of(p))
  BY <1>3, <1>6, <1>7, DisjointUnion DEF OwedFinite
<1>9. Cardinality(Counted) = Cardinality(Counted') + inserts[p]
  BY <1>4, <1>5, <1>7, DisjointUnion DEF OwedFinite
<1>10. inserts[p] \in Nat
  BY <1>2, RowsAssumption
<1>11. QED
  BY <1>1, <1>6, <1>7, <1>8, <1>9, <1>10, LogIsFinite, RowsAssumption
     DEF OwedFinite, GrowthInv, LogGrowth

\* What is above the cap is owed a prune, or its prune was forgone: for any
\* number of processes and handlers, whatever fails and whenever they end.
THEOREM LogGrowthCorrect == StatsSpec => []LogGrowth
<1>1. StatsInit => GrowthInv
  <2>1. SUFFICES ASSUME StatsInit PROVE GrowthInv
    OBVIOUS
  <2>2. log = {} /\ forgone = 0
    BY <2>1 DEF StatsInit, Init
  <2>3. Cardinality(log) = 0
    BY <2>2, FS_EmptySet
  <2>4. QED  BY <2>2, <2>3, OwedIsFinite, RowsAssumption DEF OwedFinite, GrowthInv, LogGrowth
<1>2. TypeOK /\ GrowthInv /\ [StatsNext]_allVars => GrowthInv'
  <2>1. SUFFICES ASSUME TypeOK, GrowthInv, [StatsNext]_allVars PROVE GrowthInv'
    OBVIOUS
  <2>2. ASSUME UNCHANGED <<log, inserts, stage, forgone>> PROVE GrowthInv'
    BY <2>1, <2>2 DEF GrowthInv, LogGrowth, Counted, Pending
  <2>3. ASSUME NEW h \in Handler, Step(h) PROVE GrowthInv'
    <3>1. CASE Serve(h) \/ RecordFails(h)
      <4>1. UNCHANGED <<log, inserts, forgone>>
        BY <2>3, <3>1 DEF Serve, RecordFails, Step
      <4>2. Pending' = Pending
        <5>1. stage[h] \in {"idle", "record"} /\ \E x \in {"idle", "record"} : stage' = [stage EXCEPT ![h] = x]
          BY <3>1 DEF Serve, RecordFails, At
        <5>2. QED  BY <2>1, <5>1 DEF Pending, TypeOK
      <4>3. Counted' = Counted
        BY <4>1 DEF Counted
      <4>4. QED  BY <2>1, <4>1, <4>2, <4>3 DEF GrowthInv, LogGrowth
    <3>2. CASE Count(h)
      BY <2>1, <2>3, <3>2, CountKeepsGrowth DEF Step
    <3>3. QED  BY <2>3, <3>1, <3>2 DEF Step
  <2>4. CASE Aggregate
    BY <2>2, <2>4 DEF Aggregate, vars
  <2>5. ASSUME NEW u \in Range(Caller), FetchLast(u) PROVE GrowthInv'
    BY <2>2, <2>5 DEF FetchLast, vars
  <2>6. CASE UNCHANGED allVars
    BY <2>2, <2>6 DEF allVars, vars
  <2>7. QED
    BY <2>1, <2>3, <2>4, <2>5, <2>6, RecordKeepsGrowth, PruneKeepsGrowth, MissKeepsGrowth,
       EndKeepsGrowth DEF StatsNext
<1>3. GrowthInv => LogGrowth
  BY DEF GrowthInv
<1>4. QED  BY <1>1, <1>2, <1>3, StatsImplementLog, LogTypeCorrect, PTL DEF StatsSpec
============================================================================
