------------------------- MODULE ActivityDeskProofs -------------------------
(***************************************************************************)
(* Theorems about ActivityDesk, for any number of polls under way, any     *)
(* limits on replies and any log.                                          *)
(*                                                                         *)
(* LaneComplete says what the page shows; it is kept because of what the   *)
(* replies under way hold (RepliesComplete), and because no poll asks for  *)
(* what comes after an event that is not on the page yet (PollsBehind).    *)
(* What the page drops, it drops for PageMax newer entries, and these stay *)
(* on it or are dropped for newer ones still (KeptMany).                   *)
(***************************************************************************)
EXTENDS FiniteSetTheorems, ActivityDesk, TLAPS

USE LimitAssumption

----------------------------------------------------------------------------
(***************************************************************************)
(* The maximum of a bounded set of numbers.                                *)
(***************************************************************************)

LEMMA LeastExists ==
  ASSUME NEW T \in SUBSET Nat, T # {}
  PROVE  \E m \in T : \A y \in T : m <= y
<1>1. PICK m \in T : \A y \in T : ~ (<<y, m>> \in OpToRel(<, Nat))
  <2>1. IsWellFoundedOn(OpToRel(<, Nat), Nat)
    BY NatLessThanWellFounded
  <2>2. QED  BY <2>1, WFMin
<1>2. \A y \in T : ~(y < m)
  BY <1>1 DEF OpToRel
<1>3. QED  BY <1>2

LEMMA MaxOfBounded ==
  ASSUME NEW n \in Nat, NEW T \in SUBSET (0 .. n), T # {}
  PROVE  Max(T) \in T /\ \A y \in T : y <= Max(T)
<1>1. PICK m \in {n - y : y \in T} : \A z \in {n - y : y \in T} : m <= z
  <2>1. {n - y : y \in T} \in SUBSET Nat /\ {n - y : y \in T} # {}
    <3>1. \A y \in T : n - y \in Nat
      OBVIOUS
    <3>2. PICK y \in T : TRUE
      OBVIOUS
    <3>3. n - y \in {n - z : z \in T}
      BY <3>2
    <3>4. QED  BY <3>1, <3>3
  <2>2. QED  BY <2>1, LeastExists
<1>2. PICK x \in T : m = n - x
  BY <1>1
<1>3. \A y \in T : n - x <= n - y
  BY <1>1, <1>2
<1>4. \A y \in T : x >= y
  BY <1>3
<1>5. QED  BY <1>4 DEF Max

----------------------------------------------------------------------------
(***************************************************************************)
(* What the page keeps of a finite set of entries.                         *)
(***************************************************************************)
Entries == Nat \X Nat

Ahead(S, e) == {f \in S : Before(f, e)}

Rank(S, e) == Cardinality(Ahead(S, e))

LEMMA BeforeOrder ==
  ASSUME NEW e \in Entries, NEW f \in Entries, NEW g \in Entries
  PROVE  ~Before(e, e) /\ (Before(e, f) /\ Before(f, g) => Before(e, g))
<1>1. e[1] \in Nat /\ e[2] \in Nat /\ f[1] \in Nat /\ f[2] \in Nat /\ g[1] \in Nat /\ g[2] \in Nat
  BY DEF Entries
<1>2. QED  BY <1>1 DEF Before

LEMMA RankType ==
  ASSUME NEW S, IsFiniteSet(S), NEW e
  PROVE  IsFiniteSet(Ahead(S, e)) /\ Rank(S, e) \in Nat
BY FS_Subset, FS_CardinalityType DEF Ahead, Rank

LEMMA RankLess ==
  ASSUME NEW S \in SUBSET Entries, IsFiniteSet(S), NEW e \in S, NEW f \in S, Before(f, e)
  PROVE  Rank(S, f) < Rank(S, e)
<1>1. Ahead(S, f) \subseteq Ahead(S, e)
  BY BeforeOrder DEF Ahead
<1>2. f \in Ahead(S, e) /\ f \notin Ahead(S, f)
  BY BeforeOrder DEF Ahead
<1>3. IsFiniteSet(Ahead(S, e)) /\ Rank(S, e) \in Nat /\ Rank(S, f) \in Nat
  BY RankType
<1>4. Cardinality(Ahead(S, f)) <= Cardinality(Ahead(S, e))
      /\ Cardinality(Ahead(S, f)) # Cardinality(Ahead(S, e))
  BY <1>1, <1>2, <1>3, FS_Subset
<1>5. QED  BY <1>3, <1>4 DEF Rank

\* Of some entries there is one that no other of them has fewer ahead of it.
LEMMA FirstExists ==
  ASSUME NEW S, IsFiniteSet(S), NEW T \in SUBSET S, T # {}
  PROVE  \E x \in T : \A y \in T : Rank(S, x) <= Rank(S, y)
<1> DEFINE Ranks == {Rank(S, y) : y \in T}
<1>1. Ranks \in SUBSET Nat /\ Ranks # {}
  BY RankType
<1>2. PICK m \in Ranks : \A n \in Ranks : m <= n
  BY <1>1, LeastExists
<1>3. PICK x \in T : m = Rank(S, x)
  BY <1>2
<1>4. \A y \in T : Rank(S, x) <= Rank(S, y)
  BY <1>2, <1>3
<1>5. QED  BY <1>4

\* The page is not cut within a set of entries that are all newer than the rest,
\* before PageMax of them are kept.
LEMMA KeptMany ==
  ASSUME NEW S \in SUBSET Entries, IsFiniteSet(S), NEW B \in SUBSET S,
         \A e \in B, f \in S : Before(f, e) => f \in B,
         Cardinality(B) >= PageMax
  PROVE  Cardinality(Kept(S) \intersect B) >= PageMax
<1>1. \A e \in S : e \in Kept(S) <=> Rank(S, e) < PageMax
  BY DEF Kept, Rank, Ahead
<1>2. CASE B \subseteq Kept(S)
  <2>1. Kept(S) \intersect B = B
    BY <1>2
  <2>2. QED  BY <2>1
<1>3. CASE ~(B \subseteq Kept(S))
  <2>1. B \ Kept(S) \in SUBSET S /\ B \ Kept(S) # {}
    BY <1>3
  <2>2. PICK x \in B \ Kept(S) : \A y \in B \ Kept(S) : Rank(S, x) <= Rank(S, y)
    BY <2>1, FirstExists
  <2>3. ASSUME NEW f \in Ahead(S, x) PROVE f \in Kept(S) \intersect B
    <3>1. f \in S /\ f \in B /\ Before(f, x)
      BY <2>2, <2>3 DEF Ahead
    <3>2. Rank(S, f) < Rank(S, x) /\ Rank(S, f) \in Nat /\ Rank(S, x) \in Nat
      BY <2>2, <3>1, RankLess, RankType
    <3>3. QED  BY <2>2, <3>1, <3>2
  <2>4. IsFiniteSet(Kept(S) \intersect B)
    BY FS_Subset
  <2>5. Cardinality(Ahead(S, x)) <= Cardinality(Kept(S) \intersect B)
    BY <2>3, <2>4, FS_Subset
  <2>6. Cardinality(Ahead(S, x)) \in Nat /\ Cardinality(Ahead(S, x)) >= PageMax
    BY <1>1, <2>2, RankType DEF Rank
  <2>7. Cardinality(Kept(S) \intersect B) \in Nat
    BY <2>4, FS_CardinalityType
  <2>8. QED  BY <2>5, <2>6, <2>7
<1>4. QED  BY <1>2, <1>3

\* The newest entry is kept.
LEMMA KeptNewest ==
  ASSUME NEW S \in SUBSET Entries, IsFiniteSet(S), S # {}
  PROVE  \E x \in Kept(S) : \A e \in S : e[1] <= x[1]
<1>1. PICK x \in S : \A y \in S : Rank(S, x) <= Rank(S, y)
  BY FirstExists
<1>2. ASSUME NEW f \in S, Before(f, x) PROVE FALSE
  <2>1. Rank(S, f) < Rank(S, x) /\ Rank(S, x) <= Rank(S, f)
    BY <1>1, <1>2, RankLess
  <2>2. Rank(S, f) \in Nat /\ Rank(S, x) \in Nat
    BY RankType
  <2>3. QED  BY <2>1, <2>2
<1>3. Ahead(S, x) = {}
  BY <1>2 DEF Ahead
<1>4. Rank(S, x) = 0
  BY <1>3, FS_EmptySet DEF Rank
<1>5. x \in Kept(S)
  BY <1>4 DEF Kept, Rank, Ahead
<1>6. ASSUME NEW e \in S PROVE e[1] <= x[1]
  <2>1. e[1] \in Nat /\ x[1] \in Nat
    BY DEF Entries
  <2>2. QED  BY <1>2, <2>1 DEF Before
<1>7. QED  BY <1>5, <1>6

----------------------------------------------------------------------------
LogOK == last \in Nat /\ log \subseteq 1 .. last

\* The latest event of the page is the newest of its entries.
PageOK ==
  /\ hour \in Nat /\ lastId \in 0 .. last /\ cut \in BOOLEAN
  /\ page \subseteq (1 .. last) \X Nat /\ IsFiniteSet(page)
  /\ page = {} => lastId = 0
  /\ page # {} => lastId \in Shown(page)
  /\ \A e \in page : e[1] <= lastId

Polls == [at : {"none", "asked", "older", "answered"}, first : BOOLEAN,
          after : 0 .. last, tail : SUBSET (1 .. last)]

PollsOK == poll \in [Poll -> Polls]

\* A poll asks for what comes after an event that was the latest on the page.
PollBehind(q) == poll[q].first \/ poll[q].after <= lastId

\* A reply leaves out no event of the last hour among those it is about.
ReplyComplete(q) ==
  poll[q].at = "answered" =>
    \A i \in log, j \in poll[q].tail :
      hour < i /\ i <= j /\ (poll[q].first \/ poll[q].after < i) => i \in poll[q].tail

PollsBehind     == \A q \in Poll : PollBehind(q)
RepliesComplete == ~cut => \A q \in Poll : ReplyComplete(q)

DeskInv == LogOK /\ PageOK /\ PollsOK /\ PollsBehind /\ RepliesComplete /\ LaneComplete

----------------------------------------------------------------------------
\* What a step of the log does to what the page can ask for.
LEMMA LogGrows ==
  ASSUME LogOK, Log!Next
  PROVE  LogOK' /\ last <= last' /\ log' \subseteq log \union {last + 1}
<1>1. ASSUME NEW h \in Handler, Log!Record(h) PROVE last' = last + 1 /\ log' = log \union {last + 1}
  BY <1>1 DEF Log!Record
<1>2. ASSUME NEW h \in Handler, Log!Prune(h) PROVE last' = last /\ log' \subseteq log
  BY <1>2 DEF Log!Prune
<1>3. ASSUME NEW h \in Handler,
             Log!Serve(h) \/ Log!RecordFails(h) \/ Log!Count(h) \/ Log!PruneFails(h)
      PROVE  last' = last /\ log' = log
  BY <1>3 DEF Log!Serve, Log!RecordFails, Log!Count, Log!PruneFails
<1>4. ASSUME NEW p \in Process, Log!Restart(p) PROVE last' = last /\ log' = log
  BY <1>4 DEF Log!Restart
<1>5. \/ last' = last + 1 /\ log' = log \union {last + 1}
      \/ last' = last /\ log' \subseteq log
  BY <1>1, <1>2, <1>3, <1>4 DEF Log!Next
<1>6. log \subseteq 1 .. last /\ last \in Nat
  BY DEF LogOK
<1>7. CASE last' = last + 1 /\ log' = log \union {last + 1}
  <2>1. log' \subseteq 1 .. last'
    BY <1>6, <1>7
  <2>2. last' \in Nat /\ last <= last'
    BY <1>6, <1>7
  <2>3. QED  BY <1>7, <2>1, <2>2 DEF LogOK
<1>8. CASE last' = last /\ log' \subseteq log
  BY <1>6, <1>8 DEF LogOK
<1>9. QED  BY <1>5, <1>7, <1>8

\* A longer log has room for the page.
LEMMA PageStays ==
  ASSUME PageOK, last \in Nat, last' \in Nat, last <= last',
         UNCHANGED <<page, lastId>>, hour' \in Nat, cut' \in BOOLEAN
  PROVE  PageOK'
<1>1. lastId' \in 0 .. last'
  BY DEF PageOK
<1>2. page' \subseteq (1 .. last') \X Nat
  BY DEF PageOK
<1>3. QED  BY <1>1, <1>2 DEF PageOK

\* Events that are recorded are new to all replies under way, and those that
\* are pruned or get old are no longer missed.
LEMMA UseKeepsDesk ==
  ASSUME DeskInv, Use
  PROVE  DeskInv'
<1>1. LogOK' /\ last <= last' /\ log' \subseteq log \union {last + 1} /\ UNCHANGED <<hour, desk, poll>>
  BY LogGrows DEF Use, DeskInv
<1>2. last \in Nat /\ last' \in Nat
  BY <1>1 DEF DeskInv, LogOK
<1>3. PageOK'
  <2>1. PageOK /\ UNCHANGED <<page, lastId, hour, cut>> /\ hour \in Nat /\ cut \in BOOLEAN
    BY <1>1 DEF DeskInv, PageOK, desk
  <2>2. QED  BY <1>1, <1>2, <2>1, PageStays
<1>4. PollsOK'
  <2>1. Polls \subseteq Polls'
    BY <1>1, <1>2 DEF Polls
  <2>2. QED  BY <1>1, <2>1 DEF DeskInv, PollsOK
<1>5. PollsBehind'
  BY <1>1 DEF DeskInv, PollsBehind, PollBehind, desk
<1>6. \A q \in Poll : poll[q].tail \subseteq 1 .. last
  BY DEF DeskInv, PollsOK, Polls
<1>7. \A q \in Poll : ReplyComplete(q) => ReplyComplete(q)'
  BY <1>1, <1>2, <1>6 DEF ReplyComplete
<1>8. RepliesComplete'
  BY <1>1, <1>7 DEF DeskInv, RepliesComplete, desk
<1>9. LaneComplete'
  <2>1. /\ LaneComplete /\ lastId \in Nat /\ lastId <= last
        /\ UNCHANGED <<page, lastId, cut, hour>>
    BY <1>1, <1>2 DEF DeskInv, PageOK, desk
  <2>2. \A i \in log' : i <= lastId => i \in log
    BY <1>1, <1>2, <2>1
  <2>3. \A i \in log : Crowded(i) => Crowded(i)'
    BY <2>1 DEF Crowded
  <2>4. QED  BY <2>1, <2>2, <2>3 DEF LaneComplete
<1>10. QED  BY <1>1, <1>3, <1>4, <1>5, <1>8, <1>9 DEF DeskInv

LEMMA AgeKeepsDesk ==
  ASSUME DeskInv, Age
  PROVE  DeskInv'
<1>1. hour' = hour + 1 /\ hour \in Nat /\ UNCHANGED <<log, last, desk, poll>>
  BY DEF Age, recorded, DeskInv, PageOK
<1>2. log \subseteq Nat
  BY DEF DeskInv, LogOK
<1>3. LogOK' /\ PageOK' /\ PollsOK' /\ PollsBehind'
  <2>1. LogOK' /\ PollsOK' /\ PollsBehind'
    BY <1>1 DEF DeskInv, LogOK, PollsOK, Polls, PollsBehind, PollBehind, desk
  <2>2. /\ PageOK /\ last \in Nat /\ last' = last /\ UNCHANGED <<page, lastId>>
        /\ hour' \in Nat /\ cut' \in BOOLEAN
    BY <1>1 DEF DeskInv, LogOK, PageOK, desk
  <2>3. last' \in Nat /\ last <= last'
    BY <2>2
  <2>4. QED  BY <2>1, <2>2, <2>3, PageStays
<1>4. \A i \in log : hour' < i => hour < i
  BY <1>1, <1>2
<1>5. RepliesComplete'
  <2>1. poll' = poll /\ log' = log /\ cut' = cut
    BY <1>1 DEF desk
  <2>2. \A q \in Poll : ReplyComplete(q) => ReplyComplete(q)'
    BY <1>4, <2>1 DEF ReplyComplete
  <2>3. QED  BY <2>1, <2>2 DEF DeskInv, RepliesComplete
<1>6. LaneComplete'
  <2>1. LaneComplete /\ UNCHANGED <<log, page, lastId, cut>>
    BY <1>1 DEF DeskInv, desk
  <2>2. \A i \in log : Crowded(i) => Crowded(i)'
    BY <2>1 DEF Crowded
  <2>3. QED  BY <1>4, <2>1, <2>2 DEF LaneComplete
<1>7. QED  BY <1>3, <1>5, <1>6 DEF DeskInv

----------------------------------------------------------------------------
\* A step that leaves the log and the page alone, and sets poll q only.
LEMMA PollChanges ==
  ASSUME DeskInv, NEW q \in Poll, NEW new,
         poll' = [poll EXCEPT ![q] = new],
         UNCHANGED <<log, last, hour, page, lastId>>, cut' \in BOOLEAN, cut => cut',
         new \in Polls, new.first \/ new.after <= lastId,
         ~cut' /\ new.at = "answered" =>
           \A i \in log, j \in new.tail :
             hour < i /\ i <= j /\ (new.first \/ new.after < i) => i \in new.tail
  PROVE  DeskInv'
<1>1. poll'[q] = new /\ \A r \in Poll : r # q => poll'[r] = poll[r]
  BY DEF DeskInv, PollsOK
<1>2. LogOK' /\ PageOK' /\ LaneComplete'
  <2>1. LogOK' /\ LaneComplete'
    BY DEF DeskInv, LogOK, LaneComplete, Crowded
  <2>2. PageOK /\ last \in Nat /\ last' = last /\ hour' \in Nat
    BY DEF DeskInv, LogOK, PageOK
  <2>3. last' \in Nat /\ last <= last'
    BY <2>2
  <2>4. QED  BY <2>1, <2>2, <2>3, PageStays
<1>3. PollsOK'
  BY DEF DeskInv, PollsOK, Polls
<1>4. PollsBehind'
  BY <1>1 DEF DeskInv, PollsBehind, PollBehind
<1>5. RepliesComplete'
  BY <1>1 DEF DeskInv, RepliesComplete, ReplyComplete
<1>6. QED  BY <1>2, <1>3, <1>4, <1>5 DEF DeskInv

\* A poll that is sent has no reply yet.
LEMMA AskKeepsDesk ==
  ASSUME DeskInv, NEW q \in Poll, NEW first \in BOOLEAN, NEW after \in 0 .. last,
         first \/ after <= lastId, Ask(q, first, after),
         UNCHANGED <<log, last, hour, page, lastId, cut>>
  PROVE  DeskInv'
<1> DEFINE new == [at |-> "asked", first |-> first, after |-> after, tail |-> {}]
<1>1. poll' = [poll EXCEPT ![q] = new]
  BY DEF Ask
<1>2. cut' \in BOOLEAN
  BY DEF DeskInv, PageOK
<1>3. new \in Polls
  BY DEF Polls, DeskInv, LogOK
<1>4. QED  BY <1>1, <1>2, <1>3, PollChanges

LEMMA ForgetKeepsDesk ==
  ASSUME DeskInv, NEW q \in Poll, poll' = [poll EXCEPT ![q] = NoPoll],
         UNCHANGED <<log, last, hour, page, lastId, cut>>
  PROVE  DeskInv'
<1>1. last \in Nat /\ lastId \in Nat /\ cut' \in BOOLEAN
  BY DEF DeskInv, LogOK, PageOK
<1>2. NoPoll \in Polls /\ NoPoll.after <= lastId /\ NoPoll.at # "answered"
  BY <1>1 DEF NoPoll, Polls
<1>3. QED  BY <1>1, <1>2, PollChanges

\* The page is new, and waits for one first reply.
LEMMA ReloadKeepsDesk ==
  ASSUME DeskInv, NEW q \in Poll, Reload(q)
  PROVE  DeskInv'
<1> DEFINE new(r) == IF r = q THEN [NoPoll EXCEPT !.at = "asked", !.first = TRUE] ELSE NoPoll
<1>1. /\ UNCHANGED <<log, last, hour>> /\ page' = {} /\ lastId' = 0 /\ cut' = FALSE
      /\ poll' = [r \in Poll |-> new(r)]
  BY DEF Reload, recorded
<1>2. last \in Nat /\ log \subseteq 1 .. last /\ hour \in Nat
  BY DEF DeskInv, LogOK, PageOK
<1>3. \A r \in Poll : new(r) \in Polls /\ new(r).after = 0 /\ new(r).at # "answered"
  <2> DEFINE asked == [NoPoll EXCEPT !.at = "asked"]
  <2>1. NoPoll \in Polls /\ NoPoll.after = 0 /\ NoPoll.at = "none"
    BY <1>2 DEF NoPoll, Polls
  <2>2. asked \in Polls /\ asked.after = 0 /\ asked.at = "asked"
    BY <2>1 DEF Polls
  <2> HIDE DEF asked
  <2> DEFINE first == [asked EXCEPT !.first = TRUE]
  <2>3. first \in Polls /\ first.after = 0 /\ first.at = "asked"
    BY <2>2 DEF Polls
  <2>4. first = [NoPoll EXCEPT !.at = "asked", !.first = TRUE]
    BY DEF asked
  <2> HIDE DEF first
  <2>5. QED  BY <2>1, <2>3, <2>4
<1>4. \A r \in Poll : poll'[r] = new(r)
  BY <1>1
<1> HIDE DEF new
<1>5. LogOK' /\ PageOK'
  <2>1. cut' \in BOOLEAN
    BY <1>1, Zenon
  <2>2. QED  BY <1>1, <1>2, <2>1, FS_EmptySet DEF LogOK, PageOK
<1>6. LaneComplete'
  <2>1. \A i \in log : ~(i <= lastId')
    BY <1>1, <1>2
  <2>2. QED  BY <1>1, <2>1 DEF LaneComplete
<1>7. PollsOK'
  <2>1. Polls' = Polls
    BY <1>1 DEF Polls
  <2>2. QED  BY <1>1, <1>3, <2>1 DEF PollsOK
<1>8. PollsBehind' /\ RepliesComplete'
  BY <1>1, <1>3, <1>4 DEF PollsBehind, PollBehind, RepliesComplete, ReplyComplete
<1>9. QED  BY <1>5, <1>6, <1>7, <1>8 DEF DeskInv

----------------------------------------------------------------------------
\* What is cut off by a limit is noted, if it is of the last hour.
LEMMA ServeTailKeepsDesk ==
  ASSUME DeskInv, NEW q \in Poll, ServeTail(q)
  PROVE  DeskInv'
<1> DEFINE tail == Newest(Limit(q), Asked(q))
           more == poll[q].first /\ Cardinality(tail) < Few
           new  == [poll[q] EXCEPT !.tail = tail, !.at = IF more THEN "older" ELSE "answered"]
<1>1. /\ poll' = [poll EXCEPT ![q] = new]
      /\ UNCHANGED <<log, last, hour, page, lastId>>
      /\ cut' = (cut \/ \E i \in Asked(q) \ tail : hour < i)
  BY DEF ServeTail, recorded
<1>2. tail \subseteq Asked(q) /\ Asked(q) \subseteq log
  BY DEF Newest, Asked
<1> HIDE DEF tail
<1>3. poll[q] \in Polls /\ PollBehind(q) /\ LogOK /\ cut \in BOOLEAN
  BY DEF DeskInv, PollsOK, PollsBehind, PageOK
<1>4. tail \subseteq 1 .. last
  BY <1>2, <1>3 DEF LogOK
<1>5. ASSUME ~cut', NEW i \in log, hour < i, poll[q].first \/ poll[q].after < i PROVE i \in tail
  <2>1. i \in Asked(q)
    BY <1>3, <1>5 DEF Asked, Polls
  <2>2. QED  BY <1>1, <1>5, <2>1
<1>6. /\ new \in Polls
      /\ new.first = poll[q].first /\ new.after = poll[q].after /\ new.tail = tail
  <2> DEFINE told == [poll[q] EXCEPT !.tail = tail]
             at   == IF more THEN "older" ELSE "answered"
  <2>1. told \in Polls /\ told.first = poll[q].first /\ told.after = poll[q].after /\ told.tail = tail
    BY <1>3, <1>4 DEF Polls
  <2>2. new = [told EXCEPT !.at = at]
    OBVIOUS
  <2>3. at \in {"older", "answered"}
    OBVIOUS
  <2> HIDE DEF told, at, new
  <2>4. QED  BY <2>1, <2>2, <2>3 DEF Polls
<1> HIDE DEF new
<1>7. cut' \in BOOLEAN /\ (cut => cut')
  BY <1>1, <1>3
<1>8. QED  BY <1>1, <1>3, <1>5, <1>6, <1>7, PollChanges DEF PollBehind

LEMMA ServeOlderKeepsDesk ==
  ASSUME DeskInv, NEW q \in Poll, ServeOlder(q)
  PROVE  DeskInv'
<1> DEFINE tail == poll[q].tail \union Newest(OlderLimit, log)
           new  == [poll[q] EXCEPT !.tail = tail, !.at = "answered"]
<1>1. /\ poll' = [poll EXCEPT ![q] = new]
      /\ UNCHANGED <<log, last, hour, page, lastId>>
      /\ cut' = (cut \/ \E i \in log \ tail : hour < i)
  BY DEF ServeOlder, recorded
<1>2. poll[q] \in Polls /\ PollBehind(q) /\ LogOK /\ cut \in BOOLEAN
  BY DEF DeskInv, PollsOK, PollsBehind, PageOK
<1>3. tail \subseteq 1 .. last
  BY <1>2 DEF Newest, Polls, LogOK
<1> HIDE DEF tail
<1>4. /\ new \in Polls
      /\ new.first = poll[q].first /\ new.after = poll[q].after /\ new.tail = tail
  <2> DEFINE told == [poll[q] EXCEPT !.tail = tail]
             at   == "answered"
  <2>1. told \in Polls /\ told.first = poll[q].first /\ told.after = poll[q].after /\ told.tail = tail
    BY <1>2, <1>3 DEF Polls
  <2>2. new = [told EXCEPT !.at = at]
    OBVIOUS
  <2>3. at \in {"older", "answered"}
    OBVIOUS
  <2> HIDE DEF told, at, new
  <2>4. QED  BY <2>1, <2>2, <2>3 DEF Polls
<1>5. ~cut' => \A i \in log : hour < i => i \in tail
  BY <1>1
<1> HIDE DEF new
<1>6. cut' \in BOOLEAN /\ (cut => cut')
  BY <1>1, <1>2
<1>7. QED  BY <1>1, <1>2, <1>4, <1>5, <1>6, PollChanges DEF PollBehind

\* Adding events to the page leaves it finite, and shows them and what was there.
LEMMA AddedEntries ==
  ASSUME LogOK, PageOK, NEW q \in Poll, poll[q].tail \subseteq 1 .. last
  PROVE  /\ IsFiniteSet(Added(q)) /\ page \subseteq Added(q)
         /\ Added(q) \subseteq (1 .. last) \X Nat /\ Added(q) \in SUBSET Entries
         /\ Shown(Added(q)) = Shown(page) \union poll[q].tail
<1> DEFINE tail  == poll[q].tail
           entry == [i \in tail |-> <<i, 1 + Copies(i)>>]
           new   == {<<i, 1 + Copies(i)>> : i \in tail}
<1>1. last \in Nat /\ IsFiniteSet(page) /\ page \subseteq (1 .. last) \X Nat
  BY DEF LogOK, PageOK
<1>2. IsFiniteSet(tail)
  <2>1. IsFiniteSet(1 .. last)
    BY <1>1, FS_Interval
  <2>2. QED  BY <2>1, FS_Subset
<1>3. IsFiniteSet(new)
  <2>1. entry \in Surjection(tail, new)
    BY DEF Surjection
  <2>2. QED  BY <1>2, <2>1, FS_Surjection
<1>4. IsFiniteSet(page \union new)
  BY <1>1, <1>3, FS_Union
<1>5. \A i \in tail : Copies(i) \in Nat
  BY <1>1, FS_Subset, FS_CardinalityType DEF Copies
<1>6. new \subseteq (1 .. last) \X Nat
  BY <1>5
<1>7. Added(q) = page \union new
  BY DEF Added
<1>8. (1 .. last) \X Nat \subseteq Entries
  BY <1>1 DEF Entries
<1>9. Shown(new) = tail
  <2>1. \A i \in tail : <<i, 1 + Copies(i)>> \in new /\ <<i, 1 + Copies(i)>>[1] = i
    OBVIOUS
  <2>2. \A e \in new : e[1] \in tail
    OBVIOUS
  <2> HIDE DEF new, tail
  <2>3. Shown(new) \subseteq tail
    BY <2>2 DEF Shown
  <2>4. ASSUME NEW i \in tail PROVE i \in Shown(new)
    <3>1. \A e \in new : e[1] \in Shown(new)
      BY DEF Shown
    <3>2. QED  BY <2>1, <3>1
  <2>5. QED  BY <2>3, <2>4
<1> HIDE DEF new, tail
<1>10. Shown(page \union new) = Shown(page) \union Shown(new)
  BY DEF Shown
<1>11. QED  BY <1>1, <1>4, <1>6, <1>7, <1>8, <1>9, <1>10 DEF tail

\* A reply that has something, on the page: it goes on from the newest entry,
\* which is no older than before.
LEMMA AppliedPage ==
  ASSUME LogOK, PageOK, NEW q \in Poll, poll[q].tail \subseteq 1 .. last, poll[q].tail # {},
         page' = Kept(Added(q)), lastId' = Latest(q)
  PROVE  /\ page' \subseteq (1 .. last) \X Nat /\ IsFiniteSet(page')
         /\ page' # {} /\ lastId' \in Shown(page') /\ lastId' \in 1 .. last
         /\ \A e \in page' : e[1] <= lastId'
         /\ \A e \in Added(q) : e[1] <= lastId'
         /\ lastId <= lastId' /\ lastId' \in {lastId} \union poll[q].tail
<1>1. /\ IsFiniteSet(Added(q)) /\ page \subseteq Added(q)
      /\ Added(q) \subseteq (1 .. last) \X Nat /\ Added(q) \in SUBSET Entries
      /\ Shown(Added(q)) = Shown(page) \union poll[q].tail
  BY AddedEntries
<1>2. last \in Nat /\ lastId \in 0 .. last
  BY DEF LogOK, PageOK
<1>3. page' \subseteq Added(q)
  BY DEF Kept
<1>4. page' \subseteq (1 .. last) \X Nat /\ IsFiniteSet(page')
  BY <1>1, <1>3, FS_Subset
<1>5. Added(q) # {}
  BY <1>1 DEF Shown
<1>6. PICK x \in page' : \A e \in Added(q) : e[1] <= x[1]
  BY <1>1, <1>5, KeptNewest
<1>7. Shown(page') \in SUBSET (0 .. last) /\ Shown(page') # {}
  BY <1>2, <1>4, <1>6 DEF Shown
<1>8. lastId' \in Shown(page') /\ \A i \in Shown(page') : i <= lastId'
  BY <1>2, <1>7, MaxOfBounded DEF Latest
<1>9. lastId' \in 1 .. last
  BY <1>4, <1>8 DEF Shown
<1>10. ASSUME NEW e \in Added(q) PROVE e[1] <= lastId'
  <2>1. e[1] <= x[1] /\ x[1] <= lastId'
    BY <1>6, <1>8 DEF Shown
  <2>2. e[1] \in 1 .. last /\ x[1] \in 1 .. last
    BY <1>1, <1>4, <1>6
  <2>3. QED  BY <1>2, <1>9, <2>1, <2>2
<1>11. lastId <= lastId'
  <2>1. CASE page = {}
    BY <1>2, <1>9, <2>1 DEF PageOK
  <2>2. CASE page # {}
    BY <1>1, <1>10, <2>2 DEF PageOK, Shown
  <2>3. QED  BY <2>1, <2>2
<1>12. lastId' \in {lastId} \union poll[q].tail
  <2>1. lastId' \in Shown(page) \union poll[q].tail
    BY <1>1, <1>3, <1>8 DEF Shown
  <2>2. CASE lastId' \in Shown(page)
    <3>1. lastId' <= lastId
      BY <2>2 DEF PageOK, Shown
    <3>2. QED  BY <1>2, <1>9, <1>11, <3>1
  <2>3. QED  BY <2>1, <2>2
<1>13. QED  BY <1>3, <1>4, <1>6, <1>8, <1>9, <1>10, <1>11, <1>12

\* An event that was on the page, was about to get there, or could not because
\* of PageMax newer entries, is on it now or cannot be for the same reason.
LEMMA AppliedCrowd ==
  ASSUME LogOK, PageOK, NEW q \in Poll, poll[q].tail \subseteq 1 .. last, page' = Kept(Added(q)),
         NEW i \in Nat, i \in Shown(page) \union poll[q].tail \/ Crowded(i)
  PROVE  i \in Shown(page') \/ Crowded(i)'
<1> DEFINE S == Added(q)
           Newer(T) == {e \in T : e[1] > i}
<1>1. IsFiniteSet(S) /\ page \subseteq S /\ S \in SUBSET Entries /\ Shown(S) = Shown(page) \union poll[q].tail
  BY AddedEntries
<1>2. \A e \in S : e[1] \in Nat
  BY <1>1 DEF Entries
<1>3. Kept(S) \subseteq S
  BY DEF Kept
<1> HIDE DEF S
<1>4. ASSUME NEW B \in SUBSET S, \A e \in B, f \in S : Before(f, e) => f \in B,
             Cardinality(B) >= PageMax, Kept(S) \intersect B \subseteq Newer(Kept(S))
      PROVE  Crowded(i)'
  <2>1. Cardinality(Kept(S) \intersect B) >= PageMax
    BY <1>1, <1>4, KeptMany
  <2>2. IsFiniteSet(Newer(Kept(S)))
    BY <1>1, <1>3, FS_Subset
  <2>3. Cardinality(Kept(S) \intersect B) <= Cardinality(Newer(Kept(S)))
    BY <1>4, <2>2, FS_Subset
  <2>4. Cardinality(Kept(S) \intersect B) \in Nat /\ Cardinality(Newer(Kept(S))) \in Nat
    BY <1>4, <2>2, FS_Subset, FS_CardinalityType
  <2>5. Cardinality(Newer(Kept(S))) >= PageMax
    BY <2>1, <2>3, <2>4
  <2>6. QED  BY <2>5 DEF Crowded, S
<1>5. CASE Crowded(i)
  <2>1. IsFiniteSet(Newer(S)) /\ Newer(page) \in SUBSET Newer(S)
    BY <1>1, FS_Subset
  <2>2. Cardinality(Newer(page)) <= Cardinality(Newer(S))
    BY <2>1, FS_Subset
  <2>3. Cardinality(Newer(page)) \in Nat /\ Cardinality(Newer(S)) \in Nat
    BY <2>1, FS_Subset, FS_CardinalityType
  <2>4. Cardinality(Newer(page)) >= PageMax
    BY <1>5 DEF Crowded
  <2>5. Cardinality(Newer(S)) >= PageMax
    BY <2>2, <2>3, <2>4
  <2>6. \A e \in Newer(S), f \in S : Before(f, e) => f \in Newer(S)
    BY <1>2 DEF Before
  <2>7. Newer(S) \in SUBSET S /\ Kept(S) \intersect Newer(S) \subseteq Newer(Kept(S))
    OBVIOUS
  <2>8. QED  BY <1>4, <2>5, <2>6, <2>7
<1>6. ASSUME i \in Shown(S), i \notin Shown(Kept(S)) PROVE Crowded(i)'
  <2>1. PICK e \in S : e[1] = i
    BY <1>6 DEF Shown
  <2>2. e \notin Kept(S)
    BY <1>6, <2>1 DEF Shown
  <2>3. Rank(S, e) \in Nat /\ ~(Rank(S, e) < PageMax)
    BY <1>1, <2>2, RankType DEF Kept, Rank, Ahead
  <2>4. Cardinality(Ahead(S, e)) >= PageMax
    BY <2>3 DEF Rank
  <2>5. \A f \in Ahead(S, e), g \in S : Before(g, f) => g \in Ahead(S, e)
    BY <1>1, BeforeOrder DEF Ahead
  <2>6. ASSUME NEW f \in Kept(S) \intersect Ahead(S, e) PROVE f[1] > i
    <3>1. f \in S /\ Before(f, e) /\ f[1] # i
      BY <1>6, <2>6 DEF Ahead, Shown
    <3>2. QED  BY <2>1, <3>1 DEF Before
  <2>7. Ahead(S, e) \in SUBSET S /\ Kept(S) \intersect Ahead(S, e) \subseteq Newer(Kept(S))
    BY <2>6 DEF Ahead
  <2>8. QED  BY <1>4, <2>4, <2>5, <2>7
<1>7. QED  BY <1>1, <1>5, <1>6 DEF S

\* What is not in the reply, up to its latest event, was on the page or had been
\* dropped from it.
LEMMA ApplyKeepsDesk ==
  ASSUME DeskInv, NEW q \in Poll, Apply(q)
  PROVE  DeskInv'
<1> DEFINE tail == poll[q].tail
<1>1. /\ poll' = [poll EXCEPT ![q] = NoPoll]
      /\ UNCHANGED <<log, last, hour, cut>>
      /\ \/ tail = {} /\ UNCHANGED <<page, lastId>>
         \/ tail # {} /\ page' = Kept(Added(q)) /\ lastId' = Latest(q)
      /\ poll[q].at = "answered"
  BY DEF Apply, recorded
<1>2. /\ last \in Nat /\ lastId \in 0 .. last /\ tail \subseteq 1 .. last /\ cut \in BOOLEAN
      /\ hour \in Nat /\ LogOK /\ PageOK
  BY DEF DeskInv, LogOK, PageOK, PollsOK, Polls
<1>3. lastId' \in {lastId} \union tail /\ lastId <= lastId' /\ lastId' \in 0 .. last
  <2>1. CASE tail = {}
    BY <1>1, <1>2, <2>1
  <2>2. CASE tail # {}
    BY <1>1, <1>2, <2>2, AppliedPage
  <2>3. QED  BY <2>1, <2>2
<1>4. LogOK'
  BY <1>1 DEF DeskInv, LogOK
<1>5. PageOK'
  <2>1. CASE tail = {}
    BY <1>1, <1>2, <2>1 DEF PageOK
  <2>2. CASE tail # {}
    <3>1. /\ page' \subseteq (1 .. last) \X Nat /\ IsFiniteSet(page') /\ page' # {}
          /\ lastId' \in Shown(page') /\ \A e \in page' : e[1] <= lastId'
      BY <1>1, <1>2, <2>2, AppliedPage
    <3>2. QED  BY <1>1, <1>2, <1>3, <3>1 DEF PageOK
  <2>3. QED  BY <2>1, <2>2
<1>6. poll'[q] = NoPoll /\ \A r \in Poll : r # q => poll'[r] = poll[r]
  BY <1>1 DEF DeskInv, PollsOK
<1>7. PollsOK'
  <2>1. NoPoll \in Polls /\ Polls' = Polls
    BY <1>1, <1>2 DEF NoPoll, Polls
  <2>2. QED  BY <1>1, <2>1 DEF DeskInv, PollsOK
<1>8. PollsBehind'
  <2>1. SUFFICES ASSUME NEW r \in Poll PROVE PollBehind(r)'
    BY DEF PollsBehind
  <2>2. CASE r = q
    BY <1>3, <1>6, <2>2 DEF PollBehind, NoPoll
  <2>3. CASE r # q
    <3>1. PollBehind(r) /\ poll[r].after \in 0 .. last
      BY DEF DeskInv, PollsBehind, PollsOK, Polls
    <3>2. QED  BY <1>2, <1>3, <1>6, <2>3, <3>1 DEF PollBehind
  <2>4. QED  BY <2>2, <2>3
<1>9. RepliesComplete'
  BY <1>1, <1>6 DEF DeskInv, RepliesComplete, ReplyComplete, NoPoll
<1>10. LaneComplete'
  <2>1. SUFFICES ASSUME ~cut, NEW i \in log, hour < i, i <= lastId'
                 PROVE  i \in Shown(page) \union tail \/ Crowded(i)
    <3>1. ASSUME NEW i \in log, i \in Shown(page) \union tail \/ Crowded(i)
          PROVE  i \in Shown(page') \/ Crowded(i)'
      <4>1. i \in Nat
        BY <1>2 DEF LogOK
      <4>2. CASE tail = {}
        BY <1>1, <3>1, <4>2 DEF Crowded
      <4>3. CASE tail # {}
        BY <1>1, <1>2, <3>1, <4>1, <4>3, AppliedCrowd
      <4>4. QED  BY <4>2, <4>3
    <3>2. QED  BY <1>1, <3>1 DEF LaneComplete
  <2>2. i \in 1 .. last
    BY DEF DeskInv, LogOK
  <2>3. CASE i <= lastId
    BY <2>1, <2>3 DEF DeskInv, LaneComplete
  <2>4. CASE ~(i <= lastId)
    <3>1. lastId' \in tail
      BY <1>3, <2>1, <2>4
    <3>2. poll[q].first \/ poll[q].after <= lastId
      BY DEF DeskInv, PollsBehind, PollBehind
    <3>3. poll[q].after \in 0 .. last
      BY DEF DeskInv, PollsOK, Polls
    <3>4. poll[q].first \/ poll[q].after < i
      BY <1>2, <2>2, <2>4, <3>2, <3>3
    <3>5. QED  BY <1>1, <2>1, <3>1, <3>4 DEF DeskInv, RepliesComplete, ReplyComplete
  <2>5. QED  BY <2>3, <2>4
<1>11. QED  BY <1>4, <1>5, <1>7, <1>8, <1>9, <1>10 DEF DeskInv

----------------------------------------------------------------------------
\* The invariant holds: one step for each way the page, the timer, the server
\* and the log can move.
LEMMA DeskInvariant == Spec => []DeskInv
<1>1. Init => DeskInv
  <2>1. SUFFICES ASSUME Init PROVE DeskInv
    OBVIOUS
  <2>2. /\ log = {} /\ last = 0 /\ hour = 0 /\ page = {} /\ lastId = 0 /\ cut = FALSE
        /\ poll = [q \in Poll |-> NoPoll]
    BY <2>1 DEF Init, Log!Init
  <2>3. LogOK /\ PageOK
    <3>1. cut \in BOOLEAN
      BY <2>2, Zenon
    <3>2. QED  BY <2>2, <3>1, FS_EmptySet DEF LogOK, PageOK
  <2>4. RepliesComplete /\ LaneComplete
    BY <2>2 DEF RepliesComplete, ReplyComplete, LaneComplete
  <2>5. NoPoll \in Polls /\ NoPoll.after = 0
    BY <2>2 DEF NoPoll, Polls
  <2>6. PollsOK /\ PollsBehind
    BY <2>2, <2>5 DEF PollsOK, PollsBehind, PollBehind
  <2>7. QED  BY <2>3, <2>4, <2>6 DEF DeskInv
<1>2. DeskInv /\ [Next]_vars => DeskInv'
  <2>1. SUFFICES ASSUME DeskInv, [Next]_vars PROVE DeskInv'
    OBVIOUS
  <2>2. CASE UNCHANGED vars
    BY <2>1, <2>2 DEF vars, recorded, desk, DeskInv, LogOK, PageOK, PollsOK, Polls, PollsBehind,
                      PollBehind, RepliesComplete, ReplyComplete, LaneComplete, Crowded
  <2>3. ASSUME NEW q \in Poll, Tick(q) PROVE DeskInv'
    <3>1. lastId \in 0 .. last /\ lastId <= lastId
      BY <2>1 DEF DeskInv, PageOK, LogOK
    <3>2. QED  BY <2>1, <2>3, <3>1, AskKeepsDesk DEF Tick, recorded, desk
  <2>4. ASSUME NEW q \in Poll, SignIn(q) PROVE DeskInv'
    <3>1. 0 \in 0 .. last
      BY <2>1 DEF DeskInv, LogOK
    <3>2. QED  BY <2>1, <2>4, <3>1, AskKeepsDesk DEF SignIn, recorded
  <2>5. ASSUME NEW q \in Poll, Fail(q) PROVE DeskInv'
    BY <2>1, <2>5, ForgetKeepsDesk DEF Fail, recorded
  <2>6. QED
    BY <2>1, <2>2, <2>3, <2>4, <2>5, UseKeepsDesk, AgeKeepsDesk, ReloadKeepsDesk,
       ServeTailKeepsDesk, ServeOlderKeepsDesk, ApplyKeepsDesk DEF Next
<1>3. QED  BY <1>1, <1>2, PTL DEF Spec

\* In whatever order replies come, however many polls are lost or overtake
\* each other, and whatever the log does meanwhile, the lanes miss no event of
\* the last hour before the latest one on the page, unless a limit cut it off
\* or the page is full of newer entries.
THEOREM LaneCompleteCorrect == Spec => []LaneComplete
<1>1. DeskInv => LaneComplete
  BY DEF DeskInv
<1>2. QED  BY <1>1, DeskInvariant, PTL

----------------------------------------------------------------------------
(***************************************************************************)
(* Types, and what a step of the page does to its place in the log.        *)
(***************************************************************************)
DeskTypes == Log!TypeOK /\ hour \in 0 .. last /\ ticking \in BOOLEAN /\ gated \in BOOLEAN

\* A step of the log keeps the types of its variables.
LEMMA LogTypes ==
  ASSUME Log!TypeOK, Log!Next
  PROVE  Log!TypeOK' /\ last <= last'
<1> DEFINE Stages == {"idle", "record", "count", "prune"}
<1>1. \A h \in Handler : \A x \in Stages : Log!At(h, x) => stage' \in [Handler -> Stages]
  BY DEF Log!TypeOK, Log!At
<1>2. ASSUME NEW h \in Handler, Log!Serve(h) \/ Log!RecordFails(h) \/ Log!PruneFails(h)
      PROVE  Log!TypeOK' /\ last <= last'
  <2>1. stage' \in [Handler -> Stages]
    BY <1>1, <1>2 DEF Log!Serve, Log!RecordFails, Log!PruneFails
  <2>2. UNCHANGED <<log, last, inserts>>
    BY <1>2 DEF Log!Serve, Log!RecordFails, Log!PruneFails
  <2>3. QED  BY <2>1, <2>2 DEF Log!TypeOK
<1>3. ASSUME NEW h \in Handler, Log!Record(h) PROVE Log!TypeOK' /\ last <= last'
  <2>1. stage' \in [Handler -> Stages]
    BY <1>1, <1>3 DEF Log!Record
  <2>2. log' \subseteq 1 .. last' /\ last' \in Nat /\ last <= last'
    BY <1>3 DEF Log!Record, Log!TypeOK
  <2>3. QED  BY <1>3, <2>1, <2>2 DEF Log!Record, Log!TypeOK
<1>4. ASSUME NEW h \in Handler, Log!Count(h) PROVE Log!TypeOK' /\ last <= last'
  <2>1. stage' \in [Handler -> Stages]
    BY <1>1, <1>4 DEF Log!Count
  <2>2. Home[h] \in Process /\ inserts[Home[h]] + 1 \in Nat
    BY LogAssumption DEF Log!TypeOK
  <2>3. \A n \in Nat : n % Every \in 0 .. Every - 1
    BY LogAssumption
  <2>4. inserts' \in [Process -> 0 .. Every - 1]
    BY <1>4, <2>2, <2>3 DEF Log!Count, Log!TypeOK
  <2>5. QED  BY <1>4, <2>1, <2>4 DEF Log!Count, Log!TypeOK
<1>5. ASSUME NEW h \in Handler, Log!Prune(h) PROVE Log!TypeOK' /\ last <= last'
  <2>1. stage' \in [Handler -> Stages]
    BY <1>1, <1>5 DEF Log!Prune
  <2>2. log' \subseteq log /\ UNCHANGED <<last, inserts>>
    BY <1>5 DEF Log!Prune
  <2>3. QED  BY <2>1, <2>2 DEF Log!TypeOK
<1>6. ASSUME NEW p \in Process, Log!Restart(p) PROVE Log!TypeOK' /\ last <= last'
  <2>1. 0 \in 0 .. Every - 1
    BY LogAssumption
  <2>2. QED  BY <1>6, <2>1 DEF Log!Restart, Log!TypeOK
<1>7. QED  BY <1>2, <1>3, <1>4, <1>5, <1>6 DEF Log!Next

\* Every variable keeps its type: in particular the page, and what a poll under
\* way asks for, are never ahead of the log.
THEOREM DeskTypeCorrect == Spec => []TypeOK
<1>1. Init => DeskTypes
  <2>1. SUFFICES ASSUME Init PROVE DeskTypes
    OBVIOUS
  <2>2. 0 \in 0 .. Every - 1
    BY LogAssumption
  <2>3. Log!TypeOK /\ hour \in 0 .. last
    BY <2>1, <2>2 DEF Init, Log!Init, Log!TypeOK
  <2>4. ticking \in BOOLEAN /\ gated \in BOOLEAN
    BY <2>1, Zenon DEF Init
  <2>5. QED  BY <2>3, <2>4 DEF DeskTypes
<1>2. DeskInv /\ DeskTypes /\ [Next]_vars => DeskTypes'
  <2>1. SUFFICES ASSUME DeskInv, DeskTypes, [Next]_vars PROVE DeskTypes'
    OBVIOUS
  <2>2. last \in Nat /\ ticking \in BOOLEAN /\ gated \in BOOLEAN
    BY <2>1 DEF DeskTypes, Log!TypeOK
  <2>3. ASSUME UNCHANGED <<recorded, hour>>, ticking' \in BOOLEAN, gated' \in BOOLEAN
        PROVE  DeskTypes'
    BY <2>1, <2>3 DEF DeskTypes, Log!TypeOK, recorded
  <2>4. CASE Use
    BY <2>1, <2>2, <2>4, LogTypes DEF Use, desk, DeskTypes, Log!TypeOK
  <2>5. CASE Age
    BY <2>1, <2>5 DEF Age, desk, recorded, DeskTypes, Log!TypeOK
  <2>6. ASSUME NEW q \in Poll, Tick(q) \/ ServeTail(q) \/ ServeOlder(q) PROVE DeskTypes'
    BY <2>2, <2>3, <2>6 DEF Tick, ServeTail, ServeOlder, desk
  <2>7. ASSUME NEW q \in Poll, SignIn(q) \/ Reload(q) PROVE DeskTypes'
    <3>1. ticking' \in BOOLEAN /\ gated' \in BOOLEAN
      BY <2>7, Zenon DEF SignIn, Reload
    <3>2. QED  BY <2>3, <2>7, <3>1 DEF SignIn, Reload
  <2>8. ASSUME NEW q \in Poll, Apply(q) PROVE DeskTypes'
    <3>1. ticking' \in BOOLEAN
      BY <2>8, Zenon DEF Apply
    <3>2. QED  BY <2>2, <2>3, <2>8, <3>1 DEF Apply
  <2>9. ASSUME NEW q \in Poll, Fail(q) PROVE DeskTypes'
    <3>1. gated' \in BOOLEAN
      <4>1. (gated \/ ~poll[q].first) \in BOOLEAN
        BY Zenon
      <4>2. QED  BY <2>2, <2>9, <4>1 DEF Fail
    <3>2. QED  BY <2>2, <2>3, <2>9, <3>1 DEF Fail
  <2>10. CASE UNCHANGED vars
    BY <2>2, <2>3, <2>10 DEF vars, desk
  <2>11. QED
    BY <2>1, <2>4, <2>5, <2>6, <2>7, <2>8, <2>9, <2>10 DEF Next
<1>3. DeskInv /\ DeskTypes => TypeOK
  BY DEF DeskInv, PageOK, PollsOK, Polls, DeskTypes, TypeOK
<1>4. QED  BY <1>1, <1>2, <1>3, DeskInvariant, PTL DEF Spec

\* Replies that are late, lost or overtaken never take the page back: until it
\* is loaded anew, its latest event is as late as before.
THEOREM TailMovesOnCorrect == Spec => TailMovesOn
<1>1. DeskInv /\ [Next]_vars => [lastId' >= lastId \/ page' = {}]_vars
  <2>1. SUFFICES ASSUME DeskInv, Next PROVE lastId' >= lastId \/ page' = {}
    OBVIOUS
  <2>2. last \in Nat /\ lastId \in 0 .. last
    BY <2>1 DEF DeskInv, LogOK, PageOK
  <2>3. ASSUME NEW q \in Poll, Apply(q) PROVE lastId' >= lastId
    <3>1. poll[q].tail \subseteq 1 .. last
      BY <2>1 DEF DeskInv, PollsOK, Polls
    <3>2. CASE poll[q].tail = {}
      BY <2>2, <2>3, <3>2 DEF Apply
    <3>3. CASE poll[q].tail # {}
      <4>1. lastId <= lastId' /\ lastId' \in 1 .. last
        BY <2>1, <2>3, <3>1, <3>3, AppliedPage DEF Apply, DeskInv
      <4>2. QED  BY <2>2, <4>1
    <3>4. QED  BY <3>2, <3>3
  <2>4. ASSUME NEW q \in Poll, Reload(q) PROVE page' = {}
    BY <2>4 DEF Reload
  <2>5. (Use \/ Age \/ \E q \in Poll : Tick(q)) => lastId' = lastId
    BY DEF Use, Age, Tick, desk
  <2>6. (\E q \in Poll : SignIn(q) \/ ServeTail(q) \/ ServeOlder(q) \/ Fail(q)) => lastId' = lastId
    BY DEF SignIn, ServeTail, ServeOlder, Fail
  <2>7. lastId' = lastId => lastId' >= lastId
    BY <2>2
  <2>8. QED  BY <2>1, <2>3, <2>4, <2>5, <2>6, <2>7 DEF Next
<1>2. QED  BY <1>1, DeskInvariant, PTL DEF Spec, TailMovesOn
=============================================================================
