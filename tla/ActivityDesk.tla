---------------------------- MODULE ActivityDesk ----------------------------
(***************************************************************************)
(* The control desk's page (internal/httpapi/ui.html) tailing the activity *)
(* log (module ActivityLog) through GET /api/v1/admin/activity.            *)
(*                                                                         *)
(* A timer starts a poll every three seconds, whether the one before is    *)
(* over or not.  A poll asks for the events after the latest the page has, *)
(* newest first and up to a limit; the reply is added to the page whenever *)
(* it comes, to events that are there already as well, so that an event    *)
(* can be on the page more than once.  Of all these entries the page keeps *)
(* the newest PageMax.                                                     *)
(***************************************************************************)
EXTENDS Naturals, FiniteSets, FiniteSetsExt

CONSTANTS
  Handler, Process, Home, MaxRows, Every, Restarts, MaxId,  \* see ActivityLog
  Poll,        \* polls that can be under way at a time
  FirstLimit,  \* limits on a reply: of a first poll,
  OlderLimit,  \* of what is added to it if it has
  Few,         \* less than this,
  TailLimit,   \* and of all other polls
  PageMax      \* how many entries the page keeps

ASSUME LimitAssumption ==
  {FirstLimit, OlderLimit, Few, TailLimit, PageMax} \subseteq Nat \ {0} /\ Few <= OlderLimit

ASSUME LogAssumption ==
  /\ Home \in [Handler -> Process] /\ {MaxRows, MaxId} \subseteq Nat
  /\ Every \in Nat \ {0} /\ Restarts \in BOOLEAN

VARIABLES
  log, last, inserts, stage,
  hour,     \* the latest event that is more than 60 minutes old
  page,     \* the entries on the page: an event, and which copy of it
  lastId,   \* the latest event on it
  ticking,  \* the timer runs
  gated,    \* the page asks for a token
  poll,     \* the polls under way
  cut       \* history: a limit has left out an event of the last hour

recorded == <<log, last, inserts, stage>>
desk     == <<page, lastId, ticking, gated, cut>>
vars     == <<recorded, hour, desk, poll>>

Log == INSTANCE ActivityLog

NoPoll == [at |-> "none", first |-> FALSE, after |-> 0, tail |-> {}]

Init ==
  /\ Log!Init
  /\ hour = 0
  /\ page = {}
  /\ lastId = 0
  /\ ticking = FALSE /\ gated = TRUE
  /\ poll = [q \in Poll |-> NoPoll]
  /\ cut = FALSE

----------------------------------------------------------------------------
\* Slip: the id to go on from is one too many.
AskPast(q, first, after) ==
  /\ poll[q] = NoPoll
  /\ poll' = [poll EXCEPT ![q] = [at |-> "asked", first |-> first, after |-> after + 1, tail |-> {}]]

\* A request of poll q is sent.
Ask(q, first, after) ==
  /\ poll[q] = NoPoll
  /\ poll' = [poll EXCEPT ![q] = [at |-> "asked", first |-> first, after |-> after, tail |-> {}]]

\* Slip: the timer runs only as long as no poll has failed.
TickUnlessGated(q) ==
  /\ ticking /\ ~gated
  /\ Ask(q, FALSE, lastId)
  /\ UNCHANGED <<recorded, hour, desk>>

\* The timer fires.  It goes on doing so behind the gate.
Tick(q) ==
  /\ ticking
  /\ Ask(q, FALSE, lastId)
  /\ UNCHANGED <<recorded, hour, desk>>

\* The user signs in on the page: the timer is stopped, the events are kept.
SignIn(q) ==
  /\ gated
  /\ Ask(q, TRUE, 0)
  /\ gated' = FALSE /\ ticking' = FALSE
  /\ UNCHANGED <<recorded, hour, page, lastId, cut>>

\* The page is loaded anew; what it was waiting for never comes.
Reload(q) ==
  /\ page' = {}
  /\ lastId' = 0
  /\ gated' = FALSE /\ ticking' = FALSE
  /\ poll' = [r \in Poll |-> IF r = q THEN [NoPoll EXCEPT !.at = "asked", !.first = TRUE]
                                      ELSE NoPoll]
  /\ cut' = FALSE
  /\ UNCHANGED <<recorded, hour>>

----------------------------------------------------------------------------
\* ORDER BY id DESC LIMIT n
Newest(n, ids) == {i \in ids : Cardinality({j \in ids : i < j}) < n}

\* adminActivity, for the hour a first poll asks for or for all after an id.
Asked(q) == {i \in log : (IF poll[q].first THEN hour ELSE poll[q].after) < i}

Limit(q) == IF poll[q].first THEN FirstLimit ELSE TailLimit

\* The server answers: a first poll that has got little asks once more.
ServeTail(q) ==
  LET tail == Newest(Limit(q), Asked(q))
      more == poll[q].first /\ Cardinality(tail) < Few IN
  /\ poll[q].at = "asked"
  /\ poll' = [poll EXCEPT ![q].tail = tail, ![q].at = IF more THEN "older" ELSE "answered"]
  /\ cut' = (cut \/ \E i \in Asked(q) \ tail : hour < i)
  /\ UNCHANGED <<recorded, hour, page, lastId, ticking, gated>>

ServeOlder(q) ==
  LET tail == poll[q].tail \union Newest(OlderLimit, log) IN
  /\ poll[q].at = "older"
  /\ poll' = [poll EXCEPT ![q].tail = tail, ![q].at = "answered"]
  /\ cut' = (cut \/ \E i \in log \ tail : hour < i)
  /\ UNCHANGED <<recorded, hour, page, lastId, ticking, gated>>

\* What the page shows, and what it holds of the reply to q besides: one more
\* copy of each of its events.
Shown(entries) == {e[1] : e \in entries}

Copies(i) == Cardinality({e \in page : e[1] = i})

Added(q) == page \union {<<i, 1 + Copies(i)>> : i \in poll[q].tail}

\* Newest first, as the page sorts them.
Before(e, f) == e[1] > f[1] \/ (e[1] = f[1] /\ e[2] < f[2])

\* slice(0, PageMax)
Kept(entries) ==
  {e \in entries : Cardinality({f \in entries : Before(f, e)}) < PageMax}

\* Slips: the server's latest event; the latest event of the reply.
LatestOfServer(q) == last

LatestOfReply(q) == Max(poll[q].tail)

\* The first entry of the page once the reply to q is added.
Latest(q) == Max(Shown(Kept(Added(q))))

\* The reply is added to the page, unless it has nothing.
Apply(q) ==
  /\ poll[q].at = "answered"
  /\ \/ poll[q].tail = {} /\ UNCHANGED <<page, lastId>>
     \/ poll[q].tail # {} /\ page' = Kept(Added(q)) /\ lastId' = Latest(q)
  /\ ticking' = (ticking \/ poll[q].first)
  /\ poll' = [poll EXCEPT ![q] = NoPoll]
  /\ UNCHANGED <<recorded, hour, gated, cut>>

\* The poll fails: it is forgotten, or the token is no longer good and the
\* page asks for another.
Fail(q) ==
  /\ poll[q] # NoPoll
  /\ poll' = [poll EXCEPT ![q] = NoPoll]
  /\ gated' \in {gated, gated \/ ~poll[q].first}
  /\ UNCHANGED <<recorded, hour, page, lastId, ticking, cut>>

----------------------------------------------------------------------------
\* Time passes.
Age ==
  /\ hour < last
  /\ hour' = hour + 1
  /\ UNCHANGED <<recorded, desk, poll>>

\* Somebody uses the server.
Use == Log!Next /\ UNCHANGED <<hour, desk, poll>>

Next ==
  \/ Use \/ Age
  \/ \E q \in Poll :
       Tick(q) \/ SignIn(q) \/ Reload(q) \/ ServeTail(q) \/ ServeOlder(q) \/ Apply(q) \/ Fail(q)

Spec == Init /\ [][Next]_vars

\* The timer fires, and of the requests and replies of polls that are repeated
\* for ever some get through.
FairSpec ==
  /\ Spec
  /\ \A q \in Poll :
       WF_vars(Tick(q)) /\ SF_vars(ServeTail(q) \/ ServeOlder(q)) /\ SF_vars(Apply(q))

----------------------------------------------------------------------------
\* Every variable has its type.
TypeOK ==
  /\ Log!TypeOK
  /\ hour \in 0 .. last /\ lastId \in 0 .. last
  /\ page \subseteq (1 .. last) \X Nat
  /\ {ticking, gated, cut} \subseteq BOOLEAN
  /\ poll \in [Poll -> [at : {"none", "asked", "older", "answered"}, first : BOOLEAN,
                        after : 0 .. last, tail : SUBSET (1 .. last)]]

\* The page is full of entries that are newer than event i.
Crowded(i) == Cardinality({e \in page : e[1] > i}) >= PageMax

\* The lanes miss no call of the last hour before the latest one on the page,
\* in whatever order replies come and however many are lost, as long as no
\* reply was cut off by its limit; up to the calls that the page itself has
\* dropped because it is full of newer entries, of which repeated ones count as
\* often as they were added.
LaneComplete ==
  ~cut => \A i \in log : hour < i /\ i <= lastId => i \in Shown(page) \/ Crowded(i)

\* The page never goes back to an earlier point of the log, until it is loaded
\* anew, and keeps in mind the latest event it shows.
TailMovesOn ==
  [][lastId' >= lastId \/ page' = {}]_vars

\* An event of the last hour gets onto a page that goes on polling, unless the
\* page is full of newer entries.
EventsArrive ==
  \A i \in 1 .. MaxId :
    ticking /\ i \in log /\ hour < i
      ~> i \in Shown(page) \/ Crowded(i) \/ i \notin log \/ i <= hour \/ cut \/ ~ticking
=============================================================================
