# OpenMind in TLA+

OpenMind is a note store and task queue that coding agents share: a SQLite
file behind a command line, an MCP server, a REST server with a control desk,
and workers on other machines. This directory models the parts of it that keep
state or race, checks them with TLC and proves the main theorems with TLAPS.

Contents: [inventory](#inventory), [modules](#modules),
[runs](#runs), [fairness](#fairness), [proofs](#proofs),
[what the checks found](#what-the-checks-found),
[what is left out](#what-is-left-out), [plan](#plan).

## Inventory

| component | code | state | operations | hard behaviour | correct if |
|---|---|---|---|---|---|
| task queue | `internal/store/tasks.go` | one row per task: status, report, stamps, worker | create, claim, heartbeat, finish, cancel, requeue | any order of calls by users and workers | columns agree with the status; only the assignee's workers touch a task; claims in order |
| REST task handlers | `internal/httpapi/tasks.go` | none | one per operation, with the grant check | check and update are two statements | as the queue |
| worker | `cmd/openmind/worker.go` | the run it is on, its context, a heartbeat goroutine | claim, run, beat, report | lost and late calls, deadline, cancellation, signals, crashes, two workers of one token | no two workers on one run; a run ends; a cancelled one is stopped; the report is that of the run |
| note store | `internal/store/store.go`, `internal/note` | latest version and snapshots of each note, one connection per process | put, deprecate; get, list, search, history only read | several processes on one file; check, read and write in separate statements | every revision kept, none overwritten; every request answered |
| REST and MCP note handlers | `internal/httpapi/api.go`, `internal/mcpserver` | none | put and deprecate, after a look whether the caller may see the note | other writes between the look and the write | as the store |
| token file | `internal/auth/auth.go`, `cmd/openmind/deploy.go` | file of entries, a temporary file, a copy per process | token add, invite, token revoke | two commands at once; a command killed between two calls | tokens given out are there, revoked ones are not |
| authentication | `internal/httpapi/api.go`, `session.go` | the server's copy of the tokens, codes, sessions | resolve, one-time code, exchange | the file changes while a request is looked at; codes race, expire, restart | answers agree with the file; nobody new anonymous while there are tokens; one session per code |
| activity log | `internal/store/activity.go` | events, a counter per process | record, prune | several processes; processes that end | newest events kept, growth accounted for |
| client statistics | `internal/store/activity.go` | the replies of its queries | aggregate, one query per client | events recorded and pruned between the queries | the event shown is the client's own latest |
| control desk | `internal/httpapi/ui.html`, `admin.go` | events on the page, the latest id, timers | poll, sign in, reload | overlapping, failing and reordered polls | the lanes miss no event the page has room for, and a new one gets there |
| search and listing | `internal/store/store.go` | none | filter, order, limit; search | stamps compared as text, limits, one filter in two queries | newest first, nothing of a later second missed, queries answered |
| digest | `internal/digest` | none | render a list of notes | the limit in bytes | it fits, and says when it is cut |
| note markdown, secret scanner | `internal/note`, `internal/secrets` | none | parse, print, normalize, scan | text that looks like syntax | what is printed is read back |
| import, export | `cmd/openmind/main.go` | the store, a file that others edit | import a directory, export into a section of a file | bad files, interruption, damaged markers, edits in between | no note and nothing the user wrote outside the section lost, export idempotent |
| setup, services, overview | `cmd/openmind`, `internal/httpapi/admin.go` | files | one-shot commands and reads | - | not modelled |

How they interact: handlers and commands call the store, which is the only
place notes, tasks and events are kept. The server, every `openmind mcp`
session and every local command are processes of their own on one SQLite file.
Workers reach the server by HTTP only. The server and the token commands share
nothing but the token file. Most handlers record an event once they have done
their work. The page knows the server by polling.

`PROJECT.json` lists the hazards of each part at their lines, with the
properties that cover them.

## Modules

Definitions carry the names of the code where they can; `PROJECT.json` maps
each to its lines.

**TaskLifecycle** is what the queue promises: a task waits, is handed to one
worker, is finished, cancelled or queued again. **TaskQueue** is the table
behind its handlers. Every handler comes down to a single SQL statement, or
for a claim to one transaction on the single connection of the store, so each
is one action; a WHERE clause is a guard, and ORDER BY is `WrittenBefore` of
**Stamps**: the order of stamps as text, which is not the order of the times
within a second (`Unit` is how many stamps a second has). The look at the task before a cancel
or a requeue reads only its project, which never changes, so that look and
update are one step. Stamps are drawn from `clock`, which only moves when
stamps must differ; text is left out, and of a report is kept who wrote it and
about which run. The activity record of a handler is left out here, since
nothing reads it back; it has a module of its own.

**TaskWorker** uses TaskQueue through INSTANCE: the server serves a request by
one of its actions. A worker is `pc` (its loop), `job`, `work` and `ctx` (the
agent and `runCtx`), `call` (its claim or report under way) and `beat` (the
goroutine's heartbeat). A request can be lost before or after it is served, and
one that was given up can still be served later (`late`). An agent that was
killed or has ended may leave children that hold its output pipes: `work` is then
`Held[...]` until `ChildrenEnd`, since `cmd.Run` waits for the pipes and no
`WaitDelay` is set; `Lingering` says whether agents do that. A run is named by its
claim stamp, which the model follows although no request carries it. The server
reads 2 MiB of a report at most and answers 400 to a longer one before it looks at
the task (`httpapi/tasks.go:114`); a worker of `Verbose` may send such a report
whenever it reports (`TooLong`), and `refused` is history: the runs it was about.

**NoteLog** is what the store promises of versions: a log that grows by the
next revision. **NoteStore** has clients (requests and commands) in processes;
`conn` is the connection of a process, `base` and `snapshot` what an open
transaction has read. `CanWrite` is what SQLite in WAL mode guarantees: a
transaction that has read an older snapshot cannot write. `Signs` are the
authors a request may name: its own user, or anyone where the server has no
tokens and the caller no name.

**TokenFile** has one action per file system call of a token command. An entry
is its token. A write gives a file the next modification time: the model
assumes that times of different writes differ (the code compares them for
equality). **Access** uses it through INSTANCE and adds the server: a request
locks the File (`holder`), looks at the modification time, reads, and is
answered; codes and sessions expire by `now`. `exposed` is `requireAuth`, which
is decided anew with every start of the server. A session names the user it was
opened for, who can be Anonymous on a local server without tokens; `bare` is
history: whether this server has been without tokens at some time. Static
`--tokens` never change and are left out.

**ActivityLog** has handlers in processes, and a counter per process; handlers
that add no event (REST history, deprecate and projects) are left out.
**ClientStats** extends it by the users of the events, by the queries of
`ClientStats`, each an action between those of the log, and by `forgone`, a
history variable: the inserts whose prune failed or ended with its process.
What a prune is still owed for are pairs of a process or handler and a number
up to `Every` (`Counted`, `Pending`), so that it is a count of a set.
**ActivityDesk** uses ActivityLog through INSTANCE and adds a page with its polls. `hour`
is the point of the log that is an hour back. `page` is a set of entries, each an
event and a number: a reply is added to what is there, so that an event that was
sent twice has two entries, and of all of them the page keeps the newest
`PageMax` (4000 in `ui.html:314`). `cut` is history: a limit has left an event of
the last hour out of a reply.

**NoteText** is notes as text: `Parse`, `Markdown`, `Normalize`, the scanner
and what an import makes of a file. A document is a sequence of lines, of which
is kept what the parser looks at; a text is a name for a text. In the frontmatter the tags of
a note are one line each, and `GetReadsBack` compares all of its fields. **NoteQuery** is
reading: the filter, the order and the limit of a list, which notes a search
finds or SQLite refuses, and the digest of a list with its sizes. A list is the
one of `Orders` in which no note comes after one it is newer than, cut at the
limit; loops over lines and notes are recursive functions. **NoteFiles**
uses both: an import takes one entry of the directory a step, an export reads,
empties and writes the file, and in between others put and deprecate notes and
the user edits the file, also inside the section. The file is a sequence of
pieces of text: ends of lines are elements of their own, since the code asks
whether there is one, and so is the first character of the line that the user
writes last (`Initial`, the rest being `Below`), since an export drops one
character behind the end marker (`main.go:595`) and the user may write there: on
a line of his own or right behind whatever the file ends with. His first line
(`Above`) may quote the begin marker, or both. `mine` is history: what the user
has written and may count on, which is everything but that one character.
`spoilt` is set where an edit or a kill meets an export at the one moment it
has no answer to; the properties of the file are about all other behaviours,
and an export is not started again on a spoilt file. `SkipFile` may skip a good
file as well, since any Put can fail.

Proof modules: **TaskQueueProofs**, **TaskWorkerProofs**, **NoteStoreProofs**,
**TokenFileProofs**, **AccessProofs**, **ActivityLogProofs** (about ActivityLog
and ClientStats), **ActivityDeskProofs**, **NoteFilesProofs** (about NoteText,
NoteQuery and NoteFiles).
`MC*` modules give constants values for TLC. Definitions that a comment calls a
"Slip" are plausible mistakes; no specification uses them, they show that the
properties notice.

## Runs

Every cfg is run as `tlc -config NAME.cfg MODULE`. Deadlock is checked in all.

| run | bounds | shows |
|---|---|---|
| MCTaskQueue | 2 tasks, 2 users, 3 workers, 2 projects, `MaxTime` 4, `Unit` 2 | `TypeOK`, `StampsMatchStatus`, `OnlyAssigneeWorks`, `NoOvertaking`, `LifecycleSpec` |
| MCTaskWorkerFaults | 2 tasks, 2 workers of one token, 1 fault, late calls, reports too long of one worker | `OneWorkerPerTask`, `NoOrphanRun`, `TypeOK` |
| MCTaskWorkerAlone | 2 tasks, 1 worker, 2 faults, no late calls, agents that leave children, reports that may be too long | `ReportOfRun`, `CancelledIsTold`, `EveryTaskIsTaken`, `EveryRunEnds`, `CancelStopsAgent` |
| MCNoteStore | 1 shared note, 2 requests in the server and 1 command, `MaxRevision` 3 | `HistoryComplete`, `NoStaleWrite`, `LogSpec`, `EveryRequestEnds`, `TypeOK` |
| MCTokenFile | 3 tokens of 2 names, one command at a time, `MaxWrites` 10 | `IssuedTokensKept`, `RevokedTokensGone` (its `TypeOK` is part of that of Access) |
| MCAccess | 1 token, 2 commands at once, 1 request, 1 code, 2 sessions, `MaxWrites` 4, local or on the network | `AnswersFollowFile`, `AnonymousOnlyWithoutTokens`, `OneSessionPerCode`, `TypeOK` |
| MCActivityLog | 3 handlers in 2 processes that end, 5 events, cap 2, prune at every 2nd insert | `NewestKept`, `LastTold`, `LogGrowth`, `TypeOK` |
| MCActivityDesk | 3 events, a log of 2, 2 polls, limits 3, 2 and 2, a page of 2 entries | `LaneComplete`, `TailMovesOn`, `EventsArrive`, `TypeOK` |
| MCNoteFiles | 3 entries of a directory, 2 notes, 3 writes of notes, lists of 1 note, digests of 2 notes and 8 units, exports into files of less than 12 elements | `OwnLinesKept`, `ExportIdempotent`, `ImportTakesAll`, `GetReadsBack`, `ListFollowsClock`, `DigestFits`, `DigestTells`, `TypeOK` |

The other runs end in a violation on purpose, see
[what the checks found](#what-the-checks-found).

Why these bounds are enough for the interesting cases:

- `MaxTime` bounds how often tasks are created and requeued. Three lets a task
  be created, claimed, taken back and claimed again while another one waits;
  four lets a second task do the same, or the first once more.
- One fault lets any single call or process fail at any point; the claims about
  what may go wrong need no second one, except that in MCTaskWorkerAlone a beat
  and then another call can be lost.
- Three clients in two processes give two requests that share a connection and
  a writer that does not; three revisions give an insert and two updates. All
  notes are of scope team there, so that everybody sees and may write them; the
  theorems are about all scopes.
- `MaxWrites` 10 gives five complete commands; with two commands at once 4
  give two that overlap at every pair of calls. One token may be added and
  revoked while a request that presents it is looked at between any two of them;
  codes and sessions expire one tick after they were given out.
- A poll with limit 2 and 3 events can be cut off and overtaken, and the prune
  removes events the page has not seen. A page of two entries is full when it has
  one event twice, or two, and drops the ones before.
- Reports that are too long need one worker that sends them: any report of it may
  be so or not.
- Two stamps to a second (`Unit` 2) are the least for which a text order can
  differ from the time order: a whole second and its fraction.
- In MCNoteFiles the directory has a good note, one with a credential and the
  index; ann puts a personal note with a rule in its text, and bob one that quotes
  the end marker. Two notes are one more than a list takes, so that it is cut, and
  a digest of both is cut after a heading or after a note; three writes leave one
  to deprecate a note. An export starts as long as the
  file has less than 12 elements: a section with a note and a line of the user on
  each side, one of which may quote both markers, so that a file that an export has
  made is edited and exported again. Text right behind the end marker that loses its
  first character, damaged markers, a file that cannot be updated, two imports with
  an interrupted one, and deprecated notes are all reached.
- Five events, a cap of two and a prune at every second insert let the prunes of
  one process meet the inserts of another between any two queries of the
  statistics.

What the passing properties say about the code:

- *Task queue.* A requeued task shows no trace of its last claim, a running one
  only a report from before its claim, and the worker on a row always holds the
  assignee's token and grant, whatever the order of calls. A task nobody may
  claim never holds up those behind it, and no task is overtaken by one of a
  later second, although stamps are compared as text.
- *Worker.* Two workers are on one task only after a user requeued it.
  A task can be stuck in `running` only after a lost call, a crash, or a report
  that was too long for the server (a user must requeue it then). With one worker of a token, reports and cancellations
  go to the right run, and every task is taken and ends. Cancelling stops the
  agent even where beats get lost.
- *Notes.* With any mix of handlers and processes no committed version is lost
  or changed, and each write is the next revision. A failed transaction gives
  the connection back.
- *Token file.* One command at a time is safe at whatever point it is killed,
  because of the temporary file and the rename. The server answers by what the
  file says at the very moment, because it looks at the file for every request
  under its lock, and because it takes the modification time before it reads.
- *Sessions.* The lock makes a code good for one session only. Once there are
  tokens, nobody is anonymous on a local server but by a session that Anonymous
  opened while there were none, which the server honours until it expires.
- *Activity.* The prune never takes one of the newest events, even when several
  processes prune. The log is not capped: what it has above the cap are inserts
  for which a prune is owed or was forgone (`LogGrowth`). The event shown for a
  client is its own and its latest, whatever happens between the queries; none is
  shown only if prunes took it in between.
- *Files.* Exports keep what the user wrote, character by character, in any order
  of exports and edits and with markers that are damaged or quoted by him, except
  the one character that follows an end marker; they leave a file they cannot update alone, and
  are idempotent on one day unless a note quotes a marker. An import that ends has
  put or reported every file. What `get` prints is read back as the same note.
- *Lists and digests.* They follow the clock as far as seconds; a digest exceeds
  its limit by a heading and the line that says it is cut at most, and never
  leaves out a listed note without saying so.
- *Page.* Whatever order replies come in, the page never goes back and misses
  nothing up to its latest event, as long as no reply was cut off by a limit and
  until it is full of newer entries, repeated ones included; and it gets what is
  new, although polls fail and the gate comes up.

## Fairness

- *Worker.* Weak fairness of the claim, heartbeat and report sequences: each is
  a loop of a goroutine whose next step is enabled until it is taken, and HTTP
  calls end by reply or error. That is `LiveSpec`. That the time limit fires
  (`context.WithTimeout`) is the premise `TimePasses` of the properties that need
  it, so that `CancelStopsAgent` does not rest on it. The kill of an agent is part of the
  report sequence: CommandContext kills it once `runCtx` is done. That children of an
  agent end at some time is part of `TimePasses` too: nothing in the worker makes
  them, and without it `EveryRunEnds` is violated (`worker.go:153`).
  `CancelStopsAgent` is about the agent itself and needs it not.
  No user has to act, no agent has to end by itself, nobody has to start a
  worker, and no fault is ever fair.
- *Notes.* Weak fairness of the end of an open transaction (it commits, or
  fails after the busy timeout); strong fairness of those who wait for the
  connection, since database/sql serves its waiters in turn.
- *Page.* Weak fairness of the timer (`setInterval`), and strong fairness of
  serving and applying: of polls repeated for ever some get through. The
  property gives up when the timer is stopped, which a sign-in or a reload does.
- TokenFile, Access, ActivityLog, ClientStats and NoteFiles state safety only;
  Access leaves expiry to
  `now`, which nothing makes go on.

## Proofs

`tlapm` proves, for all values of the constants within their assumptions:

- **TaskQueueProofs**: `TypeOK`, `StampsMatchStatus`, `OnlyAssigneeWorks`,
  `NoOvertaking`, and that TaskQueue implements TaskLifecycle. The columns of a
  row alone are not inductive for grants and stamps: the invariant carries the
  type of the table with them, the stamps being bounded by `clock` and the
  worker and author of a report being of the assignee. `NoOvertaking` follows
  from the type invariant and `FirstFor`, the refinement from the types and
  from the story of the columns, which says that a queued row names no worker.
- **NoteStoreProofs**: `TypeOK`, `HistoryComplete`, `NoStaleWrite`, and that
  NoteStore implements NoteLog. `HistoryComplete` and `NoStaleWrite` are not
  inductive: the invariant `StoreInv` adds that a transaction which has the
  connection of its process is the one in stage `write`, that a snapshot is
  never newer than `commits`, and that a transaction whose snapshot is the
  present one has read the present version. The snapshots of a note then have
  the revisions below its latest, so that an update adds the missing one.
- **ActivityLogProofs**: `TypeOK` and `NewestKept`, which is inductive with it,
  and of ClientStats `LastTold` and `LogGrowth`. Steps of ClientStats are steps
  of ActivityLog or leave it alone (`StatsImplementLog`), so `NewestKept` is
  imported; `StatsInv` adds the types and `FoundOwn`, that what a call has found
  so far is an event of the user it asked for. `LogGrowth` is inductive with
  the types: a step that adds an event adds a pair to what is owed; counting
  moves one pair from a handler to its process, and with the last of `Every`
  inserts the pairs of the process become those of the handler (lemmas on the
  sizes of these sets); a prune leaves `MaxRows` events, and what ends or fails
  goes to `forgone`.
- **ActivityDeskProofs**: `TypeOK`, `LaneComplete` and `TailMovesOn`. `LaneComplete`
  speaks of the page alone; `DeskInv` adds `PollsBehind`, that a poll asks for
  what comes after an event not above the page's latest, and `RepliesComplete`,
  that a reply leaves out no event of the last hour among those it is about. What
  the page drops is newer than nothing it keeps, so that an event which is not shown
  afterwards has `PageMax` newer entries (`Crowded`), and an event that was crowded
  out stays so: the newer entries are dropped only for still newer ones.
- **TaskWorkerProofs**: `TypeOK`, `OneWorkerPerTask` for any number of faults and late
  requests, `NoOrphanRun` (which is about behaviours without a fault so far, with reports of any length), and
  `ReportOfRun` and `CancelledIsTold` where every worker has a user of its own
  (`OneWorkerEach`) and no request is served late. All rest on `HeldRuns`: a run
  that a worker has is the one its row describes, or a user has taken it back;
  that is inductive with `OldRuns`, that a run taken back is not the latest of
  its task. Every step is one of four things to the runs (`StepOutcome`).
  `NoOrphanRun` needs besides where a worker is in its loop (`LoopInv`): one that
  has answered for its run is the only one that drops it without a fault, and then
  the row is no longer of that run or the run is in `refused`.
  The last two need that a worker has the latest run it was given (`LatestOK`),
  which a late claim would break: what the WHERE clause of its heartbeats and
  reports finds is then its run (`WantedIsGoing`). The types need that a call or
  a beat on its way names a task and is of the worker's token (`SentOK`), and
  so do those that were given up (`LateOK`).
- **TokenFileProofs**: `IssuedTokensKept` and `RevokedTokensGone` under
  `OneCommand`. `TokenInv` is the story of that command: it has read the file as
  it is, what it writes is the file with its edit (`Edited`), and the temporary
  file is whole when it is renamed.
- **AccessProofs**: `TypeOK` (with that of TokenFile; it needs `JobsGiven`, that a
  command under way has something to do), `AnswersFollowFile`, `AnonymousOnlyWithoutTokens` and
  `OneSessionPerCode`. The first two need that the server's copy is the file's
  whenever their modification times agree (`CopyTrue`), which is inductive since
  a temporary file that will be renamed is new to the server (`TmpNew`) and
  since the time is taken before the file is read; `RequestInv` says what a
  request has already found. `AnonymousOnlyWithoutTokens` needs besides that a
  session of Anonymous means a server that is not exposed and has been without
  tokens (`Permitted`, in `AnonymousInv`). They hold for any number of commands at once.
- **NoteFilesProofs**: all properties of MCNoteFiles, for any directory and any
  notes others put. The invariant `Inv` has three parts. `NotesOK` is what Put has
  seen to: a title, a type and a trimmed body, without a line that is the user's.
  `PageOK` is why the user loses nothing: what he may count on is in the file once
  and in its order (`Held`, by `Rank`), before the first marker (`Ahead`), or after
  all of them and what an export takes for the end of their line (`Behind`), so
  that no export cuts there (`Outside`); an end marker has a begin marker
  (`BeginFirst`); and an export under way has read this
  very file, unless `spoilt`. `OwnLinesKept` alone is not inductive: nothing in it
  says that a line is where an export will not cut. `ImportOK` has the types of
  an import. `ExportIdempotent` then follows from what `Updated` does to a text whose
  section it has just written, `ListFollowsClock` from the order of a list;
  `ImportTakesAll` is `TakenOK`, that each file passed was put or told, since no
  put or deprecation takes a text away. `GetReadsBack` rests on lemmas that split the
  frontmatter in keys before the tags, tags, and keys after them (`FirstKeys`,
  `TagKeys`, `LastKeys`) and follow the loop of `Parse` over it (`ReadBack`).
  `DigestFits` and `DigestTells` follow the two loops of the digest, over types and
  over the notes of a type, by an invariant of each (`DigestOK`, `GroupOK`).

`OvertakingNever`, about `NoOvertaking`, holds for any `Unit`. That a nonempty
set of tasks has a first, and a bounded set of ids a latest, is proved from the
well-foundedness of the numbers.

What a recursive function computes is proved by induction over the lines, notes
or types it goes through. The induction theorems of the library take an operator,
which the provers cannot instantiate; `UpTo` takes the hypothesis as a set of
numbers instead, and `Recursion` the rounds of a loop as functions.

Assumptions are the named ones of the modules, and TLC evaluates each in a run:

- types of the constants, and null values outside of the sets they complete;
- `AccessAssumption`: session tokens are none of the tokens of the file, and no
  user has the name of the anonymous caller;
- `FinitelyMany`: there are finitely many processes and handlers;
- `KnownAssumption`, `DraftsAssumption`: the scopes and statuses that Normalize
  accepts include those the code writes, and the notes that others put are such as
  Put has normalized and accepted;
- `OwnAssumption`: the three pieces of text of the user are told from each other and
  from those of notes and of imported files, so that one found is known to be his;
- `DigestAssumption`: sizes are given for every note the digest may meet, and its
  type has a place in the order;
- `LiteralAssumption`: string literals are strings, for which the provers have no
  rule.

`OneWorkerEach`, `Delays = FALSE` and `OneCommand` are premises of the theorems that
need them; the runs MCTaskWorkerAlone and MCTokenFile meet them, and without them
the properties do not hold (see below).

Every safety property and every refinement of the passing runs is proved. Only
model-checked is what the prover cannot reach, liveness under fairness and what
rests on ENABLED: `EveryTaskIsTaken`, `EveryRunEnds`, `CancelStopsAgent`,
`EveryRequestEnds` and `EventsArrive`.

## What the checks found

Each is a run that TLC ends with a counterexample; `PROJECT.json` quotes what
the repository says.

- *MCTaskWorkerStale*: heartbeats are matched by task, assignee and status
  (`tasks.go:216`). Once a task was taken back and handed to another worker of
  the same token, the old worker is told to continue.
- *MCNoteStoreDeprecate*: a deprecation undoes an update that was committed
  between its read and its write (`store.go:336`).
- *MCNoteFilesSearch*: a search that asks for tags is refused by SQLite: the
  filter names a column that both joined tables have (`store.go:141`).

Behaviours of the code that the models contain, but that no run is about:

- A report is matched like a heartbeat (`tasks.go:233`): with two workers of one
  token the report of an older run can end the new one. `ReportOfRun` is checked
  for one worker of its token.
- A report of more than 2 MiB is answered 400, printed by the worker and dropped
  (`httpapi/tasks.go:114`, `worker.go:86`), although "a report is never lost"
  (`tasks.go:224`, `docs/REQUIREMENTS.md:252`): its task stays running.
  `NoOrphanRun` and `EveryRunEnds` except it by name (`refused`).
- The report of a run that was cancelled is refused and dropped (`worker.go:86`).
- Two token commands at the same time can lose an added token, or bring back a
  revoked one (`auth.go:226`). `IssuedTokensKept` and `RevokedTokensGone` are
  checked for one command at a time.
- The activity log grows beyond its cap by processes that end before their 500th
  event (`activity.go:75`).
- An export drops the character behind the end marker, which it takes for the end
  of a line: text of the user that starts right there loses its first one
  (`main.go:595`). `OwnLinesKept` excepts that character.
- An export panics on a file that ends with the end marker (`main.go:595`); a note
  that quotes that marker makes every export leave the rest of the former section
  behind, so that the file grows.
- An export takes the exporter's own personal notes into the file.
- An edit between the reading and the writing of an export is lost, and a kill
  during `os.WriteFile` loses the file (`main.go:605`).
- A digest is longer than `MaxBytes` by a heading and the line that says it is cut
  (`digest.go:44`), although "MaxBytes caps the digest" (`digest.go:13`);
  `DigestFits` states what holds.
- A second import puts every note once more.
- `since` misses notes of the very second it names, when they have a fraction and
  it has none, and stamps within one second are ordered by their text.
- A browser session outlives the tokens of its user (`session.go:80`), and one that
  Anonymous opened stays anonymous once there are tokens.
- A page whose poll is cut off by its limit never gets the events left out
  (`ui.html:307`), and one whose polls overlap shows events twice, which count
  towards the 4000 it keeps (`ui.html:314`); `LaneComplete` and `EventsArrive`
  except these cases by `cut` and `Crowded`.

## What is left out

- Text of prompts and reports; of notes what the parser does not look at: the
  regular expressions of the scanner, `Redact` (applied to the text of a report
  only), the tokenizer, ranking and snippets of the search, summaries.
- Reads that change nothing and have no rule of their own: get, history,
  projects, task lists, the overview, the counts of a day of the statistics, and
  the prompts and resources of the MCP server.
- Setup, service installation, binary download: one-shot input
  and output without other actors.
- Calls that record no event.
- The dated heading line of an export: `ExportIdempotent` is about exports of one
  day. Of what a user may quote, the end marker without a begin marker: the first
  export appends its section, the later ones refuse the file, and nothing is lost.
- Writes of the token file that leave it with an equal modification time.
- Steps of the wall clock. Fractions of a second have one digit; a fraction that
  continues another one is ordered as a fraction and a whole second are.
- What others write between the two reads of an export: they could have done it
  before or after both.
- A second submit of the page's sign-in form while the first is under way.
- Disk failures other than a command or a transaction that fails as a whole.

## Plan

Written in this order, the most important behaviour first: the queue and its
workers; the note store; the token file and the server's copy of it; the
activity log and the page; stamps, note text, queries, digest, import and
export; the client statistics; the proofs of the log, the statistics, the page, the
access checks, the worker and the token file; those of the note files, lists and
digests, and the remaining types. Next:

1. *Proofs*: the invariants of what is added below, with each addition.
2. *NoteStore*: history and search as readers, with what they may show of a
   note whose scope or project changed since.
3. *Server*: notes, tasks and the activity log on one connection, composed, with
   the handlers that record no event.
4. Runs about the behaviours listed under "What the checks found" that have none:
   the report that is too long, the character behind the end marker and the limit
   of a digest first, since the repository says otherwise of each.
