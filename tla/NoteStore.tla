----------------------------- MODULE NoteStore -----------------------------
(***************************************************************************)
(* Notes and their revisions (internal/store/store.go), written through    *)
(* the REST handlers (internal/httpapi/api.go), the MCP tools              *)
(* (internal/mcpserver/server.go) and the command line (cmd/openmind/      *)
(* main.go).                                                               *)
(*                                                                         *)
(* A client is a request being handled: a goroutine of the server, or a    *)
(* command.  Clients of one process share its store, which has a single    *)
(* connection; the server and every "openmind mcp" or "openmind put" are   *)
(* processes of their own on the same database file.  A handler looks at   *)
(* the note before it writes, in statements of their own, so other writes  *)
(* may come in between.                                                    *)
(*                                                                         *)
(* A version keeps what the control of the code looks at (project, scope,  *)
(* author, status, revision) and a body: a text and how many reasons       *)
(* Deprecate has appended to it.                                           *)
(***************************************************************************)
EXTENDS Naturals

CONSTANTS
  NoteId,
  User,
  Client,
  Viewer,      \* who a client is; NoUser for a command that knows no name
  Signs,       \* the authors it may name: itself, or anyone if the server has
               \* no tokens and its caller no name
  Process,
  Home,        \* the process a client runs in
  Cli,         \* clients that are "openmind put" commands on the local store
  Project,
  Grants,      \* the projects a client may touch: those its identity allows,
               \* or the one its session is pinned to
  Text,
  Scope,       \* scopes and statuses that requests carry,
  Status,      \* after the defaults of Normalize
  NoUser, NoNote, NoClient,
  NewId,       \* the id of a request that names none
  MaxRevision  \* bound: a note at this revision is not written to any more

ASSUME ClientAssumption ==
  /\ Viewer \in [Client -> User \union {NoUser}]
  /\ Signs \in [Client -> SUBSET (User \union {NoUser})]
  /\ Home \in [Client -> Process]
  /\ Grants \in [Client -> SUBSET Project]
  /\ Cli \subseteq Client
  /\ NoClient \notin Client /\ NewId \notin NoteId
ASSUME NoteAssumption ==
  /\ Scope \subseteq {"personal", "project", "team"}
  /\ Status \subseteq {"draft", "active", "deprecated"}
  /\ MaxRevision \in Nat

Body == [text : Text, reasons : Nat]

\* What a handler passes to Put.
Draft == [project : Project, scope : Scope, author : User \union {NoUser},
          status : Status \union {"deprecated"}, body : Body]

Version == [draft : Draft, revision : Nat \ {0}]

ASSUME NoNoteAssumption == NoNote \notin Version

VARIABLES
  notes,      \* the latest version of each note
  revisions,  \* the snapshots of the earlier ones
  commits,    \* number of write transactions committed so far
  conn,       \* the client whose transaction has the connection of a process
  op,         \* what a client is asked to do
  stage,      \* how far it is
  target,     \* the id it writes to
  draft,      \* what it is going to write
  base,       \* the version its transaction found
  snapshot    \* the commits its transaction could see

table  == <<notes, revisions, commits>>
client == <<op, stage, target, draft>>
tx     == <<conn, base, snapshot>>
vars   == <<notes, revisions, commits, conn, op, stage, target, draft, base, snapshot>>

NoDraft == [project |-> "none"]

----------------------------------------------------------------------------
Init ==
  /\ notes = [n \in NoteId |-> NoNote]
  /\ revisions = [n \in NoteId |-> {}]
  /\ commits = 0
  /\ conn = [p \in Process |-> NoClient]
  /\ op = [c \in Client |-> "none"]
  /\ stage = [c \in Client |-> "idle"]
  /\ target = [c \in Client |-> NewId]
  /\ draft = [c \in Client |-> NoDraft]
  /\ base = [c \in Client |-> NoNote]
  /\ snapshot = [c \in Client |-> 0]

\* A statement outside a transaction gets its turn.
Free(c) == conn[Home[c]] = NoClient

\* Store.Get: the personal notes of others are hidden.
MayGet(c, v) ==
  v # NoNote /\ (v.draft.scope = "personal" => v.draft.author = Viewer[c])

\* visible (REST) and handlers.get (MCP): and so are projects without a grant.
Visible(c, v) == MayGet(c, v) /\ v.draft.project \in Grants[c]

\* The client is through, with whatever answer.
Done(c) ==
  /\ op' = [op EXCEPT ![c] = "none"]
  /\ stage' = [stage EXCEPT ![c] = "idle"]
  /\ target' = [target EXCEPT ![c] = NewId]
  /\ draft' = [draft EXCEPT ![c] = NoDraft]

At(c, where) == stage' = [stage EXCEPT ![c] = where]

----------------------------------------------------------------------------
\* What a request may ask to write.
Request(c) == [project : Grants[c], scope : Scope, author : Signs[c],
               status : Status, body : [text : Text, reasons : {0}]]

Ask(c, n, d, first) ==
  /\ stage[c] = "idle"
  /\ op' = [op EXCEPT ![c] = "put"]
  /\ At(c, first)
  /\ target' = [target EXCEPT ![c] = n]
  /\ draft' = [draft EXCEPT ![c] = d]
  /\ UNCHANGED <<table, tx>>

\* A request to write d as note n, or as a new note.  The handlers look at a
\* note they are to update; ...
PutRequest(c, n, d) ==
  c \notin Cli /\ Ask(c, n, d, IF n = NewId THEN "begin" ELSE "check")

\* ... a command goes straight to Put.
CommandPut(c, n, d) == c \in Cli /\ Ask(c, n, d, "begin")

DeprecateRequest(c, n) ==
  /\ stage[c] = "idle" /\ c \notin Cli
  /\ op' = [op EXCEPT ![c] = "deprecate"]
  /\ At(c, "check")
  /\ target' = [target EXCEPT ![c] = n]
  /\ UNCHANGED <<table, tx, draft>>

\* The handler looks whether the caller may see the note: 404 if not.
Check(c) ==
  /\ stage[c] = "check" /\ Free(c)
  /\ \/ /\ Visible(c, notes[target[c]])
        /\ At(c, IF op[c] = "put" THEN "begin" ELSE "read")
        /\ UNCHANGED <<op, target, draft>>
     \/ ~Visible(c, notes[target[c]]) /\ Done(c)
  /\ UNCHANGED <<table, tx>>

\* Deprecate's own Get: the record read is the record that will be written,
\* with the status changed and perhaps a reason appended.
Deprecated(d, more) ==
  [d EXCEPT !.status = "deprecated", !.body.reasons = @ + more]

ReadNote(c) ==
  /\ stage[c] = "read" /\ Free(c)
  /\ LET v == notes[target[c]] IN
       \/ /\ MayGet(c, v)
          /\ \E more \in {0, 1} : draft' = [draft EXCEPT ![c] = Deprecated(v.draft, more)]
          /\ At(c, "begin")
          /\ UNCHANGED <<op, target>>
       \/ ~MayGet(c, v) /\ Done(c)
  /\ UNCHANGED <<table, tx>>

----------------------------------------------------------------------------
\* Put's transaction takes the connection, and looks for the note if it has
\* an id to look for.
BeginPut(c) ==
  /\ stage[c] = "begin"
  /\ Free(c)
  /\ conn' = [conn EXCEPT ![Home[c]] = c]
  /\ base' = [base EXCEPT ![c] = IF target[c] = NewId THEN NoNote ELSE notes[target[c]]]
  /\ snapshot' = [snapshot EXCEPT ![c] = commits]
  /\ At(c, "write")
  /\ UNCHANGED <<table, op, target, draft>>

\* The transaction is over.
Release(c) ==
  /\ conn' = [conn EXCEPT ![Home[c]] = NoClient]
  /\ base' = [base EXCEPT ![c] = NoNote]
  /\ snapshot' = [snapshot EXCEPT ![c] = 0]
  /\ Done(c)

\* Slip: the version that was read is not protected.
CanAlwaysWrite(c) == TRUE

\* SQLite lets a transaction that has read go on to write only if nobody has
\* committed since: otherwise it fails with a stale snapshot.
CanWrite(c) == target[c] = NewId \/ snapshot[c] = commits

\* The primary key of note_revisions.
CanSnapshot(n, v) == \A u \in revisions[n] : u.revision # v.revision

\* Slips: revisions count from zero; the revision is not counted up.
FirstVersionZero(d) == [draft |-> d, revision |-> 0]

NextVersionSame(v, d) ==
  [draft |-> [d EXCEPT !.author = IF @ = NoUser THEN v.draft.author ELSE @],
   revision |-> v.revision]

\* The versions a put leaves behind.  Without an author it keeps the one
\* there was.
FirstVersion(d) == [draft |-> d, revision |-> 1]

NextVersion(v, d) ==
  [draft |-> [d EXCEPT !.author = IF @ = NoUser THEN v.draft.author ELSE @],
   revision |-> v.revision + 1]

\* No such note: INSERT, under the id asked for or under a new one.
Insert(c, n) ==
  /\ stage[c] = "write" /\ CanWrite(c)
  /\ base[c] = NoNote
  /\ target[c] \in {NewId, n} /\ notes[n] = NoNote
  /\ notes' = [notes EXCEPT ![n] = FirstVersion(draft[c])]
  /\ commits' = commits + 1
  /\ Release(c)
  /\ UNCHANGED revisions

\* Slip: the version that is replaced is not kept.
UpdateUnkept(c) ==
  /\ stage[c] = "write" /\ CanWrite(c)
  /\ base[c] # NoNote /\ base[c].revision < MaxRevision
  /\ notes' = [notes EXCEPT ![target[c]] = NextVersion(base[c], draft[c])]
  /\ commits' = commits + 1
  /\ Release(c)
  /\ UNCHANGED revisions

\* The note is there: its version is kept as a snapshot, then replaced.
Update(c) ==
  /\ stage[c] = "write" /\ CanWrite(c)
  /\ base[c] # NoNote /\ base[c].revision < MaxRevision
  /\ CanSnapshot(target[c], base[c])
  /\ revisions' = [revisions EXCEPT ![target[c]] = @ \union {base[c]}]
  /\ notes' = [notes EXCEPT ![target[c]] = NextVersion(base[c], draft[c])]
  /\ commits' = commits + 1
  /\ Release(c)

\* Slip: an error returns without a rollback.
RollbackLeft(c) ==
  /\ stage[c] = "write"
  /\ Done(c)
  /\ UNCHANGED <<table, tx>>

\* The transaction fails, or is rolled back because its client or its process
\* is gone.
Rollback(c) ==
  /\ stage[c] = "write"
  /\ Release(c)
  /\ UNCHANGED table

\* What a client does when it gets the connection, and with it.
Proceed(c) == Check(c) \/ ReadNote(c) \/ BeginPut(c)

Answer(c) == (\E n \in NoteId : Insert(c, n)) \/ Update(c) \/ Rollback(c)

Next ==
  \E c \in Client :
    \/ \E n \in NoteId \union {NewId} : \E d \in Request(c) :
         PutRequest(c, n, d) \/ CommandPut(c, n, d)
    \/ \E n \in NoteId : DeprecateRequest(c, n)
    \/ Proceed(c) \/ Answer(c)

Spec == Init /\ [][Next]_vars

\* A transaction that is open goes on, and database/sql hands a connection
\* that becomes free to one of those who wait for it, none being passed over
\* for ever.
FairSpec ==
  /\ Spec
  /\ \A c \in Client : SF_vars(Proceed(c)) /\ WF_vars(Answer(c))

----------------------------------------------------------------------------
Exists(n) == notes[n] # NoNote

\* Every variable has its type.
TypeOK ==
  /\ notes \in [NoteId -> Version \union {NoNote}]
  /\ revisions \in [NoteId -> SUBSET Version]
  /\ commits \in Nat
  /\ conn \in [Process -> Client \union {NoClient}]
  /\ op \in [Client -> {"none", "put", "deprecate"}]
  /\ stage \in [Client -> {"idle", "check", "read", "begin", "write"}]
  /\ target \in [Client -> NoteId \union {NewId}]
  /\ draft \in [Client -> Draft \union {NoDraft}]
  /\ base \in [Client -> Version \union {NoNote}]
  /\ snapshot \in [Client -> Nat]

\* Every note has its full history (FR-5): exactly one snapshot of each
\* revision before the latest, and none of a note that is not there.
HistoryComplete ==
  \A n \in NoteId :
    LET latest == IF Exists(n) THEN notes[n].revision ELSE 1 IN
    /\ {v.revision : v \in revisions[n]} = 1 .. latest - 1
    /\ \A u, v \in revisions[n] : u.revision = v.revision => u = v

\* A transaction that will be able to write replaces exactly the version the
\* table has, whichever process it runs in; and a process never has two
\* transactions open (SetMaxOpenConns(1)).
NoStaleWrite ==
  \A c \in Client : stage[c] = "write" =>
    /\ conn[Home[c]] = c
    /\ CanWrite(c) /\ target[c] # NewId => base[c] = notes[target[c]]

\* The versions of a note are its snapshots and the row.
VersionsOf ==
  [n \in NoteId |-> revisions[n] \union (IF Exists(n) THEN {notes[n]} ELSE {})]

Log == INSTANCE NoteLog WITH log <- VersionsOf

\* No write that was ever committed is lost or changed afterwards, however
\* many handlers and processes write at once: each adds the next revision.
LogSpec == Log!Spec

\* Deprecating a note changes its status and appends to its body: "Deprecate
\* marks a note obsolete, appending the reason to its body".
DeprecateKeepsText ==
  [][\A c \in Client, n \in NoteId :
       Update(c) /\ op[c] = "deprecate" /\ target[c] = n =>
         notes'[n].draft.body.text = notes[n].draft.body.text]_vars

\* Every request gets its answer: no handler keeps the only connection of its
\* process, or waits for one that it holds itself.
EveryRequestEnds == \A c \in Client : stage[c] # "idle" ~> stage[c] = "idle"
=============================================================================
