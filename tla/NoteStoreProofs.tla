-------------------------- MODULE NoteStoreProofs --------------------------
(***************************************************************************)
(* What holds of notes and their history for every number of notes,        *)
(* clients and processes, and however often a note is written.             *)
(***************************************************************************)
EXTENDS NoteStore, TLAPS

\* What a client has in hand at each stage: a note it looks for, a draft it
\* is going to write, and a transaction that began before now.
Ready(c) ==
  /\ stage[c] \in {"check", "read"} => target[c] \in NoteId
  /\ (stage[c] = "check" /\ op[c] = "put") \/ stage[c] \in {"begin", "write"}
       => draft[c] \in Draft
  /\ stage[c] = "write" =>
       /\ snapshot[c] <= commits
       /\ target[c] = NewId => base[c] = NoNote

AllReady == \A c \in Client : Ready(c)

----------------------------------------------------------------------------
(***************************************************************************)
(* The versions that are written are versions.                             *)
(***************************************************************************)
LEMMA FirstIsVersion ==
  ASSUME NEW d \in Draft
  PROVE  FirstVersion(d) \in Version /\ FirstVersion(d).revision = 1
BY DEF FirstVersion, Version

LEMMA NextIsVersion ==
  ASSUME NEW v \in Version, NEW d \in Draft
  PROVE  NextVersion(v, d) \in Version /\ NextVersion(v, d).revision = v.revision + 1
BY DEF NextVersion, Version, Draft

LEMMA DeprecatedIsDraft ==
  ASSUME NEW v \in Version, NEW more \in {0, 1}
  PROVE  Deprecated(v.draft, more) \in Draft
<1> DEFINE d == v.draft
           body == [d.body EXCEPT !.reasons = @ + more]
<1>1. d \in Draft /\ d.body \in Body
  BY DEF Version, Draft
<1>2. body \in Body
  <2> HIDE DEF d
  <2> QED
    BY <1>1 DEF Body
<1>3. Deprecated(d, more) = [d EXCEPT !.status = "deprecated", !.body = body]
  BY <1>1 DEF Deprecated, Draft
<1> HIDE DEF d, body
<1>4. [d EXCEPT !.status = "deprecated", !.body = body] \in Draft
  BY <1>1, <1>2 DEF Draft
<1>5. Deprecated(d, more) \in Draft
  BY <1>3, <1>4
<1> QED
  BY <1>5 DEF d

LEMMA RequestIsDraft ==
  ASSUME NEW c \in Client, NEW d \in Request(c)
  PROVE  d \in Draft
<1>1. Grants[c] \subseteq Project /\ Signs[c] \subseteq User \union {NoUser}
  BY ClientAssumption
<1> QED
  BY <1>1 DEF Request, Draft, Body

----------------------------------------------------------------------------
(***************************************************************************)
(* Types.                                                                  *)
(***************************************************************************)
\* The client is through, and so is its transaction.
LEMMA DoneTypes ==
  ASSUME TypeOK, NEW c \in Client, Done(c)
  PROVE  /\ op' \in [Client -> {"none", "put", "deprecate"}]
         /\ stage' \in [Client -> {"idle", "check", "read", "begin", "write"}]
         /\ target' \in [Client -> NoteId \union {NewId}]
         /\ draft' \in [Client -> Draft \union {NoDraft}]
BY DEF TypeOK, Done

LEMMA ReleaseTypes ==
  ASSUME TypeOK, NEW c \in Client, Release(c)
  PROVE  /\ conn' \in [Process -> Client \union {NoClient}]
         /\ base' \in [Client -> Version \union {NoNote}]
         /\ snapshot' \in [Client -> Nat]
BY DEF TypeOK, Release

LEMMA NextTypes ==
  ASSUME TypeOK, AllReady, [Next]_vars
  PROVE  TypeOK'
<1>1. ASSUME NEW c \in Client, NEW n \in NoteId \union {NewId}, NEW d \in Request(c),
             PutRequest(c, n, d) \/ CommandPut(c, n, d)
      PROVE  TypeOK'
  BY <1>1, RequestIsDraft DEF TypeOK, PutRequest, CommandPut, Ask, At, table, tx
<1>2. ASSUME NEW c \in Client, NEW n \in NoteId, DeprecateRequest(c, n)
      PROVE  TypeOK'
  BY <1>2 DEF TypeOK, DeprecateRequest, At, table, tx
<1>3. ASSUME NEW c \in Client, Check(c)
      PROVE  TypeOK'
  <2>1. CASE Done(c)
    BY <1>3, <2>1, DoneTypes DEF TypeOK, Check, table, tx
  <2>2. CASE At(c, IF op[c] = "put" THEN "begin" ELSE "read") /\ UNCHANGED <<op, target, draft>>
    BY <1>3, <2>2 DEF TypeOK, Check, At, table, tx
  <2> QED
    BY <1>3, <2>1, <2>2 DEF Check
<1>4. ASSUME NEW c \in Client, ReadNote(c)
      PROVE  TypeOK'
  <2> DEFINE v == notes[target[c]]
  <2>1. CASE Done(c)
    BY <1>4, <2>1, DoneTypes DEF TypeOK, ReadNote, table, tx
  <2>2. ASSUME MayGet(c, v), NEW more \in {0, 1},
               draft' = [draft EXCEPT ![c] = Deprecated(v.draft, more)],
               At(c, "begin"), UNCHANGED <<op, target>>
        PROVE  TypeOK'
    <3>1. target[c] \in NoteId
      BY <1>4 DEF AllReady, Ready, ReadNote
    <3>2. v \in Version
      BY <2>2, <3>1 DEF MayGet, TypeOK
    <3>3. Deprecated(v.draft, more) \in Draft
      BY <3>2, DeprecatedIsDraft
    <3> QED
      BY <1>4, <2>2, <3>3 DEF TypeOK, ReadNote, At, table, tx
  <2> QED
    BY <1>4, <2>1, <2>2 DEF ReadNote
<1>5. ASSUME NEW c \in Client, BeginPut(c)
      PROVE  TypeOK'
  <2>1. Home[c] \in Process
    BY ClientAssumption
  <2> QED
    BY <1>5, <2>1 DEF TypeOK, BeginPut, At, table
<1>6. ASSUME NEW c \in Client, NEW n \in NoteId, Insert(c, n)
      PROVE  TypeOK'
  <2>1. draft[c] \in Draft
    BY <1>6 DEF AllReady, Ready, Insert
  <2>2. FirstVersion(draft[c]) \in Version
    BY <2>1, FirstIsVersion
  <2>3. Done(c) /\ Release(c)
    BY <1>6 DEF Insert, Release
  <2> QED
    BY <1>6, <2>2, <2>3, DoneTypes, ReleaseTypes DEF TypeOK, Insert
<1>7. ASSUME NEW c \in Client, Update(c)
      PROVE  TypeOK'
  <2>1. draft[c] \in Draft /\ base[c] \in Version
    BY <1>7 DEF AllReady, Ready, Update, TypeOK
  <2>2. target[c] \in NoteId
    BY <1>7 DEF AllReady, Ready, Update, TypeOK
  <2>3. NextVersion(base[c], draft[c]) \in Version
    BY <2>1, NextIsVersion
  <2>4. Done(c) /\ Release(c)
    BY <1>7 DEF Update, Release
  <2>5. revisions' \in [NoteId -> SUBSET Version]
    BY <1>7, <2>1, <2>2 DEF TypeOK, Update
  <2>6. notes' \in [NoteId -> Version \union {NoNote}] /\ commits' \in Nat
    BY <1>7, <2>2, <2>3 DEF TypeOK, Update
  <2> QED
    BY <2>4, <2>5, <2>6, DoneTypes, ReleaseTypes DEF TypeOK
<1>8. ASSUME NEW c \in Client, Rollback(c)
      PROVE  TypeOK'
  <2>1. Done(c) /\ Release(c)
    BY <1>8 DEF Rollback, Release
  <2> QED
    BY <1>8, <2>1, DoneTypes, ReleaseTypes DEF TypeOK, Rollback, table
<1>9. CASE UNCHANGED vars
  BY <1>9 DEF TypeOK, vars
<1> QED
  BY <1>1, <1>2, <1>3, <1>4, <1>5, <1>6, <1>7, <1>8, <1>9 DEF Next, Proceed, Answer

----------------------------------------------------------------------------
(***************************************************************************)
(* What a client has in hand.                                              *)
(***************************************************************************)
\* A client that is through has nothing in hand; the others keep theirs.
LEMMA DoneReady ==
  ASSUME TypeOK, AllReady, NEW c \in Client, Done(c), commits' \in Nat, commits' >= commits,
         \A b \in Client : b # c => base'[b] = base[b] /\ snapshot'[b] = snapshot[b]
  PROVE  AllReady'
<1> SUFFICES ASSUME NEW b \in Client
             PROVE  Ready(b)'
  BY DEF AllReady
<1>0. Ready(b)
  BY DEF AllReady
<1>1. CASE b = c
  <2>1. stage'[b] = "idle"
    BY <1>1 DEF Done, TypeOK
  <2> QED
    BY <2>1 DEF Ready
<1>2. CASE b # c
  <2>1. /\ op'[b] = op[b] /\ stage'[b] = stage[b] /\ target'[b] = target[b]
        /\ draft'[b] = draft[b] /\ base'[b] = base[b] /\ snapshot'[b] = snapshot[b]
    BY <1>2 DEF Done, TypeOK
  <2>2. snapshot[b] <= commits => snapshot[b] <= commits'
    BY DEF TypeOK
  <2> QED
    BY <1>0, <2>1, <2>2 DEF Ready
<1> QED
  BY <1>1, <1>2

LEMMA NextReady ==
  ASSUME TypeOK, AllReady, [Next]_vars
  PROVE  AllReady'
<1>1. ASSUME NEW c \in Client, NEW n \in NoteId \union {NewId}, NEW d \in Request(c),
             PutRequest(c, n, d) \/ CommandPut(c, n, d)
      PROVE  AllReady'
  BY <1>1, RequestIsDraft DEF TypeOK, AllReady, Ready, PutRequest, CommandPut, Ask, At, table, tx
<1>2. ASSUME NEW c \in Client, NEW n \in NoteId, DeprecateRequest(c, n)
      PROVE  AllReady'
  BY <1>2 DEF TypeOK, AllReady, Ready, DeprecateRequest, At, table, tx
<1>3. ASSUME NEW c \in Client, Check(c)
      PROVE  AllReady'
  <2>0. UNCHANGED <<table, tx>>
    BY <1>3 DEF Check
  <2>1. CASE Done(c)
    BY <2>0, <2>1, DoneReady DEF TypeOK, table, tx
  <2>2. CASE At(c, IF op[c] = "put" THEN "begin" ELSE "read") /\ UNCHANGED <<op, target, draft>>
    BY <1>3, <2>2 DEF TypeOK, AllReady, Ready, Check, At, table, tx
  <2> QED
    BY <1>3, <2>1, <2>2 DEF Check
<1>4. ASSUME NEW c \in Client, ReadNote(c)
      PROVE  AllReady'
  <2> DEFINE v == notes[target[c]]
  <2>0. UNCHANGED <<table, tx>>
    BY <1>4 DEF ReadNote
  <2>1. CASE Done(c)
    BY <2>0, <2>1, DoneReady DEF TypeOK, table, tx
  <2>2. ASSUME MayGet(c, v), NEW more \in {0, 1},
               draft' = [draft EXCEPT ![c] = Deprecated(v.draft, more)],
               At(c, "begin"), UNCHANGED <<op, target>>
        PROVE  AllReady'
    <3>1. target[c] \in NoteId
      BY <1>4 DEF AllReady, Ready, ReadNote
    <3>2. Deprecated(v.draft, more) \in Draft
      BY <2>2, <3>1, DeprecatedIsDraft DEF MayGet, TypeOK
    <3> QED
      BY <2>0, <2>2, <3>2 DEF TypeOK, AllReady, Ready, At, table, tx
  <2> QED
    BY <1>4, <2>1, <2>2 DEF ReadNote
<1>5. ASSUME NEW c \in Client, BeginPut(c)
      PROVE  AllReady'
  BY <1>5 DEF TypeOK, AllReady, Ready, BeginPut, At, table
<1>6. ASSUME NEW c \in Client, Answer(c)
      PROVE  AllReady'
  <2>1. Release(c) /\ Done(c) /\ commits' \in {commits, commits + 1}
    BY <1>6 DEF Answer, Insert, Update, Rollback, Release, table
  <2> QED
    BY <2>1, DoneReady DEF Release, TypeOK
<1>7. CASE UNCHANGED vars
  BY <1>7 DEF TypeOK, AllReady, Ready, vars
<1> QED
  BY <1>1, <1>2, <1>3, <1>4, <1>5, <1>6, <1>7 DEF Next, Proceed

----------------------------------------------------------------------------
(***************************************************************************)
(* Transactions.                                                           *)
(***************************************************************************)
\* A client that changes its stage without opening or closing a transaction
\* leaves all transactions as they are.
LEMMA OutsideTransactions ==
  ASSUME TypeOK, NoStaleWrite, NEW c \in Client, stage[c] # "write", stage'[c] # "write",
         \A b \in Client : b # c => stage'[b] = stage[b] /\ target'[b] = target[b],
         UNCHANGED <<table, tx>>
  PROVE  NoStaleWrite'
BY DEF NoStaleWrite, CanWrite, TypeOK, table, tx

\* A transaction that ends is one of its own process's, and if it has written
\* nobody who has read before can write.
LEMMA EndOfTransaction ==
  ASSUME TypeOK, AllReady, NoStaleWrite, NEW c \in Client, stage[c] = "write", Release(c),
         commits' = commits + 1 \/ UNCHANGED table
  PROVE  NoStaleWrite'
<1> SUFFICES ASSUME NEW b \in Client, stage'[b] = "write"
             PROVE  /\ conn'[Home[b]] = b
                    /\ CanWrite(b)' /\ target'[b] # NewId => base'[b] = notes'[target'[b]]
  BY DEF NoStaleWrite
<1>1. /\ b # c /\ stage[b] = "write"
      /\ base'[b] = base[b] /\ snapshot'[b] = snapshot[b] /\ target'[b] = target[b]
  BY DEF Release, Done, TypeOK
<1>2. Home[b] # Home[c]
  BY <1>1 DEF NoStaleWrite
<1>3. conn'[Home[b]] = b
  BY <1>1, <1>2, ClientAssumption DEF Release, NoStaleWrite, TypeOK
<1>4. CASE commits' = commits + 1
  BY <1>1, <1>3, <1>4 DEF CanWrite, AllReady, Ready, TypeOK
<1>5. CASE UNCHANGED table
  BY <1>1, <1>3, <1>5 DEF CanWrite, NoStaleWrite, table
<1> QED
  BY <1>4, <1>5

LEMMA NextNoStaleWrite ==
  ASSUME TypeOK, AllReady, NoStaleWrite, [Next]_vars
  PROVE  NoStaleWrite'
<1>1. ASSUME NEW c \in Client, NEW n \in NoteId \union {NewId}, NEW d \in Request(c),
             PutRequest(c, n, d) \/ CommandPut(c, n, d)
      PROVE  NoStaleWrite'
  BY <1>1, OutsideTransactions DEF TypeOK, PutRequest, CommandPut, Ask, At
<1>2. ASSUME NEW c \in Client, NEW n \in NoteId, DeprecateRequest(c, n)
      PROVE  NoStaleWrite'
  BY <1>2, OutsideTransactions DEF TypeOK, DeprecateRequest, At
<1>3. ASSUME NEW c \in Client, Check(c)
      PROVE  NoStaleWrite'
  BY <1>3, OutsideTransactions DEF TypeOK, Check, At, Done
<1>4. ASSUME NEW c \in Client, ReadNote(c)
      PROVE  NoStaleWrite'
  BY <1>4, OutsideTransactions DEF TypeOK, ReadNote, At, Done
<1>5. ASSUME NEW c \in Client, BeginPut(c)
      PROVE  NoStaleWrite'
  <2> SUFFICES ASSUME NEW b \in Client, stage'[b] = "write"
               PROVE  /\ conn'[Home[b]] = b
                      /\ CanWrite(b)' /\ target'[b] # NewId => base'[b] = notes'[target'[b]]
    BY DEF NoStaleWrite
  <2>0. Home[b] \in Process /\ Home[c] \in Process
    BY ClientAssumption
  <2>1. CASE b = c
    BY <1>5, <2>0, <2>1 DEF BeginPut, TypeOK, table
  <2>2. CASE b # c
    <3>1. stage[b] = "write" /\ base'[b] = base[b] /\ snapshot'[b] = snapshot[b]
      BY <1>5, <2>2 DEF BeginPut, At, TypeOK
    <3>2. Home[b] # Home[c]
      BY <1>5, <3>1, ClientAssumption DEF NoStaleWrite, BeginPut, Free
    <3> QED
      BY <1>5, <2>0, <3>1, <3>2 DEF NoStaleWrite, CanWrite, BeginPut, TypeOK, table
  <2> QED
    BY <2>1, <2>2
<1>6. ASSUME NEW c \in Client, Answer(c)
      PROVE  NoStaleWrite'
  <2>1. Release(c) /\ stage[c] = "write" /\ (commits' = commits + 1 \/ UNCHANGED table)
    BY <1>6 DEF Answer, Insert, Update, Rollback, Release
  <2> QED
    BY <2>1, EndOfTransaction
<1>7. CASE UNCHANGED vars
  BY <1>7 DEF NoStaleWrite, CanWrite, vars
<1> QED
  BY <1>1, <1>2, <1>3, <1>4, <1>5, <1>6, <1>7 DEF Next, Proceed

----------------------------------------------------------------------------
(***************************************************************************)
(* The history.  Only a transaction that commits changes the notes, and    *)
(* then of one note: its first version is written, or its latest version   *)
(* goes to the snapshots and the next one takes its place.                 *)
(***************************************************************************)
First(n) ==
  \E v \in Version :
    /\ notes[n] = NoNote /\ v.revision = 1
    /\ notes' = [notes EXCEPT ![n] = v]
    /\ UNCHANGED revisions

Follows(n) ==
  \E v \in Version :
    /\ notes[n] \in Version /\ v.revision = notes[n].revision + 1
    /\ notes' = [notes EXCEPT ![n] = v]
    /\ revisions' = [revisions EXCEPT ![n] = @ \union {notes[n]}]

LEMMA NotesChange ==
  ASSUME TypeOK, AllReady, NoStaleWrite, [Next]_vars
  PROVE  \/ \E n \in NoteId : First(n) \/ Follows(n)
         \/ UNCHANGED <<notes, revisions>>
<1>1. ASSUME NEW c \in Client, NEW n \in NoteId, Insert(c, n)
      PROVE  First(n)
  <2>1. draft[c] \in Draft
    BY <1>1 DEF AllReady, Ready, Insert
  <2> QED
    BY <1>1, <2>1, FirstIsVersion DEF First, Insert
<1>2. ASSUME NEW c \in Client, Update(c)
      PROVE  \E n \in NoteId : Follows(n)
  <2>1. draft[c] \in Draft /\ base[c] \in Version
    BY <1>2 DEF AllReady, Ready, Update, TypeOK
  <2>2. target[c] \in NoteId
    BY <1>2 DEF AllReady, Ready, Update, TypeOK
  <2>3. base[c] = notes[target[c]]
    BY <1>2, <2>2, ClientAssumption DEF NoStaleWrite, Update
  <2>4. Follows(target[c])
    BY <1>2, <2>1, <2>3, NextIsVersion DEF Follows, Update
  <2> QED
    BY <2>2, <2>4
<1>3. CASE UNCHANGED vars
  BY <1>3 DEF vars
<1> QED
  BY <1>1, <1>2, <1>3
     DEF Next, Proceed, Answer, PutRequest, CommandPut, Ask, DeprecateRequest, Check, ReadNote, BeginPut, Rollback, table

\* The history of one note.
Complete(n) ==
  LET latest == IF Exists(n) THEN notes[n].revision ELSE 1 IN
  /\ {v.revision : v \in revisions[n]} = 1 .. latest - 1
  /\ \A u, v \in revisions[n] : u.revision = v.revision => u = v

LEMMA NextHistoryComplete ==
  ASSUME TypeOK, AllReady, NoStaleWrite, HistoryComplete, [Next]_vars
  PROVE  HistoryComplete'
<1> SUFFICES ASSUME NEW n \in NoteId
             PROVE  Complete(n)'
  BY DEF HistoryComplete, Complete
<1>0. Complete(n)
  BY DEF HistoryComplete, Complete
<1>1. CASE notes'[n] = notes[n] /\ revisions'[n] = revisions[n]
  BY <1>0, <1>1 DEF Complete, Exists
<1>2. CASE First(n)
  <2>1. revisions'[n] = revisions[n] /\ notes'[n].revision = 1 /\ Exists(n)'
    BY <1>2, NoNoteAssumption DEF First, TypeOK, Exists
  <2>2. ~Exists(n)
    BY <1>2 DEF First, Exists
  <2> QED
    BY <1>0, <2>1, <2>2 DEF Complete
<1>3. CASE Follows(n)
  <2> DEFINE r == notes[n].revision
  <2>1. Exists(n) /\ Exists(n)' /\ r \in Nat \ {0} /\ notes'[n].revision = r + 1
    BY <1>3, NoNoteAssumption DEF Follows, TypeOK, Exists, Version
  <2>2. revisions'[n] = revisions[n] \union {notes[n]}
    BY <1>3 DEF Follows, TypeOK
  <2>3. /\ {v.revision : v \in revisions[n]} = 1 .. r - 1
        /\ \A u, v \in revisions[n] : u.revision = v.revision => u = v
    BY <1>0, <2>1 DEF Complete
  <2>4. \A v \in revisions[n] : v.revision \in 1 .. r - 1
    BY <2>3
  <2>5. r >= 1
    BY <2>1
  <2>6. {v.revision : v \in revisions'[n]} = 1 .. r
    BY <2>1, <2>2, <2>3, <2>5
  <2>7. \A u, v \in revisions'[n] : u.revision = v.revision => u = v
    BY <2>1, <2>2, <2>3, <2>4
  <2> QED
    BY <2>1, <2>6, <2>7 DEF Complete
<1>4. ASSUME NEW m \in NoteId, m # n, First(m) \/ Follows(m)
      PROVE  notes'[n] = notes[n] /\ revisions'[n] = revisions[n]
  BY <1>4 DEF First, Follows, TypeOK
<1> QED
  BY <1>1, <1>2, <1>3, <1>4, NotesChange

\* Every revision of a note that is there is below the latest.
LEMMA OlderRevisions ==
  ASSUME TypeOK, HistoryComplete, NEW n \in NoteId, Exists(n), NEW v \in revisions[n]
  PROVE  v.revision \in Nat /\ v.revision < notes[n].revision
<1>1. {u.revision : u \in revisions[n]} = 1 .. notes[n].revision - 1
  BY DEF HistoryComplete
<1>2. v.revision \in 1 .. notes[n].revision - 1
  BY <1>1
<1>3. notes[n].revision \in Nat
  BY DEF TypeOK, Exists, Version
<1> QED
  BY <1>2, <1>3

\* A note that is not there never had a version.
LEMMA NoNoteNoHistory ==
  ASSUME HistoryComplete, NEW n \in NoteId, ~Exists(n)
  PROVE  revisions[n] = {}
<1>1. {v.revision : v \in revisions[n]} = 1 .. 1 - 1
  BY DEF HistoryComplete
<1> QED
  BY <1>1

LEMMA NextLog ==
  ASSUME TypeOK, AllReady, NoStaleWrite, HistoryComplete, [Next]_vars
  PROVE  [Log!Next]_VersionsOf
<1>1. ASSUME NEW n \in NoteId, First(n)
      PROVE  Log!Write(n)
  <2> PICK v \in Version : /\ notes[n] = NoNote /\ v.revision = 1
                           /\ notes' = [notes EXCEPT ![n] = v]
                           /\ UNCHANGED revisions
    BY <1>1 DEF First
  <2>1. VersionsOf[n] = {}
    BY NoNoteNoHistory DEF VersionsOf, Exists
  <2>2. VersionsOf' = [VersionsOf EXCEPT ![n] = @ \union {v}]
    BY NoNoteNoHistory, NoNoteAssumption DEF VersionsOf, Exists, TypeOK
  <2>3. Log!IsNext(v, VersionsOf[n])
    BY <2>1 DEF Log!IsNext
  <2>4. v \in VersionsOf'[n]
    BY <2>2 DEF VersionsOf
  <2> QED
    BY <2>2, <2>3, <2>4 DEF Log!Write
<1>2. ASSUME NEW n \in NoteId, Follows(n)
      PROVE  Log!Write(n)
  <2> PICK v \in Version : /\ notes[n] \in Version /\ v.revision = notes[n].revision + 1
                           /\ notes' = [notes EXCEPT ![n] = v]
                           /\ revisions' = [revisions EXCEPT ![n] = @ \union {notes[n]}]
    BY <1>2 DEF Follows
  <2>1. Exists(n) /\ VersionsOf[n] = revisions[n] \union {notes[n]}
    BY NoNoteAssumption DEF VersionsOf, Exists
  <2>2. VersionsOf' = [VersionsOf EXCEPT ![n] = @ \union {v}]
    BY <2>1, NoNoteAssumption DEF VersionsOf, Exists, TypeOK
  <2>3. notes[n].revision \in Nat
    BY DEF Version
  <2>4. \A u \in VersionsOf[n] : u.revision < v.revision
    BY <2>1, <2>3, OlderRevisions
  <2>5. Log!IsNext(v, VersionsOf[n])
    BY <2>1, <2>4 DEF Log!IsNext
  <2>6. v \in VersionsOf'[n]
    BY <2>2 DEF VersionsOf
  <2> QED
    BY <2>2, <2>5, <2>6 DEF Log!Write
<1>3. CASE UNCHANGED <<notes, revisions>>
  BY <1>3 DEF VersionsOf, Exists
<1> QED
  BY <1>1, <1>2, <1>3, NotesChange DEF Log!Next

----------------------------------------------------------------------------
(***************************************************************************)
(* Together.                                                               *)
(***************************************************************************)
StoreInv == TypeOK /\ AllReady /\ NoStaleWrite /\ HistoryComplete

LEMMA InitStore == ASSUME Init PROVE StoreInv
<1>1. TypeOK
  BY DEF Init, TypeOK
<1>2. AllReady /\ NoStaleWrite
  BY DEF Init, AllReady, Ready, NoStaleWrite
<1>3. HistoryComplete
  <2>1. \A n \in NoteId : ~Exists(n) /\ revisions[n] = {}
    BY DEF Init, Exists
  <2> SUFFICES ASSUME NEW n \in NoteId
               PROVE  Complete(n)
    BY DEF HistoryComplete, Complete
  <2>2. {v.revision : v \in revisions[n]} = {} /\ 1 .. 1 - 1 = {}
    BY <2>1
  <2> QED
    BY <2>1, <2>2 DEF Complete
<1> QED
  BY <1>1, <1>2, <1>3 DEF StoreInv

\* What holds in every state: the invariant that the others rest on.
LEMMA StoreInvariant == Spec => []StoreInv
<1>1. Init => StoreInv
  BY InitStore
<1>2. StoreInv /\ [Next]_vars => StoreInv'
  BY NextTypes, NextReady, NextNoStaleWrite, NextHistoryComplete DEF StoreInv
<1> QED
  BY <1>1, <1>2, PTL DEF Spec

\* The variables keep their types.
THEOREM StoreTypeCorrect == Spec => []TypeOK
<1>1. StoreInv => TypeOK
  BY DEF StoreInv
<1> QED
  BY <1>1, StoreInvariant, PTL

\* Whatever handlers and processes write at once, the history of a note has
\* each of its earlier revisions exactly once.
THEOREM HistoryCorrect == Spec => []HistoryComplete
<1>1. StoreInv => HistoryComplete
  BY DEF StoreInv
<1> QED
  BY <1>1, StoreInvariant, PTL

\* A transaction that can still write has read the version it replaces, and
\* is the only one of its process.
THEOREM NoStaleWriteCorrect == Spec => []NoStaleWrite
<1>1. StoreInv => NoStaleWrite
  BY DEF StoreInv
<1> QED
  BY <1>1, StoreInvariant, PTL

\* The versions of every note are a log that only grows by its next revision.
THEOREM StoreRefines == Spec => LogSpec
<1>1. Init => Log!Init
  BY DEF Init, Log!Init, VersionsOf, Exists
<1>2. StoreInv /\ [Next]_vars => [Log!Next]_VersionsOf
  BY NextLog DEF StoreInv
<1> QED
  BY <1>1, <1>2, StoreInvariant, PTL DEF Spec, LogSpec, Log!Spec
=============================================================================
