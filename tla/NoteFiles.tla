----------------------------- MODULE NoteFiles -----------------------------
(***************************************************************************)
(* Notes and files: "openmind import claude-code" and "openmind export     *)
(* claude-md" (cmd/openmind/main.go), next to writes by others and to a    *)
(* user who edits the file that is exported to.                            *)
(*                                                                         *)
(* The store is a sequence of notes; how one is written is the subject of  *)
(* NoteStore, and here one action.  The file is a sequence of pieces of    *)
(* text, the ends of lines and the first character of a line of the user   *)
(* being elements of their own, since an export counts characters.  An     *)
(* export reads the notes, reads the file, and replaces it by              *)
(* os.WriteFile, which empties it first.                                   *)
(***************************************************************************)
EXTENDS NoteText, NoteQuery

CONSTANTS
  Names,     \* the memory directory: its entries in the order of ReadDir
  Doc,       \* what is in them
  Markdowns, \* the entries import looks at: files *.md except MEMORY.md
  Drafts,    \* what others put, as Put leaves it but for the stamp
  Me,        \* who runs the commands
  Target,    \* the --project of both commands
  ImportScope,
  Above,     \* the line a user writes into the file first of all, and the
  Initial,   \* first character
  Below,     \* and the rest of the one he writes last
  MaxNotes, MaxTime, MaxText   \* bounds: notes, writes of notes, length of the file

File == ToSet(Names)

\* A note without its stamp.
DraftTypes == [project : STRING, title : STRING, type : STRING, scope : KnownScopes,
               author : STRING, status : KnownStatuses, tags : SUBSET STRING, body : Seq(Line)]

ASSUME FilesAssumption ==
  /\ Names \in Seq(STRING) /\ Doc \in [File -> Seq(Line)] /\ Markdowns \subseteq File
  /\ {Me, Target, ImportScope} \subseteq STRING /\ Prefix \in [File -> STRING]
  /\ {MaxNotes, MaxTime, MaxText} \subseteq Nat

ASSUME DraftsAssumption ==
  \A d \in Drafts : d \in DraftTypes /\ IsFiniteSet(d.tags) /\ Normalized(d) = d /\ Accepted(d)

\* What an import puts for entry f, if Parse and Put take it.
NoteOf(f)     == Imported(f, Doc[f], Target, ImportScope, Me)
Importable(f) == Parses(Doc[f]) /\ Accepted(NoteOf(f))

\* A digest has a size for every note and a place for every type.
ASSUME DigestAssumption ==
  LET Fits(n) == n.title \in DOMAIN LineSize /\ n.type \in ToSet(TypeOrder) IN
  /\ \A d \in Drafts : Fits(d)
  /\ \A f \in Markdowns : Importable(f) => Fits(Normalized(NoteOf(f)))

\* What the user writes is told from what is in notes by its text.
Own == {Above, Initial, Below}

ASSUME OwnAssumption ==
  /\ Own \subseteq Line /\ \A l \in Own : l.kind = "text" /\ l.text # ""
  /\ Above.text # Initial.text /\ Above.text # Below.text /\ Initial.text # Below.text
  /\ \A d \in Drafts : \A l \in ToSet(d.body) : \A o \in Own : l.text # o.text
  /\ \A f \in File : \A l \in ToSet(Doc[f]) : \A o \in Own : l.text # o.text

VARIABLES
  notes,
  clock,     \* the stamp of the latest write
  importing, \* the entries an import has listed and not come to yet
  stage,     \* how far it is
  told,      \* those it has reported as skipped
  file,
  export,    \* how far an export is
  section,   \* what it is going to write
  seen,      \* the file it has read
  mine,      \* what the user has written and may count on
  spoilt     \* an edit or a kill has met an export at the wrong moment

store  == <<notes, clock>>
import == <<importing, stage, told>>
page   == <<file, mine, spoilt>>
vars   == <<notes, clock, importing, stage, told, file, export, section, seen, mine, spoilt>>

Init ==
  /\ notes = <<>> /\ clock = 0
  /\ importing = <<>> /\ stage = "idle" /\ told = {}
  /\ file = <<>> /\ mine = <<>> /\ spoilt = FALSE
  /\ export = "idle" /\ section = <<>> /\ seen = <<>>

----------------------------------------------------------------------------
Stored(n) ==
  [field \in DOMAIN n \union {"updated"} |-> IF field = "updated" THEN clock' ELSE n[field]]

\* A write of a note: Put.
Save(n) ==
  /\ Len(notes) < MaxNotes /\ clock < MaxTime
  /\ clock' = clock + 1
  /\ notes' = Append(notes, Stored(n))

Put(d) == Save(d) /\ UNCHANGED <<import, page, export, section, seen>>

\* Deprecate, without a reason.
Deprecate(i) ==
  /\ notes[i].status # "deprecated" /\ clock < MaxTime
  /\ clock' = clock + 1
  /\ notes' = [notes EXCEPT ![i].status = "deprecated", ![i].updated = clock']
  /\ UNCHANGED <<import, page, export, section, seen>>

----------------------------------------------------------------------------
\* An import lists the directory, ...
StartImport ==
  /\ stage = "idle" /\ export = "idle"
  /\ stage' = "busy"
  /\ importing' = Names
  /\ UNCHANGED <<store, told, page, export, section, seen>>

Here == importing[1]

Next1 == importing' = Tail(importing)

\* Slip: it tells what it passes over.
TellPassedOver ==
  /\ stage = "busy" /\ importing # <<>> /\ Here \notin Markdowns
  /\ Next1 /\ told' = told \union {Here}
  /\ UNCHANGED <<store, stage, page, export, section, seen>>

\* ... passes over what is not a note, ...
PassOver ==
  /\ stage = "busy" /\ importing # <<>> /\ Here \notin Markdowns
  /\ Next1
  /\ UNCHANGED <<store, stage, told, page, export, section, seen>>

\* ... puts the notes of the others, ...
ImportFile ==
  /\ stage = "busy" /\ importing # <<>> /\ Here \in Markdowns
  /\ Importable(Here)
  /\ Save(Normalized(NoteOf(Here)))
  /\ Next1
  /\ UNCHANGED <<stage, told, page, export, section, seen>>

\* Slip: it ends at a file that it cannot import.
EndAtBadFile ==
  /\ stage = "busy" /\ importing # <<>> /\ Here \in Markdowns
  /\ ~Importable(Here)
  /\ importing' = <<>> /\ told' = told \union {Here}
  /\ UNCHANGED <<store, stage, page, export, section, seen>>

\* ... and skips those that Parse or Put refuse, or Put fails for, with a
\* message.
SkipFile ==
  /\ stage = "busy" /\ importing # <<>> /\ Here \in Markdowns
  /\ Next1 /\ told' = told \union {Here}
  /\ UNCHANGED <<store, stage, page, export, section, seen>>

\* It says how many it has imported.
EndImport ==
  /\ stage = "busy" /\ importing = <<>>
  /\ stage' = "idle" /\ told' = {}
  /\ UNCHANGED <<store, importing, page, export, section, seen>>

\* It fails for a file that it cannot read, or is killed: what it has imported
\* stays, and the next import puts it once more.
AbortImport ==
  /\ stage = "busy" /\ importing # <<>>
  /\ stage' = "idle" /\ importing' = <<>> /\ told' = {}
  /\ UNCHANGED <<store, page, export, section, seen>>

----------------------------------------------------------------------------
NewLine == [kind |-> "newline", key |-> "", text |-> ""]
Begin   == [kind |-> "mark", key |-> "", text |-> "begin"]
End     == [kind |-> "mark", key |-> "", text |-> "end"]

Lined(ls) == FlattenSeq([i \in DOMAIN ls |-> <<ls[i], NewLine>>])

\* The notes exported: at most MaxLimit, of the user and those he may see.
Exported == List(notes, [NoFilter EXCEPT !.project = Target, !.limit = MaxLimit, !.viewer = Me])

Section ==
  LET Entry(i) == <<Heading(notes[i].title), NewLine>> \o Lined(notes[i].body) IN
  <<Begin, NewLine>>
    \o FlattenSeq([k \in DOMAIN Exported |-> Entry(Exported[k])])
    \o <<End, NewLine>>

Places(text, mark) == {i \in DOMAIN text : text[i] = mark}

\* Every line but the last has its end; the last may have.
Ended(text) == IF text # <<>> /\ text[Len(text)] # NewLine THEN Append(text, NewLine) ELSE text

\* A first section goes to the end of the file, ...
Appended(text, s) == Ended(text) \o <<NewLine>> \o s

\* Slip: the end marker and its line stay.
ReplacedShort(text, s) ==
  SubSeq(text, 1, Min(Places(text, Begin)) - 1) \o s
    \o SubSeq(text, Min(Places(text, End)) + 1, Len(text))

\* Slip: what follows the section is lost.
ReplacedToEnd(text, s) == SubSeq(text, 1, Min(Places(text, Begin)) - 1) \o s

\* ... and a later one takes its place, the one character after the end marker
\* included: it should be the end of its line.
Replaced(text, s) ==
  SubSeq(text, 1, Min(Places(text, Begin)) - 1) \o s
    \o SubSeq(text, Min(Places(text, End)) + 2, Len(text))

Updated(text, s) == IF Places(text, Begin) = {} THEN Appended(text, s) ELSE Replaced(text, s)

\* An end marker that is missing or comes first is an error, and where nothing
\* follows it, slicing the text panics.
CanUpdate(text) ==
  Places(text, Begin) # {} =>
    /\ Places(text, End) # {}
    /\ Min(Places(text, End)) > Min(Places(text, Begin))
    /\ Min(Places(text, End)) < Len(text)

\* An export reads the notes and then the file.  Nothing it does depends on
\* what others write in between: they could as well have done it before or
\* after both.  A file it cannot update ends it, and is left as it was.
ReadPage ==
  /\ export = "idle" /\ stage = "idle" /\ ~spoilt /\ Len(file) < MaxText
  /\ CanUpdate(file)
  /\ export' = "read" /\ section' = Section /\ seen' = file
  /\ UNCHANGED <<store, import, page>>

\* ... empties it, ...
Truncate ==
  /\ export = "read"
  /\ export' = "truncated"
  /\ file' = <<>>
  /\ UNCHANGED <<store, import, section, seen, mine, spoilt>>

\* ... and writes it.
WritePage ==
  /\ export = "truncated"
  /\ file' = Updated(seen, section)
  /\ export' = "idle" /\ section' = <<>> /\ seen' = <<>>
  /\ UNCHANGED <<store, import, mine, spoilt>>

KillExport ==
  /\ export # "idle"
  /\ spoilt' = (spoilt \/ export = "truncated")
  /\ export' = "idle" /\ section' = <<>> /\ seen' = <<>>
  /\ UNCHANGED <<store, import, file, mine>>

----------------------------------------------------------------------------
\* The user saves the file with an edit; an export that has read it will
\* overwrite the edit.
Edit ==
  /\ ~spoilt /\ stage = "idle"
  /\ spoilt' = (export \in {"read", "truncated"})
  /\ UNCHANGED <<store, import, export, section, seen>>

\* A line above everything else, which may quote the begin marker, or both,
\* unless that puts what he has written between two markers, ...
WriteAbove ==
  /\ ~Contains(mine, Above)
  /\ \E quoted \in {<<>>, <<Begin>>, <<Begin, End>>} :
       /\ quoted # <<>> =>
            \A i, m \in DOMAIN file : file[i] \in Own /\ file[m] \in {Begin, End} => m < i
       /\ file' = <<Above>> \o quoted \o <<NewLine>> \o file
  /\ mine' = <<Above>> \o mine
  /\ Edit

\* ... or text below, on a line of its own or right behind what ends the file;
\* an export takes the character behind an end marker for the end of its line.
WriteBelow ==
  /\ ~Contains(mine, Below)
  /\ \E text \in {file, Ended(file)} :
       /\ file' = text \o <<Initial, Below, NewLine>>
       /\ mine' = mine \o
            (IF text # <<>> /\ text[Len(text)] = End THEN <<Below>> ELSE <<Initial, Below>>)
  /\ Edit

\* ... or no end of the last line, ...
DropNewLine ==
  /\ file # <<>> /\ file[Len(file)] = NewLine
  /\ file' = SubSeq(file, 1, Len(file) - 1)
  /\ UNCHANGED mine
  /\ Edit

\* ... or no end marker.
DropEnd ==
  /\ Places(file, End) # {}
  /\ file' = RemoveAt(file, Min(Places(file, End)))
  /\ UNCHANGED mine
  /\ Edit

Importing == StartImport \/ PassOver \/ ImportFile \/ SkipFile \/ EndImport \/ AbortImport

Exporting == ReadPage \/ Truncate \/ WritePage \/ KillExport

Editing == WriteAbove \/ WriteBelow \/ DropNewLine \/ DropEnd

Next ==
  \/ \E d \in Drafts : Put(d)
  \/ \E i \in DOMAIN notes : Deprecate(i)
  \/ Importing \/ Exporting \/ Editing

Spec == Init /\ [][Next]_vars

----------------------------------------------------------------------------
NoteTypes == [project : STRING, title : STRING, type : STRING, scope : KnownScopes,
              author : STRING, status : KnownStatuses, tags : SUBSET STRING,
              body : Seq(Line), updated : 1 .. MaxTime]

\* Every variable has its type.
TypeOK ==
  /\ notes \in Seq(NoteTypes) /\ clock \in 0 .. MaxTime
  /\ told \subseteq Markdowns
  /\ importing \in Seq(File) /\ stage \in {"idle", "busy"}
  /\ file \in Seq(Line \union {NewLine}) /\ mine \in Seq(Own) /\ spoilt \in BOOLEAN
  /\ section \in Seq(Line \union {NewLine}) /\ seen \in Seq(Line \union {NewLine})
  /\ export \in {"idle", "read", "truncated"}

\* What a user has written around the section is there, to the character and in
\* its order, whatever was exported and edited in which order, with markers that
\* were damaged or that a note or the user himself quotes ("into a section
\* between marker comments", FR-13).  Excepted are the cases the code has no
\* answer to: an edit between the reading and the writing of an export, a kill
\* in the middle of os.WriteFile (spoilt), and the character right behind an end
\* marker, which an export drops (WriteBelow does not count it as his); and what
\* the user himself puts between two markers (see WriteAbove).
OwnLinesKept ==
  LET own == {i \in DOMAIN file : Contains(mine, file[i])} IN
  ~spoilt /\ export # "truncated" =>
    \E at \in [DOMAIN mine -> own] :
      /\ \A k \in DOMAIN mine : file[at[k]] = mine[k]
      /\ \A j, k \in DOMAIN mine : j < k => at[j] < at[k]
      /\ \A i \in own : \E k \in DOMAIN mine : at[k] = i

\* "export is idempotent": with the same notes, a second export of the same day
\* (a section starts with its date) would leave the file as the first one did,
\* however the file came about; as long as no note quotes a marker.
ExportIdempotent ==
  LET made == Section
      once == Updated(file, made) IN
  (CanUpdate(file) /\ \A i \in DOMAIN notes : \A l \in ToSet(notes[i].body) : l.kind # "mark")
    => CanUpdate(once) /\ Updated(once, made) = once

\* An import that comes to its end has put every note of the directory it
\* listed, text and description whole, or has told which it did not.
KeepsText(n, doc) ==
  /\ \A l \in ToSet(Trimmed(BodyOf(doc))) : Contains(n.body, l)
  /\ SummaryHint(doc) # "" => \E l \in ToSet(n.body) : l.text = SummaryHint(doc)

ImportTakesAll ==
  [][EndImport =>
       \A f \in Markdowns \ told :
         \E n \in ToSet(notes) : n.project = Target /\ KeepsText(n, Doc[f])]_vars

\* What "openmind get" prints of a note is read back as the same note.
GetReadsBack ==
  \A n \in ToSet(notes) :
    LET back == Parsed(Markdown(n)) IN
    /\ Parses(Markdown(n))
    /\ \A field \in DOMAIN back : back[field] = n[field]

\* Lists go by the clock as far as seconds: a note that the limit leaves out is
\* not a second or more newer than one that is listed, and "since" misses no
\* note of a later second (see what changed) and lists none of an earlier one.
ListFollowsClock ==
  \A t \in 0 .. clock :
    LET f == [NoFilter EXCEPT !.project = Target, !.viewer = Me, !.since = t]
        listed == ToSet(List(notes, f)) IN
    \A i \in DOMAIN notes :
      LET s == Second(notes[i].updated) IN
      /\ i \in listed => s >= Second(t)
      /\ Where([f EXCEPT !.since = 0], notes[i]) /\ s > Second(t) /\ i \notin listed
         => Len(List(notes, f)) = Limit(f) /\ \A j \in listed : Second(notes[j].updated) >= s

\* The digest "so it fits a client's startup budget": it exceeds MaxBytes by a
\* heading and the line that says it is cut at most.
Digest == Render(notes, Exported)

DigestFits == HeaderSize <= MaxBytes => Digest.size <= MaxBytes + HeadingSize + CutSize

\* The digest leaves out no note that was listed without saying so, and of a
\* type it leaves out the older ones.
DigestTells ==
  LET digest == Digest
      listed == ToSet(Exported)
      shown  == ToSet(digest.shown) IN
  /\ ~digest.cut => shown = listed
  /\ \A i \in listed \ shown, j \in shown :
       notes[i].type = notes[j].type => Second(notes[i].updated) <= Second(notes[j].updated)

\* "openmind_search(query, project?, scope?, tags?, limit?)  Ranked notes":
\* a query is answered, whatever else is asked.
SearchAnswers ==
  \A n \in ToSet(notes), tags \in {{}, {"imported"}} :
    LET f == [NoFilter EXCEPT !.project = Target, !.viewer = Me, !.tags = tags] IN
    Found(notes, {n.title}, f) # {} => ~Refused({n.title}, f)
=============================================================================
