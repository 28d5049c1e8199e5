----------------------------- MODULE NoteQuery -----------------------------
(***************************************************************************)
(* Reading notes: the filter that List and Search share, their limit and   *)
(* order (internal/store/store.go), and the digest made of a list          *)
(* (internal/digest/digest.go).                                            *)
(***************************************************************************)
EXTENDS Stamps, FiniteSets, SequencesExt

CONSTANTS
  DefaultLimit,  \* 50, and
  MaxLimit,      \* 500
  TypeOrder,     \* decision to user, then all other types by name
  LineSize,      \* the size of a note's line in a digest, by its title
  HeaderSize,    \* the sizes of the first lines of a digest, of the heading of
  HeadingSize,   \* a type, and of the line that says it is cut
  CutSize,
  MaxBytes

ASSUME LimitAssumption == DefaultLimit \in Nat \ {0} /\ MaxLimit \in Nat
ASSUME SizeAssumption ==
  /\ {HeaderSize, HeadingSize, CutSize, MaxBytes} \subseteq Nat
  /\ \A t \in DOMAIN LineSize : LineSize[t] \in Nat
ASSUME OrderAssumption == TypeOrder \in Seq(STRING)

----------------------------------------------------------------------------
\* A filter; "" and 0 stand for what is not asked.
NoFilter == [project |-> "", type |-> "", scope |-> "", status |-> "", tags |-> {},
             since |-> 0, limit |-> 0, viewer |-> ""]

Limit(f) == IF f.limit = 0 \/ f.limit > MaxLimit THEN DefaultLimit ELSE f.limit

Asked(want, has) == want = "" \/ want = has

StatusAsked(f) == IF f.status = "" THEN "active" ELSE f.status

\* The WHERE clause.
Where(f, n) ==
  /\ Asked(f.project, n.project) /\ Asked(f.type, n.type) /\ Asked(f.scope, n.scope)
  /\ StatusAsked(f) \in {"any", n.status}
  /\ f.since = 0 \/ ~WrittenBefore(n.updated, f.since)
  /\ n.scope = "personal" => n.author = f.viewer
  /\ f.tags \subseteq n.tags

Matching(notes, f) == {i \in DOMAIN notes : Where(f, notes[i])}

\* The orders in which a query may return what it has found.
Orders(hits) == {found \in [1 .. Cardinality(hits) -> hits] : IsInjective(found)}

\* Slip: oldest first.
OldestFirst(notes, hits) ==
  CHOOSE found \in Orders(hits) :
    \A j, k \in DOMAIN found :
      j < k => ~WrittenBefore(notes[found[k]].updated, notes[found[j]].updated)

\* ORDER BY updated DESC
NewestFirst(notes, hits) ==
  CHOOSE found \in Orders(hits) :
    \A j, k \in DOMAIN found :
      j < k => ~WrittenBefore(notes[found[j]].updated, notes[found[k]].updated)

\* List: the places of the notes found.
List(notes, f) ==
  LET found == NewestFirst(notes, Matching(notes, f)) IN
  SubSeq(found, 1, Min({Limit(f), Len(found)}))

\* Search: which notes a query of some words finds, whatever their order.  The
\* query joins notes with notes_fts, and SQLite refuses a column name that
\* both have, unless it is qualified.
FtsColumns == {"title", "body", "tags"}

ColumnsOf(f) == {"scope", "author"} \union (IF f.tags # {} THEN {"tags"} ELSE {})
                \union (IF f.since # 0 THEN {"updated"} ELSE {})

Refused(query, f) == query # {} /\ ColumnsOf(f) \intersect FtsColumns # {}

WordsOf(n) == {n.title} \union {n.body[i].text : i \in DOMAIN n.body} \union n.tags

Found(notes, query, f) == {i \in Matching(notes, f) : query \subseteq WordsOf(notes[i])}

----------------------------------------------------------------------------
\* The digest of a list of notes: what is written, how long it is, and whether
\* it was cut.
StartDigest == [size |-> HeaderSize, shown |-> <<>>, cut |-> FALSE]

WriteHeading(d) == [d EXCEPT !.size = @ + HeadingSize]

Cut(d) == [d EXCEPT !.size = @ + CutSize, !.cut = TRUE]

\* Slip: the limit is noticed when it was passed.
WriteNoteAnyway(d, n, i) ==
  IF d.size > MaxBytes THEN Cut(d)
  ELSE [d EXCEPT !.size = @ + LineSize[n.title], !.shown = Append(@, i)]

\* Slip: a note that does not fit is passed over.
WriteNoteThatFits(d, n, i) ==
  IF d.size + LineSize[n.title] > MaxBytes THEN d
  ELSE [d EXCEPT !.size = @ + LineSize[n.title], !.shown = Append(@, i)]

WriteNote(d, n, i) ==
  IF d.size + LineSize[n.title] > MaxBytes THEN Cut(d)
  ELSE [d EXCEPT !.size = @ + LineSize[n.title], !.shown = Append(@, i)]

\* One type: its heading, then the notes of the list that are of it; nothing
\* more once it was cut.
WriteGroup(notes, d, list, type) ==
  LET written[k \in 0 .. Len(list)] ==
        IF k = 0 THEN WriteHeading(d)
        ELSE IF written[k - 1].cut \/ notes[list[k]].type # type THEN written[k - 1]
        ELSE WriteNote(written[k - 1], notes[list[k]], list[k])
  IN  IF d.cut \/ \A k \in DOMAIN list : notes[list[k]].type # type THEN d
      ELSE written[Len(list)]

Render(notes, list) ==
  LET rendered[k \in 0 .. Len(TypeOrder)] ==
        IF k = 0 THEN StartDigest ELSE WriteGroup(notes, rendered[k - 1], list, TypeOrder[k])
  IN  rendered[Len(TypeOrder)]
=============================================================================
