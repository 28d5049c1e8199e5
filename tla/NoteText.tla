------------------------------ MODULE NoteText ------------------------------
(***************************************************************************)
(* Notes as text: what note.Parse and Note.Markdown                        *)
(* (internal/note/note.go) make of a document, what Put accepts            *)
(* (Normalize, and the secret scanner of internal/secrets), and what       *)
(* "openmind import" (cmd/openmind/main.go) makes of a file.               *)
(*                                                                         *)
(* A document is a sequence of lines.  Of a line is kept what the parser   *)
(* looks at: whether it starts with "---" (fence), with "#" (head), is a   *)
(* "key: value" of frontmatter, is blank, holds one of the markers of an   *)
(* exported section (mark), or is text.  A text is a name for a text.      *)
(* Id, time stamps, source and revision of a document are left out: an     *)
(* import does not use them, or the store replaces them.                   *)
(***************************************************************************)
EXTENDS Naturals, SequencesExt

CONSTANTS
  Credential,    \* the texts a rule of the scanner matches
  Prefix,        \* the note type that a file name starts with, or ""
  KnownScopes,   \* what Normalize accepts
  KnownStatuses

ASSUME KnownAssumption ==
  /\ KnownScopes \subseteq STRING /\ KnownStatuses \subseteq STRING
  /\ "project" \in KnownScopes /\ {"active", "deprecated"} \subseteq KnownStatuses

\* So it is; but the provers have no rule that says it.
ASSUME LiteralAssumption ==
  {"", "---", "begin", "end", "title", "type", "scope", "project", "author", "status", "tags",
   "active", "deprecated", "imported"} \subseteq STRING

Line == [kind : {"fence", "head", "key", "blank", "mark", "text"}, key : STRING, text : STRING]

Fence(rest)  == [kind |-> "fence", key |-> "", text |-> rest]
Heading(t)   == [kind |-> "head", key |-> "", text |-> t]
Key(k, v)    == [kind |-> "key", key |-> k, text |-> v]
Plain(t)     == [kind |-> "text", key |-> "", text |-> t]
Blank        == [kind |-> "blank", key |-> "", text |-> ""]

Opening == Fence("")

----------------------------------------------------------------------------
\* strings.TrimSpace on a body.
Trimmed(ls) ==
  LET full == {i \in DOMAIN ls : ls[i].kind # "blank"} IN
  IF full = {} THEN <<>> ELSE SubSeq(ls, Min(full), Max(full))

\* The text of a line taken for a title.
Shown(l) == IF l.kind = "fence" THEN "---" ELSE l.text

FirstHeading(body) ==
  LET heads == {i \in DOMAIN body : body[i].kind = "head"} IN
  CASE heads # {} -> body[Min(heads)].text
    [] heads = {} /\ body # <<>> -> Shown(body[1])
    [] OTHER -> ""

\* Frontmatter is what is between a first line "---" and the next line that
\* starts with it, which may go on.
Framed(doc)   == doc # <<>> /\ doc[1] = Opening
Closings(doc) == {i \in 2 .. Len(doc) : doc[i].kind = "fence"}

\* Slip: it goes on to the last such line.
LastClosing(doc) == Max(Closings(doc))

Closing(doc) == Min(Closings(doc))

FrontOf(doc) == IF Framed(doc) THEN SubSeq(doc, 2, Closing(doc) - 1) ELSE <<>>

BodyOf(doc) ==
  IF Framed(doc)
  THEN LET rest == doc[Closing(doc)].text IN
       <<IF rest = "" THEN Blank ELSE Plain(rest)>> \o SubSeq(doc, Closing(doc) + 1, Len(doc))
  ELSE doc

\* A mapping: comments aside, keys that differ.  A list is its elements, with
\* the key before each.
IsYaml(front) ==
  /\ \A i \in DOMAIN front : front[i].kind \in {"key", "head", "blank"}
  /\ \A i, j \in DOMAIN front :
       front[i].kind = "key" /\ front[j].kind = "key" /\ front[i].key = front[j].key
         => i = j \/ front[i].key = "tags"

\* Parse returns an error for the others.
Parses(doc) == Framed(doc) => Closings(doc) # {} /\ IsYaml(FrontOf(doc))

Value(front, k) ==
  LET at == {i \in DOMAIN front : front[i].kind = "key" /\ front[i].key = k} IN
  IF at = {} THEN "" ELSE front[Min(at)].text

Items(front, k) ==
  {front[i].text : i \in {j \in DOMAIN front : front[j].kind = "key" /\ front[j].key = k}}

\* The first of some values that is not empty.
FirstOf(s, t) == IF s # "" THEN s ELSE t

Parsed(doc) ==
  LET front == FrontOf(doc)
      body  == Trimmed(BodyOf(doc))
      V(k)  == Value(front, k) IN
  [title   |-> FirstOf(FirstOf(V("title"), V("name")), FirstHeading(body)),
   type    |-> FirstOf(V("type"), V("metadata.type")),
   scope   |-> V("scope"),
   project |-> V("project"),
   author  |-> V("author"),
   status  |-> V("status"),
   tags    |-> Items(front, "tags"),
   body    |-> body]

SummaryHint(doc) == Value(FrontOf(doc), "description")

\* A key that is left out when it has no value.
Optional(k, v) == IF v = "" THEN <<>> ELSE <<Key(k, v)>>

Markdown(n) ==
  <<Opening, Key("title", n.title), Key("type", n.type), Key("scope", n.scope), Key("project", n.project)>>
  \o FlattenSeq([i \in 1 .. Len(SetToSeq(n.tags)) |-> <<Key("tags", SetToSeq(n.tags)[i])>>])
  \o Optional("author", n.author) \o <<Key("status", n.status), Opening>> \o n.body

----------------------------------------------------------------------------
\* Put: Normalize with its defaults, ...
Normalized(n) ==
  [n EXCEPT !.type = FirstOf(@, "project"), !.scope = FirstOf(@, "project"),
            !.status = FirstOf(@, "active"), !.body = Trimmed(@)]

Valid(n) ==
  /\ n.project # "" /\ n.title # "" /\ n.body # <<>>
  /\ n.scope \in KnownScopes /\ n.status \in KnownStatuses

\* ... and Scan.
HoldsSecret(n) == n.title \in Credential \/ \E i \in DOMAIN n.body : n.body[i].text \in Credential

Accepted(n) == Valid(Normalized(n)) /\ ~HoldsSecret(Normalized(n))

----------------------------------------------------------------------------
TypeFromFilename(f) == FirstOf(Prefix[f], "project")

\* The description goes first, unless the body has it.
WithHint(h, body) ==
  IF h = "" \/ \E i \in DOMAIN body : body[i].text = h THEN body
  ELSE <<Plain(h), Blank>> \o body

\* The note that an import by user me puts for file f with document doc.
Imported(f, doc, project, scope, me) ==
  LET n == Parsed(doc) IN
  [n EXCEPT !.project = project, !.scope = scope,
            !.type = FirstOf(@, TypeFromFilename(f)),
            !.body = WithHint(SummaryHint(doc), @),
            !.tags = @ \union {"imported"},
            !.author = FirstOf(@, me)]
=============================================================================
