---------------------------- MODULE MCNoteFiles ----------------------------
(***************************************************************************)
(* NoteFiles for TLC: a directory with a note of Claude Code, one that     *)
(* holds a credential and the index; ann exports, and others put a note    *)
(* that quotes the end marker and has a rule in its text, and a personal   *)
(* one.                                                                    *)
(***************************************************************************)
EXTENDS NoteFiles

Directory == <<"MEMORY.md", "b.md", "decision-c.md">>

Scopes == {"personal", "project", "team"}
Statuses == {"draft", "active", "deprecated"}

TypePrefixes == [f \in File |-> IF f = "decision-c.md" THEN "decision" ELSE ""]

Documents == [f \in File |->
  CASE f = "MEMORY.md" -> <<Plain("index")>>
    [] f = "b.md" -> <<Opening, Key("name", "key"), Fence(""), Plain("sk-1")>>
    [] OTHER -> <<Opening, Key("description", "why"), Fence(""), Blank, Plain("intro"), Heading("use")>>]

Draft(title, type, scope, author, tags, body) ==
  [project |-> "p", title |-> title, type |-> type, scope |-> scope, author |-> author,
   status |-> "active", tags |-> tags, body |-> body]

Written == {
  Draft("quote", "decision", "project", "bob", {}, <<Plain("between"), End>>),
  Draft("own", "lore", "personal", "ann", {"go", "sql"}, <<Plain("mine"), Fence("")>>)}

Order == <<"decision", "project", "lore">>

Sizes == [t \in {"quote", "own", "use", "key"} |-> IF t = "own" THEN 2 ELSE 4]

TopLine == Plain("first")
BottomFirst == Plain("l")
BottomRest == Plain("ast")
============================================================================
