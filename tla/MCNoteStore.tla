---------------------------- MODULE MCNoteStore ----------------------------
(***************************************************************************)
(* NoteStore for TLC.  The server handles requests of ann and bob; an      *)
(* "openmind put" of ann's that knows no author name runs next to it.      *)
(***************************************************************************)
EXTENDS NoteStore, FiniteSets, TLC

CONSTANTS ann, bob, annCalls, bobCalls, command, server, cli, main

TwoHomes == [c \in Client |-> IF c = command THEN cli ELSE server]

Callers == [c \in Client |->
  CASE c = annCalls -> ann [] c = bobCalls -> bob [] OTHER -> NoUser]

SignAsSelf == [c \in Client |-> {Callers[c]}]

AllGranted == [c \in Client |-> Project]

Ids == Permutations(NoteId)
============================================================================
