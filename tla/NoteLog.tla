------------------------------ MODULE NoteLog ------------------------------
(***************************************************************************)
(* What the note store promises of the versions of a note ("every write    *)
(* creates a new revision; old ones are kept"): they form a log that only  *)
(* ever grows by one version, the next revision of the same note.          *)
(***************************************************************************)
EXTENDS Naturals

CONSTANT NoteId

VARIABLE log   \* all versions each note ever had

Init == log = [n \in NoteId |-> {}]

\* v is the first version of a log, or follows its latest one.
IsNext(v, versions) ==
  /\ \A u \in versions : u.revision < v.revision
  /\ v.revision = 1 \/ \E u \in versions : v.revision = u.revision + 1

Write(n) ==
  \E v \in log'[n] :
    /\ IsNext(v, log[n])
    /\ log' = [log EXCEPT ![n] = @ \union {v}]

Next == \E n \in NoteId : Write(n)

Spec == Init /\ [][Next]_log
============================================================================
