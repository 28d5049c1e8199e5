--------------------------- MODULE MCActivityLog ---------------------------
(***************************************************************************)
(* ActivityLog and ClientStats for TLC: the server handles two calls at a  *)
(* time, and a session of "openmind mcp" handles one.                      *)
(***************************************************************************)
EXTENDS ClientStats

Homes == [h \in Handler |-> IF h = "session" THEN "mcp" ELSE "server"]

Callers == [h \in Handler |-> IF h = "a" THEN "ann" ELSE "bob"]
=============================================================================
