--------------------------- MODULE MCActivityDesk ---------------------------
(***************************************************************************)
(* ActivityDesk for TLC: a server with one handler.                        *)
(***************************************************************************)
EXTENDS ActivityDesk

Homes == [h \in Handler |-> "server"]
=============================================================================
