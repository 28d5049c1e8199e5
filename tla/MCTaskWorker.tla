---------------------------- MODULE MCTaskWorker ----------------------------
(***************************************************************************)
(* TaskWorker for TLC: one project, and either two workers that share the  *)
(* token of one user, or one worker alone.                                 *)
(***************************************************************************)
EXTENDS TaskWorker, TLC

CONSTANTS ann, w1, w2, p

Shared == (w1 :> ann) @@ (w2 :> ann)

Alone == w1 :> ann

OneProject == [u \in User |-> {p}]

Ids == Permutations(TaskId)
=============================================================================
