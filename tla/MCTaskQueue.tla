---------------------------- MODULE MCTaskQueue ----------------------------
(***************************************************************************)
(* TaskQueue for TLC: two users, the first with two workers and a token    *)
(* that sees only one of two projects, the second with one worker and one  *)
(* that sees both.  A task of project q queued for ann can never be        *)
(* claimed, and must not hold up those of project p behind it.             *)
(***************************************************************************)
EXTENDS TaskQueue, TLC

CONSTANTS ann, bob, wa1, wa2, wb, p, q

MCOwner == (wa1 :> ann) @@ (wa2 :> ann) @@ (wb :> bob)

MCGrants == (ann :> {p}) @@ (bob :> {p, q})

Ids == Permutations(TaskId)
============================================================================
