------------------------------ MODULE MCAccess ------------------------------
(***************************************************************************)
(* Access for TLC.                                                         *)
(***************************************************************************)
EXTENDS Access, TLC

CONSTANTS ann, t1, c1, c2, s1, s2

Names == [t \in Token |-> ann]

Alike == Permutations(Command) \union Permutations(Session)
============================================================================
