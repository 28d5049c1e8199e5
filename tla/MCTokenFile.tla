---------------------------- MODULE MCTokenFile ----------------------------
(***************************************************************************)
(* TokenFile for TLC: ann has two tokens, bob one.                         *)
(***************************************************************************)
EXTENDS TokenFile

CONSTANTS ann, bob, t1, t2, t3

Names == [t \in Token |-> IF t = t3 THEN bob ELSE ann]
============================================================================
