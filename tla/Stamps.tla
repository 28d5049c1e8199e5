------------------------------- MODULE Stamps -------------------------------
(***************************************************************************)
(* Time stamps as the store keeps and compares them: as text.              *)
(*                                                                         *)
(* A stamp is a number of units since some second.  It is written with     *)
(* RFC3339Nano, which leaves out trailing zeros and, for a whole second,   *)
(* the whole fraction; and it is the texts that SQLite compares: "05Z"     *)
(* comes after "05.5Z".  Fractions have one digit here; with more digits   *)
(* the same happens to a fraction that continues another one.              *)
(***************************************************************************)
EXTENDS Naturals

CONSTANT Unit   \* units of a second

ASSUME UnitAssumption == Unit \in Nat \ {0}

Second(t)   == t \div Unit
Fraction(t) == t % Unit

\* The text of stamp s comes before that of t.
WrittenBefore(s, t) ==
  \/ Second(s) < Second(t)
  \/ /\ Second(s) = Second(t) /\ Fraction(s) # 0
     /\ Fraction(t) = 0 \/ Fraction(s) < Fraction(t)
=============================================================================
