----------------------------- MODULE MCFrontEnd -----------------------------
(***************************************************************************)
(* The front end on a ring of three blocks of four bytes.                  *)
(***************************************************************************)
EXTENDS FrontEnd

CONSTANT Patterns

(* Code in which the lengths go through 1, 2 and 3 at every stride. *)
PatternCodes ==
  {[len |-> [a \in 0 .. 11 |-> 1 + ((p[1] * a + p[2]) % 3)], low |-> {5, 8}] : p \in Patterns}
AllPatterns == (1 .. 2) \X (0 .. 2) \cup {<<0, 2>>}
BlockAddrs == {0, 4, 8}
=============================================================================
