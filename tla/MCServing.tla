----------------------------- MODULE MCServing -----------------------------
(***************************************************************************)
(* Serving for TLC: of two conversations one may have a second turn, whose *)
(* versions are merged with those of the first.                            *)
(***************************************************************************)
EXTENDS Serving

CONSTANTS r1, r2

Turns == [r \in Request |-> IF r = r1 THEN 2 ELSE 1]
OneTurn == [r \in Request |-> 1]
=============================================================================
