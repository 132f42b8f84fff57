------------------------------ MODULE MCVoteRisk ------------------------------
(* VoteRisk over groups of five responses.                                   *)
(* The order of the correct and of the excluded responses among the others   *)
(* means nothing: they come first.                                           *)
EXTENDS VoteRisk

Right == [acc |-> 1, format |-> TRUE, answer |-> "right", adv |-> 2]
Excluded ==
  {[acc |-> 0, format |-> FALSE, answer |-> "a", adv |-> -2],
   [acc |-> 0, format |-> TRUE, answer |-> "none", adv |-> -2]}
WrongOnes == [acc : {0}, format : {TRUE}, answer : {"a", "b", "c"}, adv : {-2, 1}]

FiveEach ==
  UNION {{[i \in 1 .. 5 |-> IF i <= c THEN Right ELSE w[i]] :
             w \in [c + 1 .. 5 -> WrongOnes]} : c \in 1 .. 4}
  \cup {[i \in 1 .. 5 |-> IF i = 1 THEN Right ELSE IF i = 2 THEN x ELSE w[i]] :
         x \in Excluded, w \in [3 .. 5 -> WrongOnes]}

Same == {<<a, a>> : a \in {"a", "b", "c", "none"}}
Checkers ==
  {Same,                                       (* all different             *)
   Same \cup {<<"a", "b">>, <<"b", "a">>},     (* a and b are equal         *)
   Same \cup {<<"b", "a">>, <<"c", "b">>}}     (* not transitive, one way   *)
=============================================================================
