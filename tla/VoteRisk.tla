------------------------------- MODULE VoteRisk -------------------------------
(***************************************************************************)
(* VoteRisk advantage shaping of one prompt's group of responses: the      *)
(* reviewed implementation (experiments/voterisk/vote_risk_impl.py), which *)
(* recipe/dapo/main_dapo.py installs, and the one of                       *)
(* verl/trainer/ppo/core_algos.py, which stays in force under the other    *)
(* launchers.  Answers are clustered one after another, then the wrong     *)
(* responses' advantages are corrected.  Arithmetic is exact: every        *)
(* quantity is an integer over a denominator common to the group.  The     *)
(* risk of a mode is the closed form of VoteThreat.                        *)
(***************************************************************************)
EXTENDS VoteThreat, Sequences, FiniteSetsExt

CONSTANTS
  Groups,      (* the groups considered: sequences of responses              *)
  Answer,      (* what is extracted from responses                           *)
  NoAnswer,    (* the empty answer                                           *)
  Gradings,    (* relations the equivalence checker may compute: sets of     *)
               (* pairs <<answer, candidate>>                                *)
  ConfiguredG, (* vote_risk_G                                                *)
  LambdaNum, LambdaDen,  (* lambda_vote                                      *)
  Kappa

(* adv is the advantage over a common denominator.                           *)
Response == [acc : {0, 1}, format : BOOLEAN, answer : Answer, adv : Int]

ASSUME VoteRiskAssumption ==
  /\ Groups \subseteq Seq(Response)
  /\ {ConfiguredG, LambdaDen} \subseteq Nat \ {0}
  /\ LambdaNum \in Nat
  /\ Kappa \in Nat /\ Kappa > 1

VARIABLES
  launcher,         (* "dapo" or "ppo"                                       *)
  group,            (* the responses: acc, format, answer and advantage      *)
  graded,           (* what _grade_answer computes                           *)
  phase,            (* "cluster", "skipped" or "shaped"                      *)
  representatives,  (* of the modes found so far                             *)
  rep,              (* representative of each wrong response met so far      *)
  scores            (* the advantages, over Scale                            *)

vars == <<launcher, group, graded, phase, representatives, rep, scores>>

Reviewed == launcher = "dapo"
G == Len(group)

Init ==
  /\ launcher \in {"dapo", "ppo"}
  /\ group \in Groups
  /\ graded \in Gradings
  /\ phase = "cluster"
  /\ representatives = <<>>
  /\ rep = <<>>
  /\ scores = [i \in 1 .. G |-> group[i].adv]

-----------------------------------------------------------------------------
(* The wrong responses that vote; the vendored version also counts those     *)
(* without an answer.                                                        *)
Votes(i) ==
  /\ group[i].acc = 0
  /\ group[i].format
  /\ Reviewed => group[i].answer # NoAnswer

Wrong == {i \in 1 .. G : Votes(i)}
NumWrong == Cardinality(Wrong)
NumCorrect == Cardinality({i \in 1 .. G : group[i].acc = 1})

Identifiable == NumWrong > 1 /\ NumCorrect # 0 /\ NumCorrect # G

Matches(answer) ==
  {r \in DOMAIN representatives : <<answer, representatives[r]>> \in graded}

Unclustered == Wrong \ DOMAIN rep
Joins(i, r) == rep' = [j \in DOMAIN rep \cup {i} |-> IF j = i THEN r ELSE rep[j]]

(* The next wrong response joins the first mode whose representative its     *)
(* answer is graded equal to, or founds one.                                 *)
Cluster ==
  /\ phase = "cluster"
  /\ Identifiable
  /\ \E i \in Unclustered :
       /\ \A j \in Unclustered : i <= j
       /\ LET answer == group[i].answer
          IN IF Matches(answer) # {}
             THEN /\ Joins(i, representatives[Min(Matches(answer))])
                  /\ UNCHANGED representatives
             ELSE /\ Joins(i, answer)
                  /\ representatives' = Append(representatives, answer)
  /\ UNCHANGED <<launcher, group, graded, phase, scores>>

-----------------------------------------------------------------------------
Modes == Range(rep)
Count(m) == Cardinality({i \in DOMAIN rep : rep[i] = m})

(* The size the probabilities are taken over.                                *)
GroupSize == IF Reviewed THEN G ELSE ConfiguredG
Risk(m) == Threat(NumCorrect, Count(m), GroupSize)
RiskDen == ThreatDen(GroupSize)

Abs(x) == IF x < 0 THEN -x ELSE x

DeviationByMode(m) ==   (* the mean over the modes, not the responses *)
  Cardinality(Modes) * Risk(m) - SumFunction([j \in Modes |-> Risk(j)])

(* The deviation of a mode's risk from the mean, times Weight and RiskDen:   *)
(* the mean is over the wrong responses, in the vendored version over the    *)
(* modes.                                                                    *)
Weight == IF Reviewed THEN NumWrong ELSE Cardinality(Modes)
Deviation(m) ==
  IF Reviewed
  THEN NumWrong * Risk(m) - SumFunction([j \in Modes |-> Count(j) * Risk(j)])
  ELSE DeviationByMode(m)
LargestDeviation == Max({Abs(Deviation(m)) : m \in Modes})

(* The deltas' common denominator: that of a signal, the deviation itself or *)
(* in the vendored version its share of the largest, times those of base,    *)
(* lambda and the clip.                                                      *)
SignalDen == IF Reviewed THEN Weight * RiskDen ELSE LargestDeviation
Scale == Kappa * LambdaDen * NumWrong * SignalDen

SumAbs == SumFunction([i \in Wrong |-> Abs(group[i].adv)])

DesiredFaulty(m) ==   (* the signs of the two versions swapped *)
  LET size == Kappa * LambdaNum * SumAbs * Deviation(m)
  IN IF Reviewed THEN size ELSE -size
Desired(m) ==
  LET size == Kappa * LambdaNum * SumAbs * Deviation(m)
  IN IF Reviewed THEN -size ELSE size

MaxDelta(i) == Abs(group[i].adv) * (Scale \div Kappa)

ClippedFaulty(d, max) == d
Clipped(d, max) ==
  IF Abs(d) <= max THEN d ELSE IF d < 0 THEN -max ELSE max

Delta(i) == Clipped(Desired(rep[i]), MaxDelta(i))

(* One mode, or modes of equal risk, have nothing to redistribute.           *)
Redistributes == Cardinality(Modes) > 1 /\ LargestDeviation # 0

Shape ==
  /\ phase = "cluster"
  /\ Identifiable => Unclustered = {}
  /\ IF Identifiable /\ Redistributes
     THEN /\ scores' = [i \in 1 .. G |->
                          group[i].adv * Scale + IF i \in Wrong THEN Delta(i) ELSE 0]
          /\ phase' = "shaped"
     ELSE phase' = "skipped" /\ UNCHANGED scores
  /\ UNCHANGED <<launcher, group, graded, representatives, rep>>

Next == Cluster \/ Shape
Spec == Init /\ [][Next]_vars
-----------------------------------------------------------------------------
Sign(x) == IF x > 0 THEN 1 ELSE IF x < 0 THEN -1 ELSE 0

(* The correction never turns an advantage round, whatever the risks, and    *)
(* leaves the responses that do not vote as they were.                       *)
SignsKept ==
  phase = "shaped" =>
    \A i \in 1 .. G :
      /\ Sign(scores[i]) = Sign(group[i].adv)
      /\ ~Votes(i) => scores[i] = group[i].adv * Scale

(* Of two wrong responses with the same advantage, the second's answer has   *)
(* more votes.                                                               *)
LessVotes(j, i) ==
  /\ group[i].adv = group[j].adv
  /\ Count(rep[i]) > Count(rep[j])
ClippedAlike(i, j) == Delta(i) = Delta(j) /\ Abs(Delta(i)) = MaxDelta(i)

(* The reviewed version: "highest-risk wrong mode must become MORE           *)
(* negative"; the more votes a wrong answer has, the lower its responses     *)
(* end, however the answers were clustered and whatever the other advantages *)
(* are.  The version core_algos keeps, which main_ppo runs, does the         *)
(* opposite (first finding of experiments/voterisk/REVIEW_20260910.md).      *)
RiskDecidesOrder ==
  phase = "shaped" =>
    \A i, j \in DOMAIN rep :
      LessVotes(j, i) /\ ~ ClippedAlike(i, j) =>
        IF Reviewed THEN scores[i] < scores[j] ELSE scores[i] > scores[j]

(* The corrections of a group sum to zero where none is clipped.             *)
ZeroSum ==
  /\ Reviewed
  /\ phase = "shaped"
  /\ \A i \in DOMAIN rep : Abs(Desired(rep[i])) <= MaxDelta(i)
  =>
    SumFunction([i \in 1 .. G |-> scores[i] - group[i].adv * Scale]) = 0

(* The closed form of the risk is the probability it stands for, of every    *)
(* mode of every group the reviewed version shapes (vote_risk_impl.py:76),   *)
(* so the clamp to [0, 1] that ends vote_risk_single_mode changes nothing.   *)
RiskIsProbability ==
  phase = "shaped" /\ Reviewed =>
    \A m \in Modes :
      /\ Risk(m) = DrawnThreat(NumCorrect, Count(m), GroupSize)
      /\ Risk(m) \in 0 .. RiskDen
=============================================================================
