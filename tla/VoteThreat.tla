------------------------------ MODULE VoteThreat -----------------------------
(***************************************************************************)
(* The risk of a wrong mode in closed form (vote_risk_single_mode): the     *)
(* probability that it gets as many of K votes as the correct answer or     *)
(* more, exactly: an integer over a denominator that depends on the size.   *)
(***************************************************************************)
EXTENDS Integers, FiniteSets, Functions, Combinatorics

CONSTANTS
  K,           (* K_target                                                   *)
  Smoothing    (* twice alpha_smooth                                         *)

ASSUME VoteThreatAssumption == K \in Nat \ {0} /\ Smoothing \in Nat

(* x ** n, as a recursive function: the provers know nothing of ^.           *)
Power(x, n) == LET p[i \in Nat] == IF i = 0 THEN 1 ELSE x * p[i - 1] IN p[n]

MultinomialFaulty(a, b) == choose(K, a) * choose(K, b)
Multinomial(a, b) == choose(K, a) * choose(K - a, b)

(* The smoothed weights of n of size responses, and of all of them.          *)
Smoothed(n) == 2 * n + Smoothing
Total(size) == 2 * size + 3 * Smoothing

(* The votes of the correct answer and of the mode that count against it.    *)
Defeats == {d \in (0 .. K) \X (0 .. K) : d[2] >= d[1] /\ d[1] + d[2] <= K}

(* The weight of d[1] votes for one of c correct responses, d[2] for one of  *)
(* m of the mode and the rest for another.                                   *)
VotesWeight(d, c, m, size) ==
  Power(Smoothed(c), d[1]) * Power(Smoothed(m), d[2])
    * Power(Smoothed(size - c - m), K - d[1] - d[2])

(* Of size responses c are correct and m of the mode: P(N_m >= N_c) over K   *)
(* draws, times Total(size)^K.                                               *)
Threat(c, m, size) ==
  SumFunction([d \in Defeats |->
                 Multinomial(d[1], d[2]) * VotesWeight(d, c, m, size)])

ThreatDen(size) == Power(Total(size), K)

(* What it stands for: the weight of the draws, K out of the smoothed        *)
(* counts, in which the mode ties or beats the correct answer.               *)
Draws == [1 .. K -> {"correct", "mode", "other"}]
Drawn(d, what) == Cardinality({t \in 1 .. K : d[t] = what})
DrawnThreat(c, m, size) ==
  SumFunction([d \in {e \in Draws : Drawn(e, "mode") >= Drawn(e, "correct")} |->
                 Power(Smoothed(c), Drawn(d, "correct"))
                   * Power(Smoothed(m), Drawn(d, "mode"))
                   * Power(Smoothed(size - c - m), Drawn(d, "other"))])
=============================================================================
