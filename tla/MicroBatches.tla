----------------------------- MODULE MicroBatches -----------------------------
(***************************************************************************)
(* The callers of karmarkar_karp: rearrange_micro_batches with             *)
(* restore_dynamic_batch (verl/utils/seqlen_balancing.py), which split a   *)
(* rank's batch by token count, and _balance_batch of the trainers         *)
(* (verl/trainer/ppo/ray_trainer.py), which deals a batch out to the       *)
(* data-parallel ranks, with whole groups when prefixes are shared.        *)
(***************************************************************************)
EXTENDS KarmarkarKarp, SequencesExt

CONSTANTS
  Lengths,        (* the lengths a sample may have                           *)
  BatchSizes,     (* of each caller: number of samples                       *)
  MaxTokenLen,    (* max_token_len                                           *)
  MinMicroBatch,  (* min_num_micro_batch, 0 is None                          *)
  Divisors,       (* num_batches_divided_by; 1 is None                       *)
  DpSizes,        (* data-parallel sizes of _balance_batch                   *)
  GroupSize       (* force_group_size, or the samples of one uid             *)

(* A sample has its prompt; batches consist of whole groups, which           *)
(* rearrange_micro_batches asserts.                                          *)
ASSUME MicroAssumption ==
  /\ Lengths \subseteq Nat \ {0}
  /\ {GroupSize, MaxTokenLen} \subseteq Nat \ {0}
  /\ Divisors \subseteq Nat \ {0} /\ DpSizes \subseteq Nat \ {0}
  /\ MinMicroBatch \in Nat
  /\ DOMAIN BatchSizes \subseteq {"micro", "grouped", "ranks", "prefix"}
  /\ \A c \in DOMAIN BatchSizes :
       /\ BatchSizes[c] \in Nat \ {0}
       /\ c \in {"grouped", "prefix"} => BatchSizes[c] % GroupSize = 0

VARIABLES
  phase,    (* "called", "merging", "done" or "refused"                      *)
  caller,   (* "micro", "grouped" (force_group_size), "ranks" or "prefix"    *)
  lens,     (* length of each sample                                         *)
  batches   (* the micro-batches, or the ranks' shares: sequences of samples *)

callvars == <<phase, caller, lens, batches>>
vars == <<kkvars, callvars>>

Group == IF caller \in {"grouped", "prefix"} THEN GroupSize ELSE 1
Items == 1 .. Len(lens) \div Group
MembersFaulty(i) ==     (* strided groups *)
  {i + Cardinality(Items) * (j - 1) : j \in 1 .. Group}
Members(i) == {(i - 1) * Group + j : j \in 1 .. Group}
Sum(f, S) == FoldFunctionOnSet(+, 0, f, S)

(* calculate_workload, over the samples of one item. *)
Workload == [x \in DOMAIN lens |-> 24576 * lens[x] + lens[x] * lens[x]]
ItemWorkload == [i \in Items |-> Sum(Workload, Members(i))]

MicroInit ==
  /\ KKInit
  /\ phase = "called"
  /\ caller \in DOMAIN BatchSizes
  /\ lens \in [1 .. BatchSizes[caller] -> Lengths]
  /\ batches = <<>>

-----------------------------------------------------------------------------
CeilDiv(a, b) == (a + b - 1) \div b
(* The number of micro-batches: by tokens, at most one per item; at least    *)
(* the minimum; the largest over the ranks; rounded up.                      *)
NumMicroBatches(others, divisor) ==
  LET own == Min({Cardinality(Items),
                  CeilDiv(Sum(lens, DOMAIN lens), MaxTokenLen)})
      agreed == Max({own, MinMicroBatch, others})
  IN CeilDiv(agreed, divisor) * divisor

Prepare(n, eq) ==
  IF Accepted(Cardinality(Items), n, eq)
  THEN /\ weight' = ItemWorkload
       /\ k' = n
       /\ equal' = eq
       /\ Push
       /\ phase' = "merging"
  ELSE phase' = "refused" /\ UNCHANGED kkvars

(* rearrange_micro_batches up to the partitions; another rank's batch has as *)
(* many samples.                                                             *)
SplitByTokens ==
  /\ phase = "called"
  /\ caller \in {"micro", "grouped"}
  /\ IF \A x \in DOMAIN lens : lens[x] <= MaxTokenLen
     THEN \E others \in 0 .. Cardinality(Items), divisor \in Divisors :
            Prepare(NumMicroBatches(others, divisor), FALSE)
     ELSE phase' = "refused" /\ UNCHANGED kkvars
  /\ UNCHANGED <<caller, lens, batches>>

(* _balance_batch up to the partitions. *)
BalanceBatch ==
  /\ phase = "called"
  /\ caller \in {"ranks", "prefix"}
  /\ \E dp \in DpSizes : Prepare(dp, TRUE)
  /\ UNCHANGED <<caller, lens, batches>>

MergeHeap ==
  /\ phase = "merging"
  /\ Merge
  /\ UNCHANGED callvars

-----------------------------------------------------------------------------
(* The elements of S sorted by the strict order before, a set of pairs.      *)
Ordered(S, before) ==
  [r \in 1 .. Cardinality(S) |->
     CHOOSE x \in S : 1 + Cardinality({y \in S : <<y, x>> \in before}) = r]
Increasing(S) == Ordered(S, {w \in S \X S : w[1] < w[2]})

(* The samples of a bin, in increasing order. *)
SamplesOf(bin) == Increasing(UNION {Members(bin.items[i]) : i \in DOMAIN bin.items})

(* s[::2] and s[1::2] *)
Evens(s) == [i \in 1 .. CeilDiv(Len(s), 2) |-> s[2 * i - 1]]
Odds(s) == [i \in 1 .. Len(s) \div 2 |-> s[2 * i]]

(* Of a decreasing sequence: the smaller at both ends. *)
EndsSmall(s) == Reverse(Evens(s)) \o Odds(s)

BatchWork(b) == Sum([x \in 1 .. Len(b) |-> Workload[b[x]]], 1 .. Len(b))

(* micro_bsz_idx.sort(key=(workload, first sample), reverse=True) *)
MicroOrder(bs) ==
  LET Heavy(i, j) == \/ BatchWork(bs[i]) > BatchWork(bs[j])
                     \/ BatchWork(bs[i]) = BatchWork(bs[j]) /\ bs[i][1] > bs[j][1]
      D == DOMAIN bs
      order == Ordered(D, {w \in D \X D : Heavy(w[1], w[2])})
  IN [i \in DOMAIN bs |-> bs[order[i]]]

(* A rank's share, the short samples at both ends; whole groups keep their   *)
(* order.                                                                    *)
RankOrder(b) ==
  LET Short(x, y) == \/ Workload[x] < Workload[y]
                     \/ Workload[x] = Workload[y] /\ x < y
      S == Range(b)
      s == Ordered(S, {w \in S \X S : Short(w[1], w[2])})
  IN Evens(s) \o Reverse(Odds(s))

Arrange ==
  /\ phase = "merging"
  /\ Returned
  /\ LET bs == [i \in 1 .. k |-> SamplesOf(Final[i])]
     IN batches' = CASE caller \in {"micro", "grouped"} -> EndsSmall(MicroOrder(bs))
                     [] caller = "ranks" -> [r \in 1 .. k |-> RankOrder(bs[r])]
                     [] caller = "prefix" -> bs
  /\ phase' = "done"
  /\ UNCHANGED <<kkvars, caller, lens>>

MicroNext == SplitByTokens \/ BalanceBatch \/ MergeHeap \/ Arrange
MicroSpec == MicroInit /\ [][MicroNext]_vars

-----------------------------------------------------------------------------
Indices == FlattenSeq(batches)

ReverseIdxFaulty(map) == map        (* the map itself, as for a swap *)

(* get_reverse_idx *)
ReverseIdx(map) ==
  [j \in DOMAIN map |->
     LET at == {i \in DOMAIN map : map[i] = j}
     IN IF at = {} THEN map[j] ELSE Max(at)]

(* restore_dynamic_batch applied to the micro-batches' outputs gives every   *)
(* sample its own output back, after balancing, grouping and reordering.     *)
Restored ==
  phase = "done" =>
    /\ Len(Indices) = Len(lens)
    /\ \A x \in DOMAIN lens : Indices[ReverseIdx(Indices)[x]] = x

(* Samples of one group, and of one uid, stay together and in order.         *)
GroupsTogether ==
  phase = "done" /\ Group > 1 =>
    \A i \in Items : \E b \in DOMAIN batches :
      \E at \in 0 .. Len(batches[b]) - Group :
        \A j \in 1 .. Group : batches[b][at + j] = (i - 1) * Group + j
=============================================================================
