---------------------------- MODULE KarmarkarKarp ----------------------------
(***************************************************************************)
(* karmarkar_karp of verl/utils/seqlen_balancing.py: the differencing      *)
(* method that distributes weighted items over k partitions.  A state of   *)
(* its heap is a sequence of k bins in decreasing order; the two states of *)
(* largest spread are merged, the heaviest bin of one with the lightest of *)
(* the other, until one is left.                                           *)
(***************************************************************************)
EXTENDS Integers, Sequences, FiniteSets, Functions

VARIABLES
  weight,  (* seqlen_list                                                    *)
  k,       (* k_partitions                                                   *)
  equal,   (* equal_size                                                     *)
  heap     (* states_pq: a set, its states hold different items; empty       *)
           (* before the call                                                *)

kkvars == <<weight, k, equal, heap>>

KKInit ==
  /\ weight = <<>>
  /\ k = 1
  /\ equal = FALSE
  /\ heap = {}

(* A bin (class Set): its sum and its items, in the order they came. *)
EmptyBin == [sum |-> 0, items |-> <<>>]
Bin(i) == [sum |-> weight'[i], items |-> <<i>>]
Joined(a, b) == [sum |-> a.sum + b.sum, items |-> a.items \o b.items]

(* Set.__lt__: by sum, by number of items, by the first item. *)
Heavier(a, b) ==
  \/ a.sum > b.sum
  \/ a.sum = b.sum /\ Len(a.items) > Len(b.items)
  \/ /\ a.sum = b.sum /\ Len(a.items) = Len(b.items) /\ a.items # <<>>
     /\ a.items[1] > b.items[1]

(* sorted(..., reverse=True) *)
Decreasing(s) == \A i, j \in DOMAIN s : i < j => ~Heavier(s[j], s[i])
Sorted(s) ==
  {t \in {[i \in DOMAIN s |-> s[p[i]]] : p \in Injection(DOMAIN s, DOMAIN s)} :
     Decreasing(t)}

-----------------------------------------------------------------------------
(* The first states: one item in each; with equal_size the next k items in   *)
(* increasing order, held in decreasing order.                               *)
SingleItem(i) == [j \in 1 .. k' |-> IF j = 1 THEN Bin(i) ELSE EmptyBin]

Lighter(i, j) ==
  weight'[i] < weight'[j] \/ (weight'[i] = weight'[j] /\ i < j)
Rank(i) == 1 + Cardinality({j \in DOMAIN weight' : Lighter(j, i)})
Ascending == [r \in DOMAIN weight' |-> CHOOSE i \in DOMAIN weight' : Rank(i) = r]

Chunk(c) == [j \in 1 .. k' |-> Bin(Ascending[c * k' + k' + 1 - j])]

PushFaulty ==      (* equal_size is ignored *)
  heap = {} /\ heap' = {SingleItem(i) : i \in 1 .. Len(weight')}

(* The call: its arguments are the new weight, k and equal. *)
Push ==
  /\ heap = {}
  /\ IF equal'
     THEN heap' = {Chunk(c) : c \in 0 .. Len(weight') \div k' - 1}
     ELSE heap' = {SingleItem(i) : i \in 1 .. Len(weight')}

(* The pre-conditions get_seqlen_balanced_partitions asserts. *)
Accepted(n, parts, eq) == n >= parts /\ (eq => n % parts = 0)

Start ==
  /\ weight' \in Seq(Nat)
  /\ k' \in Nat \ {0}
  /\ equal' \in BOOLEAN
  /\ Accepted(Len(weight'), k', equal')
  /\ Push

-----------------------------------------------------------------------------
Spread(s) == s[1].sum - s[k].sum

(* State.__lt__: the order in which states are popped. *)
Before(s, t) ==
  \/ Spread(s) > Spread(t)
  \/ Spread(s) = Spread(t) /\ Heavier(s[1], t[1])
Popped(h) == {s \in h : \A t \in h : ~Before(t, s)}

MergedFaulty(s, t) == [i \in 1 .. k |-> Joined(s[i], t[i])]   (* heaviest with heaviest *)

Merged(s, t) == [i \in 1 .. k |-> Joined(s[i], t[k + 1 - i])]

Merge ==
  /\ Cardinality(heap) > 1
  /\ \E s \in Popped(heap) : \E t \in Popped(heap \ {s}) :
       \E m \in Sorted(Merged(s, t)) :
         heap' = (heap \ {s, t}) \cup {m}
  /\ UNCHANGED <<weight, k, equal>>

KKNext == Start \/ Merge
KKSpec == KKInit /\ [][KKNext]_kkvars

(* The call has returned: the partitions are those of the one state left. *)
Final == CHOOSE s \in heap : TRUE
Returned == Cardinality(heap) = 1

-----------------------------------------------------------------------------
(* Whatever is still to be merged, the sums of a state's bins differ by no   *)
(* more than the weight of one item: so do, in the end, the workloads of the *)
(* micro-batches and of the data-parallel ranks.                             *)
BalancedHeap ==
  \A s \in heap : \E i \in DOMAIN weight : Spread(s) <= weight[i]

(* The assertions of _check_and_sort_partitions ("the i-th partition is      *)
(* empty") and of karmarkar_karp (with equal_size as many items everywhere)  *)
(* cannot fail, though the merges only look at sums and nothing counts.      *)
PartitionsSound ==
  Returned => \A i \in 1 .. k :
    /\ Final[i].items # <<>>
    /\ equal => Len(Final[i].items) * k = Len(weight)
=============================================================================
