------------------------- MODULE KarmarkarKarpProofs -------------------------
(***************************************************************************)
(* For every list of lengths, every number of partitions and with or       *)
(* without equal sizes, the sums of the bins of a state differ by no more  *)
(* than the weight of one item.  The invariant behind it: every state is   *)
(* in decreasing order of its sums.  And the asserts on the partitions     *)
(* never fail: every item is in one place of the heap, and a state whose   *)
(* bins are not all filled has at most one item in any of them, its empty  *)
(* bins at the end, where the next merge adds the heaviest of the other.   *)
(* Then the callers (MicroBatches): what they ask of karmarkar_karp it can *)
(* do, and whatever it returns, sorting, shuffling and flattening are      *)
(* rearrangements, which get_reverse_idx undoes.                           *)
(***************************************************************************)
EXTENDS MicroBatches, FiniteSetTheorems, SequenceTheorems, TLAPS

(* n bins whose sums are in decreasing order, the first and the last apart   *)
(* by no more than one of the weights w.                                     *)
Descending(s, n) ==
  /\ DOMAIN s = 1 .. n
  /\ \A i \in 1 .. n : s[i].sum \in Nat
  /\ \A i, j \in 1 .. n : i < j => s[j].sum <= s[i].sum
Shaped(s, n, w) ==
  /\ Descending(s, n)
  /\ \E a \in DOMAIN w : s[1].sum - s[n].sum <= w[a]

KKInv ==
  /\ weight \in Seq(Nat)
  /\ k \in Nat \ {0}
  /\ \A s \in heap : Shaped(s, k, weight)

-----------------------------------------------------------------------------
(* A bin that is not heavier than another has no larger sum. *)
LEMMA NotHeavier ==
  ASSUME NEW a, NEW b, a.sum \in Nat, b.sum \in Nat, ~ Heavier(a, b)
  PROVE  a.sum <= b.sum
BY DEF Heavier

(* Any two bins, not only the first and the last, are no further apart than  *)
(* the spread.                                                               *)
LEMMA WithinSpread ==
  ASSUME NEW n \in Nat \ {0}, NEW s, Descending(s, n),
         NEW x \in Nat, s[1].sum - s[n].sum <= x,
         NEW i \in 1 .. n, NEW j \in 1 .. n
  PROVE  s[i].sum - s[j].sum <= x
<1>1. 1 \in 1 .. n /\ n \in 1 .. n
  OBVIOUS
<1>2. s[i].sum \in Nat /\ s[j].sum \in Nat /\ s[1].sum \in Nat /\ s[n].sum \in Nat
  BY <1>1 DEF Descending
<1>3. s[i].sum <= s[1].sum
  <2>1. CASE i = 1 BY <2>1, <1>2
  <2>2. CASE 1 < i BY <2>2, <1>1 DEF Descending
  <2> QED BY <2>1, <2>2
<1>4. s[n].sum <= s[j].sum
  <2>1. CASE j = n BY <2>1, <1>2
  <2>2. CASE j < n BY <2>2, <1>1 DEF Descending
  <2> QED BY <2>1, <2>2
<1> QED BY <1>2, <1>3, <1>4

(* The step of the differencing method: adding the lightest bins of one      *)
(* state to the heaviest of the other, the differences of the two states     *)
(* work against each other, and the larger of them bounds the result.        *)
LEMMA MergedApart ==
  ASSUME NEW n \in Nat \ {0}, k = n, NEW x \in Nat, NEW y \in Nat,
         NEW s, Descending(s, n), s[1].sum - s[n].sum <= x,
         NEW t, Descending(t, n), t[1].sum - t[n].sum <= y,
         NEW i \in 1 .. n, NEW j \in 1 .. n
  PROVE  /\ Merged(s, t)[i].sum \in Nat
         /\ \/ Merged(s, t)[i].sum - Merged(s, t)[j].sum <= x
            \/ Merged(s, t)[i].sum - Merged(s, t)[j].sum <= y
<1> DEFINE c == Merged(s, t)
           iR == n + 1 - i
           jR == n + 1 - j
<1>1. iR \in 1 .. n /\ jR \in 1 .. n
  OBVIOUS
<1>2. c[i].sum = s[i].sum + t[iR].sum /\ c[j].sum = s[j].sum + t[jR].sum
  BY <1>1 DEF Merged, Joined
<1>3. i < j => jR < iR
  OBVIOUS
<1> HIDE DEF c, iR, jR
<1>4. /\ s[i].sum \in Nat /\ s[j].sum \in Nat
      /\ t[iR].sum \in Nat /\ t[jR].sum \in Nat
  BY <1>1 DEF Descending
<1>5. s[i].sum - s[j].sum <= x
  BY WithinSpread
<1>6. t[iR].sum - t[jR].sum <= y
  BY <1>1, WithinSpread
<1>7. i < j => t[iR].sum <= t[jR].sum
  BY <1>1, <1>3 DEF Descending
<1>8. j < i => s[i].sum <= s[j].sum
  BY DEF Descending
<1>9. c[i].sum \in Nat /\ c[j].sum \in Nat
  BY <1>2, <1>4
<1>10. c[i].sum - c[j].sum <= x \/ c[i].sum - c[j].sum <= y
  <2>1. CASE i < j  BY <2>1, <1>2, <1>4, <1>5, <1>7
  <2>2. CASE i = j  BY <2>2, <1>9
  <2>3. CASE j < i  BY <2>3, <1>2, <1>4, <1>6, <1>8
  <2> QED BY <2>1, <2>2, <2>3
<1> QED BY <1>9, <1>10 DEF c

(* Sorting the merged bins gives a state of the same shape. *)
LEMMA MergedShaped ==
  ASSUME NEW n \in Nat \ {0}, NEW w \in Seq(Nat), k = n,
         NEW s, NEW t, Shaped(s, n, w), Shaped(t, n, w),
         NEW m \in Sorted(Merged(s, t))
  PROVE  Shaped(m, n, w)
<1> DEFINE c == Merged(s, t)
<1>1. DOMAIN c = 1 .. n
  BY DEF Merged
<1>2. PICK p \in [1 .. n -> 1 .. n] : m = [i \in 1 .. n |-> c[p[i]]]
  BY <1>1 DEF Sorted, Injection
<1>3. \A i \in 1 .. n : p[i] \in 1 .. n /\ m[i] = c[p[i]]
  BY <1>2
<1>0. PICK a \in DOMAIN w, b \in DOMAIN w : /\ s[1].sum - s[n].sum <= w[a]
                                            /\ t[1].sum - t[n].sum <= w[b]
  BY DEF Shaped, Descending
<1> DEFINE x == w[a]
           y == w[b]
<1>0a. x \in Nat /\ y \in Nat
  OBVIOUS
<1> HIDE DEF x, y
<1>0b. ASSUME NEW i \in 1 .. n, NEW j \in 1 .. n
       PROVE  /\ c[i].sum \in Nat
              /\ c[i].sum - c[j].sum <= x \/ c[i].sum - c[j].sum <= y
  <2>1. /\ s[1].sum - s[n].sum <= x /\ t[1].sum - t[n].sum <= y
        /\ Descending(s, n) /\ Descending(t, n)
    BY <1>0 DEF x, y, Shaped
  <2> QED BY <2>1, <1>0a, MergedApart
<1>4. \A i \in 1 .. n : m[i].sum \in Nat
  <2> TAKE i \in 1 .. n
  <2>1. c[p[i]].sum \in Nat
    BY <1>3, <1>0b
  <2> QED BY <2>1, <1>3
<1>5. \A i, j \in 1 .. n : i < j => m[j].sum <= m[i].sum
  <2> SUFFICES ASSUME NEW i \in 1 .. n, NEW j \in 1 .. n, i < j
               PROVE  m[j].sum <= m[i].sum
    OBVIOUS
  <2>1. DOMAIN m = 1 .. n
    BY <1>2
  <2>2. Decreasing(m)
    BY DEF Sorted
  <2>3. ~ Heavier(m[j], m[i])
    BY <2>1, <2>2 DEF Decreasing
  <2> QED BY <2>3, <1>4, NotHeavier
<1>6. m[1].sum - m[n].sum <= w[a] \/ m[1].sum - m[n].sum <= w[b]
  <2>1. 1 \in 1 .. n /\ n \in 1 .. n
    OBVIOUS
  <2>2. p[1] \in 1 .. n /\ p[n] \in 1 .. n
    BY <2>1, <1>3
  <2>3. c[p[1]].sum - c[p[n]].sum <= w[a] \/ c[p[1]].sum - c[p[n]].sum <= w[b]
    BY <2>2, <1>0b DEF x, y
  <2> QED BY <2>1, <2>3, <1>3
<1> QED BY <1>2, <1>4, <1>5, <1>6 DEF Shaped, Descending

-----------------------------------------------------------------------------
(* Sorting the items: every rank from 1 to their number is taken by one      *)
(* item, so Ascending is a function to items, in increasing weight.          *)
LEMMA AscendingOrder ==
  ASSUME NEW n \in Nat, weight' \in [1 .. n -> Nat]
  PROVE  /\ Ascending \in Injection(1 .. n, 1 .. n)
         /\ \A r, q \in 1 .. n :
              r < q => weight'[Ascending[r]] <= weight'[Ascending[q]]
<1> DEFINE S == 1 .. n
           Below(i) == {j \in S : Lighter(j, i)}
           rank == [i \in S |-> Rank(i)]
<1>1. DOMAIN weight' = S /\ \A i \in S : weight'[i] \in Nat
  OBVIOUS
<1>2. IsFiniteSet(S) /\ Cardinality(S) = n
  BY FS_Interval
<1>3. \A i \in S : /\ IsFiniteSet(Below(i))
                    /\ Cardinality(Below(i)) \in Nat
                    /\ Rank(i) = 1 + Cardinality(Below(i))
  <2> SUFFICES ASSUME NEW i \in S
               PROVE  /\ IsFiniteSet(Below(i))
                      /\ Cardinality(Below(i)) \in Nat
                      /\ Rank(i) = 1 + Cardinality(Below(i))
    OBVIOUS
  <2>1. IsFiniteSet(Below(i))
    BY <1>2, FS_Subset, Below(i) \in SUBSET S
  <2> QED BY <1>1, <2>1, FS_CardinalityType DEF Rank
<1>4. \A i \in S : Rank(i) \in S
  <2> SUFFICES ASSUME NEW i \in S PROVE Rank(i) \in S
    OBVIOUS
  <2>1. ~ Lighter(i, i)
    BY <1>1 DEF Lighter
  <2>2. Below(i) \in SUBSET S /\ Below(i) # S
    BY <2>1
  <2> DEFINE B == Below(i)
  <2>3. B \in SUBSET S /\ B # S
    BY <2>2
  <2>4. Rank(i) = 1 + Cardinality(B) /\ Cardinality(B) \in Nat
    BY <1>3
  <2> HIDE DEF B
  <2>5. Cardinality(B) <= n /\ Cardinality(B) # n
    <3> HIDE DEF S
    <3>1. Cardinality(B) <= Cardinality(S)
      BY <1>2, <2>3, FS_Subset
    <3>2. Cardinality(S) = Cardinality(B) => S = B
      BY <1>2, <2>3, FS_Subset
    <3> QED BY <1>2, <2>3, <3>1, <3>2
  <2> QED BY <2>4, <2>5
<1>5. \A i, j \in S : Lighter(i, j) => Rank(i) < Rank(j)
  <2> SUFFICES ASSUME NEW i \in S, NEW j \in S, Lighter(i, j)
               PROVE  Rank(i) < Rank(j)
    OBVIOUS
  <2> DEFINE B == Below(i)
             C == Below(j)
  <2>1. B \in SUBSET C
    BY <1>1 DEF Lighter
  <2>2. i \in C /\ i \notin B
    BY <1>1 DEF Lighter
  <2>3. /\ Rank(i) = 1 + Cardinality(B) /\ Cardinality(B) \in Nat
        /\ Rank(j) = 1 + Cardinality(C) /\ Cardinality(C) \in Nat
        /\ IsFiniteSet(C)
    BY <1>3
  <2> HIDE DEF B, C
  <2>4. Cardinality(B) <= Cardinality(C) /\ Cardinality(B) # Cardinality(C)
    BY <2>1, <2>2, <2>3, FS_Subset
  <2> QED BY <2>3, <2>4
<1>6. \A i, j \in S : i = j \/ Lighter(i, j) \/ Lighter(j, i)
  BY <1>1 DEF Lighter
<1>7. rank \in Injection(S, S)
  <2>1. rank \in [S -> S]
    BY <1>4
  <2>2. ASSUME NEW i \in S, NEW j \in S, rank[i] = rank[j]
        PROVE  i = j
    <3>1. Rank(i) = Rank(j) /\ Rank(i) \in Int
      BY <2>2, <1>4
    <3>2. ~ Lighter(i, j) /\ ~ Lighter(j, i)
      BY <3>1, <1>5
    <3> QED BY <3>2, <1>6
  <2> QED BY <2>1, <2>2 DEF Injection, IsInjective
<1>8. rank \in Surjection(S, S)
  BY <1>2, <1>7, FS_Injection
<1>9. \A r \in S : \E i \in S : Rank(i) = r
  BY <1>8 DEF Surjection
<1>10. \A r \in S : Ascending[r] \in S /\ Rank(Ascending[r]) = r
  BY <1>1, <1>9 DEF Ascending
<1>11. \A r, q \in S : r < q => weight'[Ascending[r]] <= weight'[Ascending[q]]
  <2> SUFFICES ASSUME NEW r \in S, NEW q \in S, r < q
               PROVE  weight'[Ascending[r]] <= weight'[Ascending[q]]
    OBVIOUS
  <2> DEFINE x == Ascending[r]
             y == Ascending[q]
  <2>1. x \in S /\ y \in S /\ Rank(x) = r /\ Rank(y) = q
    BY <1>10
  <2>2. ~ Lighter(y, x)
    BY <2>1, <1>5
  <2> QED BY <2>1, <2>2, <1>1 DEF Lighter
<1>12. Ascending \in [S -> S]
  BY <1>1, <1>10 DEF Ascending
<1>13. IsInjective(Ascending)
  BY <1>10, <1>12 DEF IsInjective
<1> QED BY <1>11, <1>12, <1>13 DEF Injection

(* A single item in the first bin. *)
LEMMA SingleShaped ==
  ASSUME k' \in Nat \ {0}, weight' \in Seq(Nat), NEW i \in 1 .. Len(weight')
  PROVE  Shaped(SingleItem(i), k', weight')
<1>1. i \in DOMAIN weight' /\ weight'[i] \in Nat
  OBVIOUS
<1>2. \A j \in 1 .. k' :
        SingleItem(i)[j].sum = IF j = 1 THEN weight'[i] ELSE 0
  BY DEF SingleItem, Bin, EmptyBin
<1>3. SingleItem(i)[1].sum - SingleItem(i)[k'].sum <= weight'[i]
  BY <1>1, <1>2, 1 \in 1 .. k', k' \in 1 .. k'
<1>4. DOMAIN SingleItem(i) = 1 .. k'
  BY DEF SingleItem
<1>5. Descending(SingleItem(i), k')
  BY <1>1, <1>2, <1>4 DEF Descending
<1> QED BY <1>1, <1>3, <1>5 DEF Shaped

(* The positions of a chunk lie within the list when k divides its length. *)
LEMMA ChunkInside ==
  ASSUME NEW n \in Nat, NEW parts \in Nat \ {0}, n % parts = 0,
         NEW c \in 0 .. n \div parts - 1, NEW j \in 1 .. parts
  PROVE  c * parts + parts + 1 - j \in 1 .. n
<1> DEFINE q == n \div parts
<1>1. q \in Nat /\ n = q * parts
  OBVIOUS
<1>2. c \in Nat /\ c + 1 <= q
  BY <1>1
<1>3. (c + 1) * parts <= q * parts
  BY <1>1, <1>2
<1>4. c * parts \in Nat /\ (c + 1) * parts = c * parts + parts
  BY <1>2
<1> QED BY <1>1, <1>3, <1>4

(* The next k items in order, heaviest first. *)
LEMMA ChunkShaped ==
  ASSUME k' \in Nat \ {0}, weight' \in Seq(Nat), Len(weight') % k' = 0,
         NEW c \in 0 .. Len(weight') \div k' - 1
  PROVE  Shaped(Chunk(c), k', weight')
<1> DEFINE n == Len(weight')
           parts == k'
           at(j) == c * parts + parts + 1 - j
<1>1. n \in Nat /\ weight' \in [1 .. n -> Nat]
  OBVIOUS
<1>1a. parts \in Nat \ {0} /\ n % parts = 0 /\ c \in 0 .. n \div parts - 1
  OBVIOUS
<1> HIDE DEF parts, n
<1>2. \A j \in 1 .. parts : at(j) \in 1 .. n
  BY <1>1, <1>1a, ChunkInside
<1> USE DEF parts, n
<1> DEFINE a == Ascending
<1>3. /\ a \in [1 .. n -> 1 .. n]
      /\ \A r, q \in 1 .. n : r < q => weight'[a[r]] <= weight'[a[q]]
  BY <1>1, AscendingOrder DEF Injection
<1>4. \A j \in 1 .. k' : Chunk(c)[j].sum = weight'[a[at(j)]]
  <2> TAKE j \in 1 .. k'
  <2>1. Chunk(c)[j] = Bin(a[at(j)])
    BY DEF Chunk
  <2> QED BY <2>1 DEF Bin
<1> HIDE DEF a
<1>5. \A j \in 1 .. k' : a[at(j)] \in 1 .. n /\ weight'[a[at(j)]] \in Nat
  BY <1>1, <1>2, <1>3
<1>6. \A i, j \in 1 .. k' : i < j => Chunk(c)[j].sum <= Chunk(c)[i].sum
  <2> SUFFICES ASSUME NEW i \in 1 .. k', NEW j \in 1 .. k', i < j
               PROVE  Chunk(c)[j].sum <= Chunk(c)[i].sum
    OBVIOUS
  <2> DEFINE base == c * parts + parts + 1
  <2>1. base \in Int /\ \A h \in 1 .. k' : at(h) = base - h
    OBVIOUS
  <2> HIDE DEF base, at
  <2>2. at(j) < at(i)
    BY <2>1
  <2> QED BY <1>2, <1>3, <1>4, <2>2
<1>7. \E b \in DOMAIN weight' : Chunk(c)[1].sum - Chunk(c)[k'].sum <= weight'[b]
  <2>1. 1 \in 1 .. k' /\ k' \in 1 .. k'
    OBVIOUS
  <2>2. a[at(1)] \in DOMAIN weight'
    BY <1>1, <1>5, <2>1
  <2> HIDE DEF at
  <2>3. /\ Chunk(c)[1].sum = weight'[a[at(1)]] /\ weight'[a[at(1)]] \in Nat
        /\ Chunk(c)[k'].sum \in Nat
    BY <1>4, <1>5, <2>1
  <2>4. Chunk(c)[1].sum - Chunk(c)[k'].sum <= weight'[a[at(1)]]
    BY <2>3
  <2> QED BY <2>2, <2>4
<1>8. DOMAIN Chunk(c) = 1 .. k'
  BY DEF Chunk
<1>9. \A j \in 1 .. k' : Chunk(c)[j].sum \in Nat
  BY <1>4, <1>5
<1> QED BY <1>6, <1>7, <1>8, <1>9 DEF Shaped, Descending

-----------------------------------------------------------------------------
LEMMA KKInitInv == KKInit => KKInv
BY DEF KKInit, KKInv

LEMMA KKNextInv == KKInv /\ [KKNext]_kkvars => KKInv'
<1> SUFFICES ASSUME KKInv, [KKNext]_kkvars PROVE KKInv'
  OBVIOUS
<1>1. CASE Start
  <2>1. weight' \in Seq(Nat) /\ k' \in Nat \ {0}
    BY <1>1 DEF Start
  <2>2. CASE equal'
    <3>1. Len(weight') % k' = 0
      BY <1>1, <2>2 DEF Start, Accepted
    <3>2. heap' = {Chunk(c) : c \in 0 .. Len(weight') \div k' - 1}
      BY <1>1, <2>2 DEF Start, Push
    <3> QED BY <2>1, <3>1, <3>2, ChunkShaped DEF KKInv
  <2>3. CASE ~ equal'
    <3>1. heap' = {SingleItem(i) : i \in 1 .. Len(weight')}
      BY <1>1, <2>3 DEF Start, Push
    <3> QED BY <2>1, <3>1, SingleShaped DEF KKInv
  <2> QED BY <2>2, <2>3
<1>2. CASE Merge
  <2>1. UNCHANGED <<weight, k, equal>>
    BY <1>2 DEF Merge
  <2>2a. PICK s \in Popped(heap) : \E t \in Popped(heap \ {s}) :
           \E m \in Sorted(Merged(s, t)) : heap' = (heap \ {s, t}) \cup {m}
    BY <1>2 DEF Merge
  <2>2. PICK t \in Popped(heap \ {s}) :
          \E m \in Sorted(Merged(s, t)) : heap' = (heap \ {s, t}) \cup {m}
    BY <2>2a
  <2>3. PICK m \in Sorted(Merged(s, t)) : heap' = (heap \ {s, t}) \cup {m}
    BY <2>2
  <2>4. Shaped(s, k, weight) /\ Shaped(t, k, weight)
    BY DEF Popped, KKInv
  <2>5. Shaped(m, k, weight)
    BY <2>4, MergedShaped DEF KKInv
  <2> QED BY <2>1, <2>3, <2>5 DEF KKInv
<1>3. CASE UNCHANGED kkvars
  BY <1>3 DEF KKInv, kkvars
<1> QED BY <1>1, <1>2, <1>3 DEF KKNext

(* However many lengths there are and however they are to be divided, the    *)
(* workloads of two partitions (micro-batches, data-parallel ranks) never    *)
(* differ by more than the workload of a single item.                        *)
THEOREM Balanced == KKSpec => []BalancedHeap
<1>1. KKInv => BalancedHeap
  BY DEF KKInv, BalancedHeap, Shaped, Spread
<1> QED BY <1>1, KKInitInv, KKNextInv, PTL DEF KKSpec

-----------------------------------------------------------------------------
(***************************************************************************)
(* What the bins hold.  Nothing counts items, but a state has either none  *)
(* or at most one of them in any bin, its empty bins at the end; with      *)
(* equal_size as many in each.  Every item is in one place of the heap.    *)
(***************************************************************************)
Bins(s, n, m) ==
  /\ DOMAIN s = 1 .. n
  /\ \A i \in 1 .. n : s[i].sum \in Nat /\ s[i].items \in Seq(1 .. m)

Filled(s, n) == \A i \in 1 .. n : s[i].items # <<>>
Sparse(s, n) == \A i \in 1 .. n : Len(s[i].items) <= 1
EmptyLast(s, n) ==
  \A i, j \in 1 .. n : i < j /\ s[j].items # <<>> => s[i].items # <<>>
EmptyLightest(s, n) == \A i \in 1 .. n : s[i].items = <<>> => s[i].sum = 0
Level(s, n) ==
  Filled(s, n) /\ \A i, j \in 1 .. n : Len(s[i].items) = Len(s[j].items)

Stocked(s, n, m, eq) ==
  /\ Bins(s, n, m)
  /\ Filled(s, n) \/ Sparse(s, n)
  /\ EmptyLast(s, n)
  /\ EmptyLightest(s, n)
  /\ eq => Level(s, n)

(* Every item is somewhere in the states h, and nowhere else.                *)
At(s, i, a, x) == a \in 1 .. Len(s[i].items) /\ s[i].items[a] = x
Covers(h, n, m) ==
  \A x \in 1 .. m : \E s \in h : \E i \in 1 .. n : \E a : At(s, i, a, x)
Once(h, n) ==
  \A s, t \in h : \A i, j \in 1 .. n : \A a, b, x :
    At(s, i, a, x) /\ At(t, j, b, x) => s = t /\ i = j /\ a = b

ItemInv ==
  /\ IsFiniteSet(heap)
  /\ heap # {} => Len(weight) >= k
  /\ \A s \in heap : Stocked(s, k, Len(weight), equal)
  /\ Covers(heap, k, Len(weight))
  /\ Once(heap, k)

(* The bins c hold the items of the bins s and then those of the bins t, the *)
(* first with the last.                                                      *)
Holds(c, s, t, n, m) ==
  /\ DOMAIN c = 1 .. n
  /\ \A i \in 1 .. n :
       /\ n + 1 - i \in 1 .. n
       /\ c[i].sum = s[i].sum + t[n + 1 - i].sum /\ c[i].sum \in Nat
       /\ c[i].items \in Seq(1 .. m)
       /\ Len(c[i].items) = Len(s[i].items) + Len(t[n + 1 - i].items)
       /\ Len(s[i].items) \in Nat /\ Len(t[n + 1 - i].items) \in Nat
       /\ \A a \in 1 .. Len(s[i].items) : c[i].items[a] = s[i].items[a]
       /\ \A a \in 1 .. Len(t[n + 1 - i].items) :
            c[i].items[Len(s[i].items) + a] = t[n + 1 - i].items[a]

(* That is what merging two states makes of them.                            *)
LEMMA MergedBins ==
  ASSUME NEW n \in Nat \ {0}, k = n, NEW m \in Nat, NEW s, NEW t,
         Bins(s, n, m), Bins(t, n, m)
  PROVE  Holds(Merged(s, t), s, t, n, m)
<1>0. DOMAIN Merged(s, t) = 1 .. n
  BY DEF Merged
<1> SUFFICES ASSUME NEW i \in 1 .. n
             PROVE  LET c == Merged(s, t)
                        j == n + 1 - i
                    IN  /\ j \in 1 .. n
                        /\ c[i].sum = s[i].sum + t[j].sum /\ c[i].sum \in Nat
                        /\ c[i].items \in Seq(1 .. m)
                        /\ Len(c[i].items) = Len(s[i].items) + Len(t[j].items)
                        /\ Len(s[i].items) \in Nat /\ Len(t[j].items) \in Nat
                        /\ \A a \in 1 .. Len(s[i].items) :
                             c[i].items[a] = s[i].items[a]
                        /\ \A a \in 1 .. Len(t[j].items) :
                             c[i].items[Len(s[i].items) + a] = t[j].items[a]
  BY <1>0, Zenon DEF Holds
<1> DEFINE j == n + 1 - i
           p == s[i].items
           q == t[j].items
<1>1. j \in 1 .. n
  OBVIOUS
<1>2. /\ Merged(s, t)[i].sum = s[i].sum + t[j].sum
      /\ Merged(s, t)[i].items = p \o q
  BY DEF Merged, Joined
<1>3. s[i].sum \in Nat /\ t[j].sum \in Nat /\ p \in Seq(1 .. m) /\ q \in Seq(1 .. m)
  BY <1>1 DEF Bins
<1> HIDE DEF j, p, q
<1>4. /\ p \o q \in Seq(1 .. m) /\ Len(p \o q) = Len(p) + Len(q)
      /\ Len(p) \in Nat /\ Len(q) \in Nat
      /\ \A a \in 1 .. Len(p) + Len(q) :
           (p \o q)[a] = IF a <= Len(p) THEN p[a] ELSE q[a - Len(p)]
  BY <1>3, ConcatProperties, LenProperties
<1>5. \A a \in 1 .. Len(p) : (p \o q)[a] = p[a]
  BY <1>4
<1>6. ASSUME NEW a \in 1 .. Len(q) PROVE (p \o q)[Len(p) + a] = q[a]
  <2>1. /\ Len(p) + a \in 1 .. Len(p) + Len(q) /\ ~ (Len(p) + a <= Len(p))
        /\ Len(p) + a - Len(p) = a
    BY <1>4
  <2> QED BY <1>4, <2>1
<1>7. s[i].sum + t[j].sum \in Nat
  BY <1>3
<1> QED BY <1>1, <1>2, <1>4, <1>5, <1>6, <1>7 DEF j, p, q

(* Two counts and their sum.                                                 *)
LEMMA TwoCounts ==
  \A a, b \in Nat :
    /\ a + b = 0 <=> a = 0 /\ b = 0
    /\ a <= 1 /\ b <= 1 /\ (a = 0 \/ b = 0) => a + b <= 1
  OBVIOUS

(* A list is empty when its length is 0. *)
LEMMA EmptyLen ==
  ASSUME NEW S, NEW s \in Seq(S)
  PROVE  /\ Len(s) \in Nat /\ (s = <<>> <=> Len(s) = 0)
         /\ s # <<>> => 1 \in 1 .. Len(s)
<1>1. Len(s) \in Nat /\ Len(<<>>) = 0 /\ (s # <<>> => Len(s) \in Nat \ {0})
  BY EmptySeq, LenProperties
<1> QED BY <1>1

(* Before the sort: no bin is empty or none has two items, since the items   *)
(* of the two states meet in no bin, or else fill them all.                  *)
LEMMA MergedStock ==
  ASSUME NEW n \in Nat \ {0}, k = n, NEW m \in Nat, NEW eq, NEW s, NEW t,
         Stocked(s, n, m, eq), Stocked(t, n, m, eq)
  PROVE  LET c == Merged(s, t)
         IN  /\ Bins(c, n, m) /\ EmptyLightest(c, n)
             /\ Filled(c, n) \/ Sparse(c, n)
             /\ eq => Level(c, n)
<1> DEFINE c == Merged(s, t)
           r == [i \in 1 .. n |-> n + 1 - i]
<1>1. Bins(s, n, m) /\ Bins(t, n, m)
  BY DEF Stocked
<1>2. Holds(c, s, t, n, m)
  BY <1>1, MergedBins
<1> HIDE DEF c
<1>3. \A i \in 1 .. n :
        /\ r[i] \in 1 .. n
        /\ c[i].sum = s[i].sum + t[r[i]].sum /\ c[i].sum \in Nat
        /\ c[i].items \in Seq(1 .. m)
        /\ Len(c[i].items) = Len(s[i].items) + Len(t[r[i]].items)
        /\ Len(s[i].items) \in Nat /\ Len(t[r[i]].items) \in Nat
  BY <1>2 DEF Holds
<1>4. /\ DOMAIN c = 1 .. n
      /\ \A i, j \in 1 .. n : i < j <=> r[j] < r[i]
  <2>1. DOMAIN c = 1 .. n
    BY <1>2 DEF Holds
  <2>2. \A i \in 1 .. n : r[i] = n + 1 - i
    OBVIOUS
  <2> HIDE DEF r
  <2>3. \A i, j \in 1 .. n : i < j <=> r[j] < r[i]
    BY <2>2
  <2> QED BY <2>1, <2>3
<1> HIDE DEF r
<1>5. \A i \in 1 .. n :
        /\ c[i].items = <<>> <=> Len(c[i].items) = 0
        /\ s[i].items = <<>> <=> Len(s[i].items) = 0
        /\ t[i].items = <<>> <=> Len(t[i].items) = 0
  BY <1>1, <1>3, EmptyLen DEF Bins
<1>6. \A i \in 1 .. n : c[i].items = <<>> <=> s[i].items = <<>> /\ t[r[i]].items = <<>>
  <2> SUFFICES ASSUME NEW i \in 1 .. n
               PROVE  c[i].items = <<>> <=> s[i].items = <<>> /\ t[r[i]].items = <<>>
    OBVIOUS
  <2>1. /\ c[i].items = <<>> <=> Len(c[i].items) = 0
        /\ s[i].items = <<>> <=> Len(s[i].items) = 0
        /\ t[r[i]].items = <<>> <=> Len(t[r[i]].items) = 0
        /\ Len(c[i].items) = Len(s[i].items) + Len(t[r[i]].items)
        /\ Len(s[i].items) \in Nat /\ Len(t[r[i]].items) \in Nat
    BY <1>3, <1>5, Zenon
  <2>2. Len(c[i].items) = 0 <=> Len(s[i].items) = 0 /\ Len(t[r[i]].items) = 0
    <3>1. Len(s[i].items) + Len(t[r[i]].items) = 0
            <=> Len(s[i].items) = 0 /\ Len(t[r[i]].items) = 0
      BY <2>1, TwoCounts, Zenon
    <3> QED BY <2>1, <3>1, Zenon
  <2> QED BY <2>1, <2>2, Zenon
<1>7. Bins(c, n, m)
  <2>1. \A i \in 1 .. n : c[i].sum \in Nat /\ c[i].items \in Seq(1 .. m)
    BY <1>3, Zenon
  <2> QED BY <2>1, <1>4 DEF Bins
<1>8. EmptyLightest(c, n)
  <2> SUFFICES ASSUME NEW i \in 1 .. n, c[i].items = <<>> PROVE c[i].sum = 0
    BY DEF EmptyLightest
  <2>1. s[i].sum = 0 /\ t[r[i]].sum = 0
    BY <1>3, <1>6 DEF Stocked, EmptyLightest
  <2>2. c[i].sum = s[i].sum + t[r[i]].sum
    BY <1>3, Zenon
  <2> QED BY <2>1, <2>2
<1>9. Filled(c, n) \/ Sparse(c, n)
  <2>1. CASE Filled(s, n)
    BY <1>6, <2>1 DEF Filled
  <2>2. CASE Filled(t, n)
    BY <1>3, <1>6, <2>2 DEF Filled
  <2>3. CASE Sparse(s, n) /\ Sparse(t, n)
    <3>1. CASE \E i \in 1 .. n : s[i].items # <<>> /\ t[r[i]].items # <<>>
      <4>1. PICK i \in 1 .. n : s[i].items # <<>> /\ t[r[i]].items # <<>>
        BY <3>1
      <4>2. ASSUME NEW j \in 1 .. n PROVE c[j].items # <<>>
        <5>1. CASE j < i
          BY <1>6, <4>1, <5>1 DEF Stocked, EmptyLast
        <5>2. CASE j = i
          BY <1>6, <4>1, <5>2
        <5>3. CASE i < j
          <6>1. r[j] < r[i] /\ r[j] \in 1 .. n /\ r[i] \in 1 .. n
            BY <1>3, <1>4, <5>3
          <6>2. t[r[j]].items # <<>>
            BY <4>1, <6>1 DEF Stocked, EmptyLast
          <6> QED BY <1>6, <6>2
        <5> QED BY <5>1, <5>2, <5>3
      <4> QED BY <4>2 DEF Filled
    <3>2. CASE \A i \in 1 .. n : s[i].items = <<>> \/ t[r[i]].items = <<>>
      <4>1. ASSUME NEW i \in 1 .. n PROVE Len(c[i].items) <= 1
        <5>1. /\ Len(s[i].items) <= 1 /\ Len(t[r[i]].items) <= 1
              /\ Len(s[i].items) = 0 \/ Len(t[r[i]].items) = 0
          BY <1>3, <1>5, <2>3, <3>2 DEF Sparse
        <5>2. /\ Len(c[i].items) = Len(s[i].items) + Len(t[r[i]].items)
              /\ Len(s[i].items) \in Nat /\ Len(t[r[i]].items) \in Nat
          BY <1>3, Zenon
        <5>3. Len(s[i].items) + Len(t[r[i]].items) <= 1
          BY <5>1, <5>2, TwoCounts, Zenon
        <5> QED BY <5>2, <5>3, Zenon
      <4> QED BY <4>1 DEF Sparse
    <3> QED BY <3>1, <3>2
  <2> QED BY <2>1, <2>2, <2>3 DEF Stocked
<1>10. ASSUME eq PROVE Level(c, n)
  <2>1. Level(s, n) /\ Level(t, n)
    BY <1>10 DEF Stocked
  <2>2. Filled(c, n)
    BY <1>6, <2>1 DEF Level, Filled
  <2>3. ASSUME NEW i \in 1 .. n, NEW j \in 1 .. n
        PROVE  Len(c[i].items) = Len(c[j].items)
    <3>1. r[i] \in 1 .. n /\ r[j] \in 1 .. n
      BY <1>3, Zenon
    <3>2. /\ Len(s[i].items) = Len(s[j].items)
          /\ Len(t[r[i]].items) = Len(t[r[j]].items)
      BY <2>1, <3>1, Zenon DEF Level
    <3>3. /\ Len(c[i].items) = Len(s[i].items) + Len(t[r[i]].items)
          /\ Len(c[j].items) = Len(s[j].items) + Len(t[r[j]].items)
      BY <1>3, Zenon
    <3> QED BY <3>2, <3>3
  <2> QED BY <2>2, <2>3 DEF Level
<1> QED BY <1>7, <1>8, <1>9, <1>10 DEF c

(* The bins d are the bins c in another order.                               *)
Reordered(d, c, p, n) ==
  /\ p \in Injection(1 .. n, 1 .. n) /\ p \in Surjection(1 .. n, 1 .. n)
  /\ \A i \in 1 .. n : p[i] \in 1 .. n /\ d[i] = c[p[i]]

(* That is what the sort makes of them.                                      *)
LEMMA SortedBins ==
  ASSUME NEW n \in Nat \ {0}, NEW c, DOMAIN c = 1 .. n, NEW d \in Sorted(c)
  PROVE  /\ Decreasing(d) /\ DOMAIN d = 1 .. n
         /\ \E p : Reordered(d, c, p, n)
<1>1. PICK p \in Injection(1 .. n, 1 .. n) : d = [i \in 1 .. n |-> c[p[i]]]
  BY DEF Sorted
<1>2. IsFiniteSet(1 .. n)
  BY FS_Interval
<1>3. p \in Surjection(1 .. n, 1 .. n)
  BY <1>2, FS_Injection
<1>4. p \in [1 .. n -> 1 .. n]
  BY DEF Injection
<1>5. \A i \in 1 .. n : p[i] \in 1 .. n /\ d[i] = c[p[i]]
  BY <1>1, <1>4
<1>6. Decreasing(d) /\ DOMAIN d = 1 .. n
  BY <1>1 DEF Sorted
<1> QED BY <1>3, <1>5, <1>6, Zenon DEF Reordered

(* The sort puts the empty bins last, as they have no weight. *)
LEMMA SortedStock ==
  ASSUME NEW n \in Nat \ {0}, NEW m \in Nat, NEW eq, NEW c,
         Bins(c, n, m), EmptyLightest(c, n), Filled(c, n) \/ Sparse(c, n),
         eq => Level(c, n), NEW d \in Sorted(c)
  PROVE  Stocked(d, n, m, eq)
<1>1. Decreasing(d) /\ DOMAIN d = 1 .. n
  BY SortedBins DEF Bins
<1>2. PICK p : \A i \in 1 .. n : p[i] \in 1 .. n /\ d[i] = c[p[i]]
  <2>1. DOMAIN c = 1 .. n
    BY DEF Bins
  <2> QED BY <2>1, SortedBins DEF Reordered
<1>3. Bins(d, n, m)
  BY <1>1, <1>2 DEF Bins
<1>4. EmptyLightest(d, n)
  BY <1>2 DEF EmptyLightest
<1>5. Filled(d, n) \/ Sparse(d, n)
  BY <1>2 DEF Filled, Sparse
<1>6. eq => Level(d, n)
  BY <1>2 DEF Level, Filled
<1>7. EmptyLast(d, n)
  <2> SUFFICES ASSUME NEW i \in 1 .. n, NEW j \in 1 .. n, i < j,
                      d[j].items # <<>>, d[i].items = <<>>
               PROVE  FALSE
    BY DEF EmptyLast
  <2>1. d[i].sum = 0 /\ d[j].sum \in Nat
    BY <1>3, <1>4 DEF EmptyLightest, Bins
  <2>2. Len(d[j].items) \in Nat \ {0} /\ Len(d[i].items) = 0
    BY <1>3, EmptySeq, EmptyLen DEF Bins
  <2>3. d[j].sum > d[i].sum \/ d[j].sum = d[i].sum
    BY <2>1
  <2>4. Len(d[j].items) > Len(d[i].items)
    BY <2>2
  <2>5. Heavier(d[j], d[i])
    BY <2>3, <2>4, Zenon DEF Heavier
  <2> QED BY <1>1, <2>5 DEF Decreasing
<1> QED BY <1>3, <1>4, <1>5, <1>6, <1>7 DEF Stocked

(* Bin i of the state d holds the items of bin p[i] of s and then those of   *)
(* the bin of t that mirrors it.                                             *)
Mixture(d, s, t, p, n) ==
  \A i \in 1 .. n :
    /\ p[i] \in 1 .. n /\ n + 1 - p[i] \in 1 .. n
    /\ \A a, x : At(s, p[i], a, x) => At(d, i, a, x)
    /\ \A b, x : At(t, n + 1 - p[i], b, x)
                   => At(d, i, Len(s[p[i]].items) + b, x)
    /\ \A a, x : At(d, i, a, x) =>
         \/ At(s, p[i], a, x)
         \/ \E b : a = Len(s[p[i]].items) + b /\ At(t, n + 1 - p[i], b, x)

(* That is what merging and sorting make of two states.                      *)
LEMMA MixedItems ==
  ASSUME NEW n \in Nat \ {0}, NEW m \in Nat, NEW s, NEW t, NEW c,
         Holds(c, s, t, n, m), NEW d, NEW p, Reordered(d, c, p, n)
  PROVE  Mixture(d, s, t, p, n)
<1> SUFFICES ASSUME NEW i \in 1 .. n
             PROVE  /\ p[i] \in 1 .. n /\ n + 1 - p[i] \in 1 .. n
                    /\ \A a, x : At(s, p[i], a, x) => At(d, i, a, x)
                    /\ \A b, x : At(t, n + 1 - p[i], b, x)
                                   => At(d, i, Len(s[p[i]].items) + b, x)
                    /\ \A a, x : At(d, i, a, x) =>
                         \/ At(s, p[i], a, x)
                         \/ \E b : /\ a = Len(s[p[i]].items) + b
                                   /\ At(t, n + 1 - p[i], b, x)
  BY Zenon DEF Mixture
<1> DEFINE j == p[i]
           r == n + 1 - p[i]
           L == Len(s[j].items)
           K == Len(t[r].items)
<1>1. j \in 1 .. n /\ d[i] = c[j]
  BY DEF Reordered
<1>2. r \in 1 .. n
  BY <1>1
<1>3. /\ Len(c[j].items) = L + K /\ L \in Nat /\ K \in Nat
      /\ \A a \in 1 .. L : c[j].items[a] = s[j].items[a]
      /\ \A a \in 1 .. K : c[j].items[L + a] = t[r].items[a]
  BY <1>1 DEF Holds
<1> HIDE DEF j, r, L, K
<1>4. \A a \in 1 .. L : a \in 1 .. L + K
  BY <1>3
<1>5. \A a \in 1 .. K : L + a \in 1 .. L + K
  BY <1>3
<1>6. \A a \in 1 .. L + K : a \in 1 .. L \/ (a - L \in 1 .. K /\ a = L + (a - L))
  BY <1>3
<1>7. \A a, x : At(s, j, a, x) => At(d, i, a, x)
  BY <1>1, <1>3, <1>4, Zenon DEF At, L
<1>8. \A b, x : At(t, r, b, x) => At(d, i, L + b, x)
  BY <1>1, <1>3, <1>5, Zenon DEF At, K
<1>9. ASSUME NEW a, NEW x, At(d, i, a, x)
      PROVE  At(s, j, a, x) \/ \E b : a = L + b /\ At(t, r, b, x)
  <2>1. a \in 1 .. L + K /\ c[j].items[a] = x
    BY <1>1, <1>3, <1>9, Zenon DEF At
  <2>2. CASE a \in 1 .. L
    BY <1>3, <2>1, <2>2, Zenon DEF At, L
  <2>3. CASE a - L \in 1 .. K /\ a = L + (a - L)
    <3>1. PICK b : b = a - L
      OBVIOUS
    <3>2. b \in 1 .. K /\ a = L + b
      BY <2>3, <3>1, Zenon
    <3>3. t[r].items[b] = x
      BY <1>3, <2>1, <3>2, Zenon
    <3>4. At(t, r, b, x)
      BY <3>2, <3>3, Zenon DEF At, K
    <3> QED BY <3>2, <3>4, Zenon
  <2> QED BY <1>6, <2>1, <2>2, <2>3, Zenon
<1> QED BY <1>1, <1>2, <1>7, <1>8, <1>9, Zenon DEF j, r, L

(* No item is lost in it.                                                    *)
LEMMA MixedCovers ==
  ASSUME NEW n \in Nat \ {0}, NEW m \in Nat, NEW h, NEW s \in h, NEW t \in h,
         NEW d, NEW p, Mixture(d, s, t, p, n), p \in Surjection(1 .. n, 1 .. n),
         Covers(h, n, m)
  PROVE  Covers((h \ {s, t}) \cup {d}, n, m)
<1> SUFFICES ASSUME NEW x \in 1 .. m
             PROVE  \E u \in (h \ {s, t}) \cup {d} : \E i \in 1 .. n :
                      \E a : At(u, i, a, x)
  BY Zenon DEF Covers
<1>1. PICK u \in h : \E i \in 1 .. n : \E a : At(u, i, a, x)
  BY Zenon DEF Covers
<1>1a. PICK i \in 1 .. n : \E a : At(u, i, a, x)
  BY <1>1, Zenon
<1>2. PICK a : At(u, i, a, x)
  BY <1>1a, Zenon
<1>3. \A j \in 1 .. n : \E l \in 1 .. n : p[l] = j
  BY DEF Surjection
<1>4. CASE u = s
  <2>1. PICK l \in 1 .. n : p[l] = i
    BY <1>3, Zenon
  <2>2. At(d, l, a, x)
    BY <1>2, <1>4, <2>1, Zenon DEF Mixture
  <2> QED BY <2>2, Zenon
<1>5. CASE u = t
  <2>1. n + 1 - i \in 1 .. n /\ n + 1 - (n + 1 - i) = i
    OBVIOUS
  <2>2. PICK l \in 1 .. n : p[l] = n + 1 - i
    BY <1>3, <2>1, Zenon
  <2>3. At(t, n + 1 - p[l], a, x)
    BY <1>2, <1>5, <2>1, <2>2, Zenon
  <2>4. At(d, l, Len(s[p[l]].items) + a, x)
    BY <2>3, Zenon DEF Mixture
  <2> QED BY <2>4, Zenon
<1>6. CASE u \in h \ {s, t}
  BY <1>2, <1>6, Zenon
<1> QED BY <1>4, <1>5, <1>6, Zenon

(* Two places with the same item are one.                                    *)
LEMMA SamePlace ==
  ASSUME NEW n, NEW h, Once(h, n), NEW s \in h, NEW t \in h,
         NEW i \in 1 .. n, NEW j \in 1 .. n, NEW a, NEW b, NEW x,
         At(s, i, a, x), At(t, j, b, x)
  PROVE  s = t /\ i = j /\ a = b
BY DEF Once

(* And none is doubled.                                                      *)
LEMMA MixedOnce ==
  ASSUME NEW n \in Nat \ {0}, NEW h, NEW s \in h, NEW t \in h, s # t,
         NEW d, NEW p, Mixture(d, s, t, p, n), p \in Injection(1 .. n, 1 .. n),
         Once(h, n)
  PROVE  Once((h \ {s, t}) \cup {d}, n)
<1>1. ASSUME NEW i \in 1 .. n, NEW a, NEW x, At(d, i, a, x)
      PROVE  /\ p[i] \in 1 .. n /\ n + 1 - p[i] \in 1 .. n
             /\ \/ At(s, p[i], a, x)
                \/ \E b : /\ a = Len(s[p[i]].items) + b
                          /\ At(t, n + 1 - p[i], b, x)
  BY <1>1, Zenon DEF Mixture
<1>2. \A i, j \in 1 .. n : p[i] = p[j] => i = j
  BY DEF Injection, IsInjective
<1>3. ASSUME NEW v \in h \ {s, t}, NEW i \in 1 .. n, NEW j \in 1 .. n,
             NEW a, NEW b, NEW x, At(d, i, a, x), At(v, j, b, x)
      PROVE  FALSE
  <2>1. p[i] \in 1 .. n /\ n + 1 - p[i] \in 1 .. n
    BY <1>1, <1>3, Zenon
  <2>2. ASSUME NEW l \in 1 .. n, NEW e, At(s, l, e, x) PROVE FALSE
    BY <1>3, <2>2, SamePlace
  <2>3. ASSUME NEW l \in 1 .. n, NEW e, At(t, l, e, x) PROVE FALSE
    BY <1>3, <2>3, SamePlace
  <2> QED BY <1>1, <1>3, <2>1, <2>2, <2>3, Zenon
<1>4. ASSUME NEW i \in 1 .. n, NEW j \in 1 .. n,
             NEW a, NEW b, NEW x, At(d, i, a, x), At(d, j, b, x)
      PROVE  i = j /\ a = b
  <2>0. /\ p[i] \in 1 .. n /\ n + 1 - p[i] \in 1 .. n
        /\ p[j] \in 1 .. n /\ n + 1 - p[j] \in 1 .. n
    BY <1>1, <1>4, Zenon
  <2>1. CASE At(s, p[i], a, x) /\ At(s, p[j], b, x)
    <3>1. p[i] = p[j] /\ a = b
      BY <2>0, <2>1, SamePlace
    <3> QED BY <1>2, <3>1, Zenon
  <2>2. CASE At(s, p[i], a, x) /\ \E e : At(t, n + 1 - p[j], e, x)
    BY <2>0, <2>2, SamePlace
  <2>3. CASE At(s, p[j], b, x) /\ \E e : At(t, n + 1 - p[i], e, x)
    BY <2>0, <2>3, SamePlace
  <2>4. ASSUME NEW e, NEW f,
               a = Len(s[p[i]].items) + e, At(t, n + 1 - p[i], e, x),
               b = Len(s[p[j]].items) + f, At(t, n + 1 - p[j], f, x)
        PROVE  i = j /\ a = b
    <3>1. n + 1 - p[i] = n + 1 - p[j] /\ e = f
      BY <2>0, <2>4, SamePlace
    <3>3. p[i] = p[j]
      BY <2>0, <3>1
    <3>4. i = j
      BY <3>3, <1>2, Zenon
    <3> QED BY <2>4, <3>1, <3>4, Zenon
  <2>5. /\ At(s, p[i], a, x) \/ \E e : a = Len(s[p[i]].items) + e
                                       /\ At(t, n + 1 - p[i], e, x)
        /\ At(s, p[j], b, x) \/ \E e : b = Len(s[p[j]].items) + e
                                       /\ At(t, n + 1 - p[j], e, x)
    BY <1>1, <1>4, Zenon
  <2> QED BY <2>1, <2>2, <2>3, <2>4, <2>5, Zenon
<1> DEFINE H == (h \ {s, t}) \cup {d}
<1>5. ASSUME NEW u \in H, NEW v \in H, NEW i \in 1 .. n, NEW j \in 1 .. n,
             NEW a, NEW b, NEW x, At(u, i, a, x), At(v, j, b, x)
      PROVE  u = v /\ i = j /\ a = b
  <2>1. CASE u = d /\ v = d
    BY <1>4, <1>5, <2>1, Zenon
  <2>2. CASE u = d /\ v \in h \ {s, t}
    BY <1>3, <1>5, <2>2, Zenon
  <2>3. CASE u \in h \ {s, t} /\ v = d
    BY <1>3, <1>5, <2>3, Zenon
  <2>4. CASE u \in h \ {s, t} /\ v \in h \ {s, t}
    BY <1>5, <2>4, SamePlace
  <2> QED BY <2>1, <2>2, <2>3, <2>4, Zenon
<1> HIDE DEF H
<1>6. Once(H, n)
  BY ONLY <1>5 DEF Once
<1> QED BY <1>6 DEF H

-----------------------------------------------------------------------------
(* The first state of a single item: it is in the first bin.                 *)
LEMMA SingleStocked ==
  ASSUME k' \in Nat \ {0}, weight' \in Seq(Nat), NEW i \in 1 .. Len(weight')
  PROVE  /\ Stocked(SingleItem(i), k', Len(weight'), FALSE)
         /\ \A j \in 1 .. k' : \A a, x :
              At(SingleItem(i), j, a, x) <=> j = 1 /\ a = 1 /\ x = i
<1> DEFINE n == k'
           m == Len(weight')
           s == SingleItem(i)
<1>1. n \in Nat \ {0} /\ m \in Nat /\ i \in 1 .. m /\ weight'[i] \in Nat
  BY LenProperties
<1>2. DOMAIN s = 1 .. n
  BY DEF SingleItem
<1>3. s[1].sum = weight'[i] /\ s[1].items = <<i>>
  BY <1>1 DEF SingleItem, Bin
<1>4. \A j \in 1 .. n : j # 1 => s[j].sum = 0 /\ s[j].items = <<>>
  BY DEF SingleItem, EmptyBin
<1> HIDE DEF s, n, m
<1>5. /\ <<i>> \in Seq(1 .. m) /\ <<>> \in Seq(1 .. m)
      /\ <<i>> # <<>> /\ Len(<<i>>) = 1 /\ Len(<<>>) = 0 /\ <<i>>[1] = i
  BY <1>1
<1>6. Bins(s, n, m)
  <2>1. \A j \in 1 .. n : s[j].items \in Seq(1 .. m)
    BY <1>3, <1>4, <1>5, Zenon
  <2>2. \A j \in 1 .. n : s[j].sum = weight'[i] \/ s[j].sum = 0
    BY <1>3, <1>4, Zenon
  <2>3. 0 \in Nat
    OBVIOUS
  <2>4. \A j \in 1 .. n : s[j].sum \in Nat
    BY <1>1, <2>2, <2>3, Zenon
  <2> QED BY <1>2, <2>1, <2>4, Zenon DEF Bins
<1>7. Sparse(s, n)
  <2> SUFFICES ASSUME NEW j \in 1 .. n PROVE Len(s[j].items) <= 1
    BY DEF Sparse
  <2>1. Len(s[j].items) = 1 \/ Len(s[j].items) = 0
    BY <1>3, <1>4, <1>5, Zenon
  <2>2. 1 <= 1 /\ 0 <= 1
    OBVIOUS
  <2> QED BY <2>1, <2>2, Zenon
<1>8. EmptyLast(s, n)
  <2> SUFFICES ASSUME NEW l \in 1 .. n, NEW j \in 1 .. n, l < j, s[j].items # <<>>
               PROVE  FALSE
    BY DEF EmptyLast
  <2>1. j = 1
    BY <1>4, Zenon
  <2> QED BY <2>1
<1>9. EmptyLightest(s, n)
  BY <1>3, <1>4, <1>5, Zenon DEF EmptyLightest
<1>10. ASSUME NEW j \in 1 .. n, NEW a, NEW x
       PROVE  At(s, j, a, x) <=> j = 1 /\ a = 1 /\ x = i
  <2>1. CASE j = 1
    <3>1. a \in 1 .. 1 <=> a = 1
      OBVIOUS
    <3> QED BY <1>3, <1>5, <2>1, <3>1, Zenon DEF At
  <2>2. CASE j # 1
    <3>1. a \notin 1 .. 0
      OBVIOUS
    <3> QED BY <1>4, <1>5, <2>2, <3>1, Zenon DEF At
  <2> QED BY <2>1, <2>2
<1>11. Stocked(s, n, m, FALSE)
  BY <1>6, <1>7, <1>8, <1>9 DEF Stocked
<1> QED BY <1>10, <1>11 DEF s, n, m

(* The first state of a chunk: one item in every bin.                        *)
LEMMA ChunkStocked ==
  ASSUME k' \in Nat \ {0}, weight' \in Seq(Nat), Len(weight') % k' = 0,
         NEW c \in 0 .. Len(weight') \div k' - 1
  PROVE  /\ Stocked(Chunk(c), k', Len(weight'), TRUE)
         /\ \A j \in 1 .. k' : \A a, x :
              At(Chunk(c), j, a, x) <=>
                a = 1 /\ x = Ascending[c * k' + k' + 1 - j]
<1> DEFINE n == k'
           m == Len(weight')
           s == Chunk(c)
           at(j) == Ascending[c * k' + k' + 1 - j]
<1>1. n \in Nat \ {0} /\ m \in Nat /\ weight' \in [1 .. m -> Nat]
  BY LenProperties
<1>2. Ascending \in [1 .. m -> 1 .. m]
  BY <1>1, AscendingOrder DEF Injection
<1>3. \A j \in 1 .. n : at(j) \in 1 .. m
  <2> SUFFICES ASSUME NEW j \in 1 .. n PROVE at(j) \in 1 .. m
    OBVIOUS
  <2>1. m % n = 0 /\ c \in 0 .. m \div n - 1
    OBVIOUS
  <2> HIDE DEF m, n
  <2>2. c * n + n + 1 - j \in 1 .. m
    BY <1>1, <2>1, ChunkInside
  <2> QED BY <1>2, <2>2 DEF n
<1>4. DOMAIN s = 1 .. n /\ \A j \in 1 .. n : s[j] = Bin(at(j))
  BY DEF Chunk
<1>5. \A j \in 1 .. n : s[j].sum = weight'[at(j)] /\ s[j].items = <<at(j)>>
  <2> SUFFICES ASSUME NEW j \in 1 .. n
               PROVE  s[j].sum = weight'[at(j)] /\ s[j].items = <<at(j)>>
    OBVIOUS
  <2> HIDE DEF s, at, n
  <2>1. s[j] = Bin(at(j))
    BY <1>4, Zenon
  <2>2. Bin(at(j)).sum = weight'[at(j)] /\ Bin(at(j)).items = <<at(j)>>
    BY DEF Bin
  <2> QED BY <2>1, <2>2, Zenon
<1> HIDE DEF s, n, m
<1>6. \A j \in 1 .. n : weight'[at(j)] \in Nat
  BY <1>1, <1>3
<1>7. \A i \in 1 .. m : /\ <<i>> \in Seq(1 .. m) /\ <<i>> # <<>>
                        /\ Len(<<i>>) = 1 /\ <<i>>[1] = i
  BY <1>1
<1> HIDE DEF at
<1>8. \A j \in 1 .. n : /\ s[j].items \in Seq(1 .. m) /\ s[j].items # <<>>
                        /\ Len(s[j].items) = 1 /\ s[j].items[1] = at(j)
  <2> SUFFICES ASSUME NEW j \in 1 .. n
               PROVE  /\ s[j].items \in Seq(1 .. m) /\ s[j].items # <<>>
                      /\ Len(s[j].items) = 1 /\ s[j].items[1] = at(j)
    OBVIOUS
  <2>1. at(j) \in 1 .. m /\ s[j].items = <<at(j)>>
    BY <1>3, <1>5, Zenon
  <2>2. /\ <<at(j)>> \in Seq(1 .. m) /\ <<at(j)>> # <<>>
        /\ Len(<<at(j)>>) = 1 /\ <<at(j)>>[1] = at(j)
    BY <1>7, <2>1, Zenon
  <2> QED BY <2>1, <2>2, Zenon
<1>9. Bins(s, n, m)
  BY <1>4, <1>5, <1>6, <1>8 DEF Bins
<1>10. Level(s, n)
  BY <1>8 DEF Level, Filled
<1>11. EmptyLast(s, n) /\ EmptyLightest(s, n)
  BY <1>8, Zenon DEF EmptyLast, EmptyLightest
<1>12. ASSUME NEW j \in 1 .. n, NEW a, NEW x
       PROVE  At(s, j, a, x) <=> a = 1 /\ x = at(j)
  <2>1. a \in 1 .. 1 <=> a = 1
    OBVIOUS
  <2> QED BY <1>8, <2>1, Zenon DEF At
<1>13. Stocked(s, n, m, TRUE)
  BY <1>9, <1>10, <1>11, Zenon DEF Stocked, Level
<1> QED BY <1>12, <1>13 DEF s, n, m, at

(* When parts divides n, every place in the order has one chunk and one bin. *)
LEMMA ChunkPlaces ==
  ASSUME NEW n \in Nat, NEW parts \in Nat \ {0}, n % parts = 0
  PROVE  /\ \A r \in 1 .. n : \E c \in 0 .. n \div parts - 1, j \in 1 .. parts :
              r = c * parts + parts + 1 - j
         /\ \A c, e \in 0 .. n \div parts - 1, i, j \in 1 .. parts :
              c * parts + parts + 1 - i = e * parts + parts + 1 - j
                => c = e /\ i = j
<1> DEFINE q == n \div parts
<1>1. q \in Nat /\ n = q * parts
  OBVIOUS
<1>2. \A x, y \in Nat : x < y => x * parts + parts <= y * parts
  <2> SUFFICES ASSUME NEW x \in Nat, NEW y \in Nat, x < y
               PROVE  x * parts + parts <= y * parts
    OBVIOUS
  <2>1. (x + 1) * parts <= y * parts
    OBVIOUS
  <2> QED BY <2>1
<1>3. ASSUME NEW r \in 1 .. n
      PROVE  \E c \in 0 .. q - 1, j \in 1 .. parts : r = c * parts + parts + 1 - j
  <2> DEFINE c == (r - 1) \div parts
             b == (r - 1) % parts
  <2>1. c \in Nat /\ b \in 0 .. parts - 1 /\ r - 1 = c * parts + b
    OBVIOUS
  <2> HIDE DEF b, c, q
  <2>2. c < q
    <3> SUFFICES ASSUME q <= c PROVE FALSE
      BY <1>1, <2>1
    <3>1. q * parts <= c * parts
      BY <1>1, <2>1
    <3>2. c * parts \in Nat
      BY <2>1
    <3> QED BY <1>1, <2>1, <3>1, <3>2
  <2>3. c \in 0 .. q - 1
    BY <1>1, <2>1, <2>2
  <2> DEFINE j == parts - b
  <2>4. j \in 1 .. parts
    BY <2>1
  <2>5. r = c * parts + parts + 1 - j
    <3>1. c * parts \in Nat
      BY <2>1
    <3> QED BY <2>1, <3>1
  <2> QED BY <2>3, <2>4, <2>5
<1>4. ASSUME NEW c \in 0 .. q - 1, NEW e \in 0 .. q - 1,
             NEW i \in 1 .. parts, NEW j \in 1 .. parts,
             c * parts + parts + 1 - i = e * parts + parts + 1 - j
      PROVE  c = e /\ i = j
  <2>1. c \in Nat /\ e \in Nat /\ c * parts \in Nat /\ e * parts \in Nat
    BY <1>1
  <2>2. ~ (c < e)
    <3> SUFFICES ASSUME c < e PROVE FALSE
      OBVIOUS
    <3>1. c * parts + parts <= e * parts
      BY <1>2, <2>1
    <3> HIDE DEF q
    <3> QED BY <1>4, <2>1, <3>1
  <2>3. ~ (e < c)
    <3> SUFFICES ASSUME e < c PROVE FALSE
      OBVIOUS
    <3>1. e * parts + parts <= c * parts
      BY <1>2, <2>1
    <3> HIDE DEF q
    <3> QED BY <1>4, <2>1, <3>1
  <2>4. c = e
    BY <2>1, <2>2, <2>3
  <2> QED BY <1>4, <2>1, <2>4
<1> QED BY <1>3, <1>4

-----------------------------------------------------------------------------
LEMMA ItemInit == KKInit => ItemInv
<1>1. IsFiniteSet({})
  BY FS_EmptySet
<1>2. ASSUME KKInit PROVE ItemInv
  <2>1. heap = {} /\ Len(weight) = 0 /\ 1 .. 0 = {}
    BY <1>2 DEF KKInit
  <2>2. Covers(heap, k, Len(weight)) /\ Once(heap, k)
    BY <2>1, Zenon DEF Covers, Once
  <2> QED BY <1>1, <2>1, <2>2 DEF ItemInv
<1> QED BY <1>2

(* The call lays every item out once.                                        *)
LEMMA ItemStart == Start => ItemInv'
<1> SUFFICES ASSUME Start PROVE ItemInv'
  OBVIOUS
<1> DEFINE n == k'
           m == Len(weight')
<1>1. /\ weight' \in Seq(Nat) /\ n \in Nat \ {0} /\ m \in Nat /\ m >= n
      /\ weight' \in [1 .. m -> Nat]
  BY LenProperties DEF Start, Accepted
<1>2. CASE equal'
  <2> DEFINE C == 0 .. m \div n - 1
             f == [c \in C |-> Chunk(c)]
  <2>1. m % n = 0 /\ heap' = {Chunk(c) : c \in C}
    BY <1>2 DEF Start, Accepted, Push
  <2>2. \A c \in C :
          /\ Stocked(Chunk(c), n, m, TRUE)
          /\ \A j \in 1 .. n : \A a, x :
               At(Chunk(c), j, a, x) <=> a = 1 /\ x = Ascending[c * n + n + 1 - j]
    BY <1>1, <2>1, ChunkStocked
  <2>3. IsFiniteSet(heap')
    <3>1. m \div n - 1 \in Int
      <4> HIDE DEF m, n
      <4> QED BY <1>1
    <3>2. IsFiniteSet(C)
      BY <3>1, FS_Interval
    <3>3. f \in Surjection(C, heap')
      BY <2>1 DEF Surjection
    <3> QED BY <3>2, <3>3, FS_Surjection
  <2>4. \A s \in heap' : Stocked(s, n, m, equal')
    BY <2>1, <2>2 DEF Stocked
  <2> DEFINE A == Ascending
  <2>5. /\ A \in [1 .. m -> 1 .. m] /\ A \in Surjection(1 .. m, 1 .. m)
        /\ \A r, q \in 1 .. m : A[r] = A[q] => r = q
    <3>1. A \in Injection(1 .. m, 1 .. m)
      BY <1>1, AscendingOrder
    <3>2. IsFiniteSet(1 .. m)
      BY <1>1, FS_Interval
    <3> HIDE DEF A
    <3> QED BY <3>1, <3>2, FS_Injection DEF Injection, IsInjective
  <2> HIDE DEF A
  <2>6. /\ \A r \in 1 .. m : \E c \in C, j \in 1 .. n : r = c * n + n + 1 - j
        /\ \A c, e \in C, i, j \in 1 .. n :
             c * n + n + 1 - i = e * n + n + 1 - j => c = e /\ i = j
        /\ \A c \in C, j \in 1 .. n : c * n + n + 1 - j \in 1 .. m
    <3>1. n \in Nat \ {0} /\ m \in Nat /\ m % n = 0
      BY <1>1, <2>1
    <3> HIDE DEF m, n
    <3>2. /\ \A r \in 1 .. m : \E c \in C, j \in 1 .. n : r = c * n + n + 1 - j
          /\ \A c, e \in C, i, j \in 1 .. n :
               c * n + n + 1 - i = e * n + n + 1 - j => c = e /\ i = j
      BY <3>1, ChunkPlaces, Zenon
    <3>3. \A c \in C, j \in 1 .. n : c * n + n + 1 - j \in 1 .. m
      BY <3>1, ChunkInside, Zenon
    <3> QED BY <3>2, <3>3, Zenon
  <2> HIDE DEF m, n, C
  <2>7. Covers(heap', n, m)
    <3> SUFFICES ASSUME NEW x \in 1 .. m
                 PROVE  \E s \in heap' : \E i \in 1 .. n : \E a : At(s, i, a, x)
      BY Zenon DEF Covers
    <3>1. PICK r \in 1 .. m : A[r] = x
      BY <2>5 DEF Surjection
    <3>2. PICK c \in C, j \in 1 .. n : r = c * n + n + 1 - j
      BY <2>6, Zenon
    <3>3. At(Chunk(c), j, 1, x)
      BY <2>2, <3>1, <3>2, Zenon DEF A
    <3> QED BY <2>1, <3>3, Zenon
  <2>8. Once(heap', n)
    <3> SUFFICES ASSUME NEW s \in heap', NEW t \in heap', NEW i \in 1 .. n,
                        NEW j \in 1 .. n, NEW a, NEW b, NEW x,
                        At(s, i, a, x), At(t, j, b, x)
                 PROVE  s = t /\ i = j /\ a = b
      BY Zenon DEF Once
    <3>1. PICK c \in C : s = Chunk(c)
      BY <2>1, Zenon
    <3>2. PICK e \in C : t = Chunk(e)
      BY <2>1, Zenon
    <3>3. /\ a = 1 /\ x = A[c * n + n + 1 - i]
          /\ b = 1 /\ x = A[e * n + n + 1 - j]
      BY <2>2, <3>1, <3>2, Zenon DEF A
    <3>4. c * n + n + 1 - i = e * n + n + 1 - j
      <4>1. c * n + n + 1 - i \in 1 .. m /\ e * n + n + 1 - j \in 1 .. m
        BY <2>6
      <4> QED BY <2>5, <3>3, <4>1, Zenon
    <3>5. c = e /\ i = j
      BY <2>6, <3>4
    <3> QED BY <3>1, <3>2, <3>3, <3>5, Zenon
  <2> QED BY <1>1, <2>3, <2>4, <2>7, <2>8, Zenon DEF ItemInv, m, n
<1>3. CASE ~ equal'
  <2> DEFINE f == [i \in 1 .. m |-> SingleItem(i)]
  <2>1. heap' = {SingleItem(i) : i \in 1 .. m}
    BY <1>3 DEF Start, Push
  <2>2. \A i \in 1 .. m :
          /\ Stocked(SingleItem(i), n, m, FALSE)
          /\ \A j \in 1 .. n : \A a, x :
               At(SingleItem(i), j, a, x) <=> j = 1 /\ a = 1 /\ x = i
    BY <1>1, SingleStocked
  <2>3. IsFiniteSet(heap')
    <3>1. IsFiniteSet(1 .. m)
      BY <1>1, FS_Interval
    <3>2. f \in Surjection(1 .. m, heap')
      BY <2>1 DEF Surjection
    <3> QED BY <3>1, <3>2, FS_Surjection
  <2>4. \A s \in heap' : Stocked(s, n, m, equal')
    BY <1>3, <2>1, <2>2 DEF Stocked
  <2>5. 1 \in 1 .. n
    BY <1>1
  <2> HIDE DEF m, n
  <2>6. Covers(heap', n, m)
    <3> SUFFICES ASSUME NEW x \in 1 .. m
                 PROVE  \E s \in heap' : \E i \in 1 .. n : \E a : At(s, i, a, x)
      BY Zenon DEF Covers
    <3>1. At(SingleItem(x), 1, 1, x)
      BY <2>2, <2>5, Zenon
    <3> QED BY <2>1, <2>5, <3>1, Zenon
  <2>7. Once(heap', n)
    <3> SUFFICES ASSUME NEW s \in heap', NEW t \in heap', NEW i \in 1 .. n,
                        NEW j \in 1 .. n, NEW a, NEW b, NEW x,
                        At(s, i, a, x), At(t, j, b, x)
                 PROVE  s = t /\ i = j /\ a = b
      BY Zenon DEF Once
    <3>1. PICK c \in 1 .. m : s = SingleItem(c)
      BY <2>1, Zenon
    <3>2. PICK e \in 1 .. m : t = SingleItem(e)
      BY <2>1, Zenon
    <3>3. i = 1 /\ a = 1 /\ x = c /\ j = 1 /\ b = 1 /\ x = e
      BY <2>2, <3>1, <3>2, Zenon
    <3> QED BY <3>1, <3>2, <3>3, Zenon
  <2> QED BY <1>1, <2>3, <2>4, <2>6, <2>7, Zenon DEF ItemInv, m, n
<1> QED BY <1>2, <1>3

(* A merge keeps the items of its two states, once each.                     *)
LEMMA ItemMerge == KKInv /\ ItemInv /\ Merge => ItemInv'
<1> SUFFICES ASSUME KKInv, ItemInv, Merge PROVE ItemInv'
  OBVIOUS
<1> DEFINE m == Len(weight)
<1>1. UNCHANGED <<weight, k, equal>> /\ k \in Nat \ {0} /\ m \in Nat
  BY LenProperties DEF Merge, KKInv
<1>2. PICK s \in Popped(heap) : \E t \in Popped(heap \ {s}) :
        \E d \in Sorted(Merged(s, t)) : heap' = (heap \ {s, t}) \cup {d}
  BY DEF Merge
<1>2a. PICK t \in Popped(heap \ {s}) :
         \E d \in Sorted(Merged(s, t)) : heap' = (heap \ {s, t}) \cup {d}
  BY <1>2, Zenon
<1>3. PICK d \in Sorted(Merged(s, t)) : heap' = (heap \ {s, t}) \cup {d}
  BY <1>2a, Zenon
<1>4. s \in heap /\ t \in heap /\ s # t
  BY DEF Popped
<1>5. Stocked(s, k, m, equal) /\ Stocked(t, k, m, equal)
  BY <1>4 DEF ItemInv
<1> DEFINE c == Merged(s, t)
<1> HIDE DEF m
<1>6. /\ Bins(c, k, m) /\ EmptyLightest(c, k)
      /\ Filled(c, k) \/ Sparse(c, k)
      /\ equal => Level(c, k)
  BY <1>1, <1>5, MergedStock
<1>7. Holds(c, s, t, k, m)
  BY <1>1, <1>5, MergedBins DEF Stocked
<1> HIDE DEF c
<1>8. Stocked(d, k, m, equal)
  BY <1>1, <1>3, <1>6, SortedStock DEF c
<1>9. PICK p : Reordered(d, c, p, k)
  BY <1>1, <1>3, <1>6, SortedBins DEF Bins, c
<1>10. Mixture(d, s, t, p, k)
  BY <1>1, <1>7, <1>9, MixedItems
<1>11. p \in Injection(1 .. k, 1 .. k) /\ p \in Surjection(1 .. k, 1 .. k)
  BY <1>9 DEF Reordered
<1>12. Covers(heap', k, m) /\ Once(heap', k)
  <2>1. Covers(heap, k, m) /\ Once(heap, k)
    BY DEF ItemInv, m
  <2> QED BY <1>1, <1>3, <1>4, <1>10, <1>11, <2>1, MixedCovers, MixedOnce
<1>13. \A u \in heap' : Stocked(u, k, m, equal)
  BY <1>3, <1>8, Zenon DEF ItemInv, m
<1>14. IsFiniteSet(heap')
  <2>1. IsFiniteSet(heap \ {s, t})
    BY FS_Subset, heap \ {s, t} \in SUBSET heap DEF ItemInv
  <2> QED BY <1>3, <2>1, FS_AddElement
<1>15. m >= k
  BY <1>4 DEF ItemInv, m
<1> QED BY <1>1, <1>12, <1>13, <1>14, <1>15, Zenon DEF ItemInv, m

LEMMA ItemNext == KKInv /\ ItemInv /\ [KKNext]_kkvars => ItemInv'
<1> SUFFICES ASSUME KKInv, ItemInv, [KKNext]_kkvars PROVE ItemInv'
  OBVIOUS
<1>1. CASE Start
  BY <1>1, ItemStart
<1>2. CASE Merge
  BY <1>2, ItemMerge
<1>3. CASE UNCHANGED kkvars
  BY <1>3 DEF ItemInv, kkvars
<1> QED BY <1>1, <1>2, <1>3 DEF KKNext

-----------------------------------------------------------------------------
(* A lone state that holds at least as many items as bins has no empty bin:  *)
(* one that is not filled has at most one item in a bin, too few of them.    *)
LEMMA LoneFilled ==
  ASSUME NEW n \in Nat \ {0}, NEW m \in Nat, m >= n, NEW s, Bins(s, n, m),
         Filled(s, n) \/ Sparse(s, n), Covers({s}, n, m)
  PROVE  Filled(s, n)
<1> SUFFICES ASSUME Sparse(s, n), NEW e \in 1 .. n, s[e].items = <<>>
             PROVE  FALSE
  BY DEF Filled
<1> DEFINE B == (1 .. n) \ {e}
           f == [x \in 1 .. m |-> CHOOSE i \in 1 .. n : \E a : At(s, i, a, x)]
<1>1. ASSUME NEW x \in 1 .. m PROVE \E i \in 1 .. n : \E a : At(s, i, a, x)
  BY <1>1, Zenon DEF Covers
<1>2. ASSUME NEW x \in 1 .. m PROVE f[x] \in 1 .. n /\ \E a : At(s, f[x], a, x)
  <2>1. f[x] = CHOOSE i \in 1 .. n : \E a : At(s, i, a, x)
    OBVIOUS
  <2> QED BY <1>1, <2>1, Zenon
<1> HIDE DEF f
<1>3. ASSUME NEW i \in 1 .. n, NEW a, NEW x, At(s, i, a, x)
      PROVE  a = 1 /\ x = s[i].items[1] /\ i # e
  <2>1. PICK L : L = Len(s[i].items)
    OBVIOUS
  <2>2. L \in Nat /\ L <= 1 /\ Len(<<>>) = 0
    BY <2>1, LenProperties DEF Bins, Sparse
  <2>3. a \in 1 .. L /\ x = s[i].items[a]
    BY <1>3, <2>1, Zenon DEF At
  <2>4. a = 1 /\ L # 0
    BY <2>2, <2>3
  <2> QED BY <2>1, <2>2, <2>3, <2>4, Zenon
<1>4. f \in Injection(1 .. m, B)
  <2>1. f \in [1 .. m -> B]
    <3>1. \A x \in 1 .. m : f[x] \in B
      BY <1>2, <1>3, Zenon
    <3> QED BY <3>1 DEF f
  <2>2. ASSUME NEW x \in 1 .. m, NEW y \in 1 .. m, f[x] = f[y] PROVE x = y
    <3>1. f[x] \in 1 .. n /\ f[y] \in 1 .. n
      BY <1>2, Zenon
    <3>2. x = s[f[x]].items[1] /\ y = s[f[y]].items[1]
      BY <1>2, <1>3, <3>1, Zenon
    <3> QED BY <2>2, <3>2, Zenon
  <2> QED BY <2>1, <2>2 DEF Injection, IsInjective
<1>5. /\ IsFiniteSet(1 .. n) /\ Cardinality(1 .. n) = n
      /\ IsFiniteSet(1 .. m) /\ Cardinality(1 .. m) = m
  BY FS_Interval
<1>6. IsFiniteSet(B) /\ Cardinality(B) = n - 1
  BY <1>5, FS_RemoveElement
<1> HIDE DEF B
<1>7. m <= n - 1
  BY <1>4, <1>5, <1>6, FS_Injection
<1> QED BY <1>7

(* A lone state with as many items in every bin holds that many of them n    *)
(* times.                                                                    *)
LEMMA LoneLevel ==
  ASSUME NEW n \in Nat \ {0}, NEW m \in Nat, NEW s, Bins(s, n, m),
         Level(s, n), Covers({s}, n, m), Once({s}, n), NEW e \in 1 .. n
  PROVE  Len(s[e].items) * n = m
<1> DEFINE L == Len(s[e].items)
           P == (1 .. n) \X (1 .. L)
           f == [x \in 1 .. m |-> CHOOSE q \in P : At(s, q[1], q[2], x)]
<1>1. L \in Nat
  BY LenProperties DEF Bins
<1>2. \A i \in 1 .. n : Len(s[i].items) = L /\ s[i].items \in Seq(1 .. m)
  BY DEF Level, Bins
<1>3. ASSUME NEW i \in 1 .. n, NEW a \in 1 .. L PROVE s[i].items[a] \in 1 .. m
  BY <1>2, ElementOfSeq, Zenon
<1> HIDE DEF L
<1>4. ASSUME NEW x \in 1 .. m PROVE f[x] \in P /\ At(s, f[x][1], f[x][2], x)
  <2>0. PICK i \in 1 .. n : \E a : At(s, i, a, x)
    BY Zenon DEF Covers
  <2>1. PICK a : At(s, i, a, x)
    BY <2>0, Zenon
  <2>2. a \in 1 .. L
    BY <1>2, <2>1, Zenon DEF At
  <2>3. <<i, a>> \in P /\ <<i, a>>[1] = i /\ <<i, a>>[2] = a
    BY <2>2
  <2>4. \E q \in P : At(s, q[1], q[2], x)
    BY <2>1, <2>3, Zenon
  <2>5. f[x] = CHOOSE q \in P : At(s, q[1], q[2], x)
    OBVIOUS
  <2> QED BY <2>4, <2>5, Zenon
<1>5. f \in [1 .. m -> P]
  <2> HIDE DEF P
  <2>1. \A x \in 1 .. m : f[x] \in P
    BY <1>4, Zenon
  <2> QED BY <2>1
<1> HIDE DEF f
<1>6. ASSUME NEW x \in 1 .. m, NEW y \in 1 .. m, f[x] = f[y] PROVE x = y
  <2>1. At(s, f[x][1], f[x][2], x) /\ At(s, f[x][1], f[x][2], y)
    BY <1>4, <1>6, Zenon
  <2> QED BY <2>1, Zenon DEF At
<1>7. f \in Injection(1 .. m, P)
  <2> HIDE DEF P
  <2> QED BY <1>5, <1>6 DEF Injection, IsInjective
<1>8. ASSUME NEW q \in P PROVE \E x \in 1 .. m : f[x] = q
  <2>1. PICK i \in 1 .. n, a \in 1 .. L : q = <<i, a>>
    OBVIOUS
  <2> DEFINE x == s[i].items[a]
  <2>2. x \in 1 .. m /\ At(s, i, a, x)
    BY <1>2, <1>3, Zenon DEF At
  <2> HIDE DEF x
  <2>3. PICK j \in 1 .. n, b \in 1 .. L : f[x] = <<j, b>>
    BY <1>4, <2>2
  <2>4. At(s, j, b, x)
    BY <1>4, <2>2, <2>3
  <2>5. i = j /\ a = b
    BY <2>2, <2>4, SamePlace, s \in {s}
  <2> QED BY <2>1, <2>2, <2>3, <2>5, Zenon
<1>9. f \in Surjection(1 .. m, P)
  <2> HIDE DEF P
  <2> QED BY <1>5, <1>8 DEF Surjection
<1>10. /\ IsFiniteSet(1 .. n) /\ Cardinality(1 .. n) = n
       /\ IsFiniteSet(1 .. L) /\ Cardinality(1 .. L) = L
       /\ Cardinality(1 .. m) = m
  BY <1>1, FS_Interval
<1>11. IsFiniteSet(P) /\ Cardinality(P) = n * L
  <2> DEFINE S == 1 .. n
             T == 1 .. L
  <2>1. IsFiniteSet(S) /\ Cardinality(S) = n /\ IsFiniteSet(T) /\ Cardinality(T) = L
    BY <1>10
  <2> HIDE DEF S, T
  <2>2. IsFiniteSet(S \X T) /\ Cardinality(S \X T) = Cardinality(S) * Cardinality(T)
    BY <2>1, FS_Product
  <2> QED BY <2>1, <2>2 DEF S, T
<1> HIDE DEF P
<1>12. m = n * L
  BY <1>7, <1>9, <1>10, <1>11, FS_Injection
<1> QED BY <1>1, <1>12 DEF L

(* When the call returns: the one state left has all the items, each once.   *)
LEMMA ItemsSound == KKInv /\ ItemInv => PartitionsSound
<1> SUFFICES ASSUME KKInv, ItemInv, Cardinality(heap) = 1, NEW i \in 1 .. k
             PROVE  /\ Final[i].items # <<>>
                    /\ equal => Len(Final[i].items) * k = Len(weight)
  BY DEF PartitionsSound, Returned
<1> DEFINE m == Len(weight)
           s == Final
<1>1. k \in Nat \ {0} /\ m \in Nat
  BY LenProperties DEF KKInv
<1>2. PICK u : heap = {u}
  BY FS_Singleton DEF ItemInv
<1>3. s = u
  BY <1>2, Zenon DEF Final
<1> HIDE DEF s
<1>4. /\ Stocked(s, k, m, equal) /\ m >= k
      /\ Covers({s}, k, m) /\ Once({s}, k)
  BY <1>2, <1>3 DEF ItemInv
<1> HIDE DEF m
<1>5. Filled(s, k)
  BY <1>1, <1>4, LoneFilled DEF Stocked
<1>6. equal => Len(s[i].items) * k = m
  BY <1>1, <1>4, LoneLevel DEF Stocked
<1> QED BY <1>5, <1>6 DEF s, m, Filled

(* The asserts of get_seqlen_balanced_partitions never fail, for any list of *)
(* lengths and any number of partitions it accepts: no partition is returned *)
(* empty, and with equal_size all have the same number of items.             *)
THEOREM PartitionsRight == KKSpec => []PartitionsSound
<1>1. KKInit => KKInv /\ ItemInv
  BY KKInitInv, ItemInit
<1>2. (KKInv /\ ItemInv) /\ [KKNext]_kkvars => (KKInv /\ ItemInv)'
  BY KKNextInv, ItemNext
<1> QED BY <1>1, <1>2, ItemsSound, PTL DEF KKSpec

-----------------------------------------------------------------------------
(* Induction over the subsets of a finite set, Good being those of which    *)
(* the claim holds.                                                         *)
LEMMA SubsetInduction ==
  ASSUME NEW S, IsFiniteSet(S), NEW Good,
         \A T \in SUBSET S : (\A U \in SUBSET T : U # T => U \in Good) => T \in Good
  PROVE  S \in Good
<1> DEFINE Bad == (SUBSET S) \ Good
<1>1. SUFFICES ASSUME Bad # {} PROVE FALSE
  OBVIOUS
<1>2. IsWellFoundedOn(StrictSubsetOrdering(S), SUBSET S)
  BY FS_StrictSubsetOrderingWellFounded, FS_FiniteSubsetsOfFinite
<1>3. PICK T \in Bad : \A U \in Bad : ~ (<<U, T>> \in StrictSubsetOrdering(S))
  <2>1. Bad \subseteq SUBSET S
    OBVIOUS
  <2> HIDE DEF Bad
  <2> QED BY <1>1, <1>2, <2>1, WFMin
<1>4. \A U \in SUBSET T : U # T => U \in Good
  BY <1>3 DEF StrictSubsetOrdering
<1> QED BY <1>3, <1>4

(* Sums: of a function over a set, the sums over all its subsets are given  *)
(* by one function.                                                         *)
OneOf(s) == CHOOSE x \in s : TRUE
IsSums(f, S, sums) ==
  sums = [s \in SUBSET S |-> IF s = {} THEN 0 ELSE f[OneOf(s)] + sums[s \ {OneOf(s)}]]
SumsOf(f, S) == CHOOSE sums : IsSums(f, S, sums)

(* The sum is what that function says of the whole set.                     *)
LEMMA SumIs == \A f, S : Sum(f, S) = SumsOf(f, S)[S]
BY Zenon DEF Sum, FoldFunctionOnSet, MapThenFoldSet, SumsOf, IsSums, OneOf

(* Those functions agree on a smaller set.                                  *)
LEMMA SumsAgree ==
  ASSUME NEW S, IsFiniteSet(S), NEW f, NEW a, IsSums(f, S, a),
         NEW U \in SUBSET S, NEW b, IsSums(f, U, b)
  PROVE  a[U] = b[U]
<1> DEFINE Good == {T \in SUBSET U : a[T] = b[T]}
<1>1. IsFiniteSet(U)
  BY FS_Subset
<1>2. ASSUME NEW T \in SUBSET U, \A V \in SUBSET T : V # T => V \in Good
      PROVE  T \in Good
  <2> DEFINE c == OneOf(T)
  <2>1. /\ a[T] = IF T = {} THEN 0 ELSE f[c] + a[T \ {c}]
        /\ b[T] = IF T = {} THEN 0 ELSE f[c] + b[T \ {c}]
    BY DEF IsSums
  <2>2. T # {} => c \in T
    BY DEF OneOf
  <2>3. T # {} => T \ {c} \in Good
    BY <1>2, <2>2
  <2> QED BY <2>1, <2>3
<1>3. U \in Good
  <2> HIDE DEF Good
  <2> QED BY <1>1, <1>2, SubsetInduction
<1> QED BY <1>3

(* The function exists: the CHOOSE of the library finds one.                *)
LEMMA SumsExist ==
  ASSUME NEW S, IsFiniteSet(S), NEW f
  PROVE  IsSums(f, S, SumsOf(f, S))
<1> DEFINE Good == {T \in SUBSET S : IsSums(f, T, SumsOf(f, T))}
<1>1. ASSUME NEW T \in SUBSET S, \A V \in SUBSET T : V # T => V \in Good
      PROVE  T \in Good
  <2> DEFINE c == OneOf(T)
             part == [s \in SUBSET T |-> SumsOf(f, s)[s]]
             whole == [s \in SUBSET T |-> IF s # T THEN part[s]
                                          ELSE IF T = {} THEN 0 ELSE f[c] + part[T \ {c}]]
  <2>1. T # {} => c \in T
    BY DEF OneOf
  <2>2. ASSUME NEW s \in SUBSET T, s # T, s # {}
        PROVE  part[s] = f[OneOf(s)] + part[s \ {OneOf(s)}]
    <3> DEFINE d == OneOf(s)
               r == s \ {d}
    <3>1. IsSums(f, s, SumsOf(f, s)) /\ IsFiniteSet(s)
      BY <1>1, <2>2, FS_Subset
    <3>2. d \in s
      BY <2>2 DEF OneOf
    <3>3. r \in SUBSET s /\ r \in SUBSET T /\ r # T
      BY <2>2
    <3>4. IsSums(f, r, SumsOf(f, r))
      BY <1>1, <3>3
    <3>5. SumsOf(f, s)[r] = SumsOf(f, r)[r]
      BY <3>1, <3>3, <3>4, SumsAgree
    <3>6. SumsOf(f, s)[s] = f[d] + SumsOf(f, s)[r]
      <4> DEFINE a == SumsOf(f, s)
      <4>1. a = [u \in SUBSET s |-> IF u = {} THEN 0 ELSE f[OneOf(u)] + a[u \ {OneOf(u)}]]
        BY <3>1 DEF IsSums
      <4>2. s \in SUBSET s
        OBVIOUS
      <4> HIDE DEF a
      <4> QED BY <2>2, <4>1, <4>2 DEF a
    <3> QED BY <3>3, <3>5, <3>6
  <2>3. ASSUME {} # T PROVE part[{}] = 0
    <3>1. IsSums(f, {}, SumsOf(f, {}))
      BY <1>1, <2>3
    <3> DEFINE a == SumsOf(f, {})
    <3>2. a = [u \in SUBSET {} |-> IF u = {} THEN 0 ELSE f[OneOf(u)] + a[u \ {OneOf(u)}]]
      BY <3>1 DEF IsSums
    <3>3. {} \in SUBSET {}
      OBVIOUS
    <3> HIDE DEF a
    <3>4. a[{}] = 0
      BY <3>2, <3>3
    <3> QED BY <3>4 DEF a
  <2>4. \A s \in SUBSET T : whole[s] =
          IF s = {} THEN 0 ELSE f[OneOf(s)] + whole[s \ {OneOf(s)}]
    <3> SUFFICES ASSUME NEW s \in SUBSET T
                 PROVE  whole[s] = IF s = {} THEN 0 ELSE f[OneOf(s)] + whole[s \ {OneOf(s)}]
      OBVIOUS
    <3>1. CASE s = {}
      BY <2>3, <3>1
    <3>2. CASE s # {}
      <4>1. OneOf(s) \in s
        BY <3>2 DEF OneOf
      <4>2. s \ {OneOf(s)} \in SUBSET T /\ s \ {OneOf(s)} # T
        BY <4>1
      <4>3. whole[s \ {OneOf(s)}] = part[s \ {OneOf(s)}]
        BY <4>2
      <4>4. CASE s = T
        BY <3>2, <4>3, <4>4
      <4>5. CASE s # T
        <5>1. whole[s] = part[s]
          BY <4>5
        <5> HIDE DEF part, whole
        <5> QED BY <2>2, <3>2, <4>3, <4>5, <5>1
      <4> QED BY <4>4, <4>5
    <3> QED BY <3>1, <3>2
  <2>5. IsSums(f, T, whole)
    <3>1. whole = [s \in SUBSET T |-> whole[s]]
      OBVIOUS
    <3> HIDE DEF whole
    <3> QED BY <2>4, <3>1 DEF IsSums
  <2> HIDE DEF whole
  <2>6. IsSums(f, T, SumsOf(f, T))
    BY <2>5, Zenon DEF SumsOf
  <2> QED BY <2>6
<1>2. S \in Good
  <2> HIDE DEF Good
  <2> QED BY <1>1, SubsetInduction
<1> QED BY <1>2

(* Nothing sums to 0.                                                       *)
LEMMA SumEmpty == \A f : Sum(f, {}) = 0
<1> SUFFICES ASSUME NEW f PROVE Sum(f, {}) = 0
  OBVIOUS
<1> DEFINE a == SumsOf(f, {})
<1>1. IsSums(f, {}, a)
  BY SumsExist, FS_EmptySet
<1> HIDE DEF a
<1>2. a[{}] = 0
  BY <1>1 DEF IsSums
<1> QED BY <1>2, SumIs DEF a

(* The element the fold takes first ...                                     *)
LEMMA SumFirst ==
  ASSUME NEW S, IsFiniteSet(S), S # {}, NEW f
  PROVE  Sum(f, S) = f[OneOf(S)] + Sum(f, S \ {OneOf(S)})
<1> DEFINE c == OneOf(S)
           r == S \ {c}
           a == SumsOf(f, S)
           b == SumsOf(f, r)
<1>1. c \in S
  BY DEF OneOf
<1>2. r \in SUBSET S /\ IsFiniteSet(r)
  BY FS_Subset
<1>3. IsSums(f, S, a) /\ IsSums(f, r, b)
  BY <1>2, SumsExist
<1>4. a[r] = b[r]
  BY <1>2, <1>3, SumsAgree
<1>5. a[S] = f[c] + a[r]
  <2> HIDE DEF a
  <2> QED BY <1>3 DEF IsSums
<1> QED BY <1>4, <1>5, SumIs

(* A sum of natural numbers is one, and not 0 if none of them is.           *)
LEMMA SumNatural ==
  ASSUME NEW S, IsFiniteSet(S), NEW f, \A x \in S : f[x] \in Nat
  PROVE  /\ Sum(f, S) \in Nat
         /\ S # {} /\ (\A x \in S : f[x] > 0) => Sum(f, S) > 0
<1> DEFINE Good == {T \in SUBSET S : Sum(f, T) \in Nat}
<1>1. ASSUME NEW T \in SUBSET S, \A V \in SUBSET T : V # T => V \in Good
      PROVE  T \in Good
  <2>1. CASE T = {}
    BY <2>1, SumEmpty
  <2>2. CASE T # {}
    <3>1. OneOf(T) \in T /\ IsFiniteSet(T)
      BY <2>2, FS_Subset DEF OneOf
    <3>2. Sum(f, T) = f[OneOf(T)] + Sum(f, T \ {OneOf(T)})
      BY <2>2, <3>1, SumFirst
    <3>3. f[OneOf(T)] \in Nat /\ Sum(f, T \ {OneOf(T)}) \in Nat
      BY <1>1, <3>1
    <3>4. Sum(f, T) \in Nat
      BY <3>2, <3>3
    <3> QED BY <3>4
  <2> QED BY <2>1, <2>2
<1>2. \A T \in SUBSET S : T \in Good
  <2> SUFFICES ASSUME NEW T \in SUBSET S PROVE T \in Good
    OBVIOUS
  <2>1. /\ IsFiniteSet(T)
        /\ \A U \in SUBSET T : (\A V \in SUBSET U : V # U => V \in Good) => U \in Good
    <3> HIDE DEF Good
    <3> QED BY <1>1, FS_Subset
  <2> HIDE DEF Good
  <2> QED BY <2>1, SubsetInduction
<1>3. ASSUME S # {}, \A x \in S : f[x] > 0 PROVE Sum(f, S) > 0
  <2>1. OneOf(S) \in S
    BY <1>3 DEF OneOf
  <2>2. Sum(f, S) = f[OneOf(S)] + Sum(f, S \ {OneOf(S)})
    BY <1>3, SumFirst
  <2>3. f[OneOf(S)] \in Nat /\ f[OneOf(S)] > 0 /\ Sum(f, S \ {OneOf(S)}) \in Nat
    BY <1>2, <1>3, <2>1
  <2> QED BY <2>2, <2>3
<1> QED BY <1>2, <1>3

(* Counting up to n, Good being the numbers of which the claim holds.       *)
LEMMA CountUp ==
  ASSUME NEW n \in Nat, NEW Good, n > 0 => 1 \in Good,
         \A j \in 1 .. n - 1 : j \in Good => j + 1 \in Good
  PROVE  \A j \in 1 .. n : j \in Good
<1> DEFINE S == 1 .. n
           Best == {T \in SUBSET S : \A j \in S : T = 1 .. j => j \in Good}
<1>1. IsFiniteSet(S)
  BY FS_Interval
<1>2. ASSUME NEW T \in SUBSET S, \A V \in SUBSET T : V # T => V \in Best
      PROVE  T \in Best
  <2> SUFFICES ASSUME NEW j \in S, T = 1 .. j PROVE j \in Good
    OBVIOUS
  <2>1. CASE j = 1
    BY <2>1
  <2>2. CASE j # 1
    <3>1. j - 1 \in S /\ j - 1 \in 1 .. n - 1 /\ (j - 1) + 1 = j
      BY <2>2
    <3>2. 1 .. j - 1 \in SUBSET T /\ j \in T /\ j \notin 1 .. j - 1
      OBVIOUS
    <3>3. 1 .. j - 1 \in Best
      BY <1>2, <3>2
    <3>4. j - 1 \in Good
      BY <3>1, <3>3
    <3> QED BY <3>1, <3>4
  <2> QED BY <2>1, <2>2
<1>3. ASSUME NEW j \in S PROVE j \in Good
  <2>1. 1 .. j \in SUBSET S /\ IsFiniteSet(1 .. j)
    BY <1>1, FS_Subset
  <2>2. \A U \in SUBSET (1 .. j) : (\A V \in SUBSET U : V # U => V \in Best) => U \in Best
    <3> HIDE DEF Best
    <3> QED BY <1>2, <2>1
  <2> DEFINE upTo == 1 .. j
  <2>3. upTo \in Best
    <3>1. /\ IsFiniteSet(upTo)
          /\ \A U \in SUBSET upTo : (\A V \in SUBSET U : V # U => V \in Best) => U \in Best
      BY <2>1, <2>2
    <3> HIDE DEF Best, S, upTo
    <3> QED BY <3>1, SubsetInduction
  <2> QED BY <2>3
<1> QED BY <1>3

-----------------------------------------------------------------------------
(* What sorting by rank gives, of a strict order R on a finite set S: a     *)
(* sequence of all its elements, each before those it is before.            *)
StrictOrder(S, R) ==
  /\ \A x \in S : <<x, x>> \notin R
  /\ \A x, y, z \in S : <<x, y>> \in R /\ <<y, z>> \in R => <<x, z>> \in R
  /\ \A x, y \in S : x = y \/ <<x, y>> \in R \/ <<y, x>> \in R
RankIn(S, R, x) == 1 + Cardinality({y \in S : <<y, x>> \in R})
Lists(o, S) ==
  /\ o \in [1 .. Cardinality(S) -> S]
  /\ \A x \in S : \E r \in 1 .. Cardinality(S) : o[r] = x
  /\ \A q, r \in 1 .. Cardinality(S) : o[q] = o[r] => q = r
InOrder(o, S, R) ==
  \A q, r \in 1 .. Cardinality(S) : q < r => <<o[q], o[r]>> \in R

(* Every rank is taken by one element.                                      *)
LEMMA OrderedInOrder ==
  ASSUME NEW S, IsFiniteSet(S), NEW R, StrictOrder(S, R)
  PROVE  Lists(Ordered(S, R), S) /\ InOrder(Ordered(S, R), S, R)
<1> DEFINE n == Cardinality(S)
           Below(x) == {y \in S : <<y, x>> \in R}
           rank == [x \in S |-> RankIn(S, R, x)]
           o == Ordered(S, R)
<1>1. n \in Nat /\ IsFiniteSet(1 .. n) /\ Cardinality(1 .. n) = n
  <2>1. n \in Nat
    BY FS_CardinalityType
  <2> HIDE DEF n
  <2> QED BY <2>1, FS_Interval
<1>2. \A x \in S : /\ IsFiniteSet(Below(x)) /\ Cardinality(Below(x)) \in Nat
                   /\ RankIn(S, R, x) = 1 + Cardinality(Below(x))
  <2> SUFFICES ASSUME NEW x \in S
               PROVE  /\ IsFiniteSet(Below(x)) /\ Cardinality(Below(x)) \in Nat
                      /\ RankIn(S, R, x) = 1 + Cardinality(Below(x))
    OBVIOUS
  <2>1. IsFiniteSet(Below(x))
    BY FS_Subset, Below(x) \in SUBSET S
  <2> QED BY <2>1, FS_CardinalityType DEF RankIn
<1>3. \A x \in S : RankIn(S, R, x) \in 1 .. n
  <2> SUFFICES ASSUME NEW x \in S PROVE RankIn(S, R, x) \in 1 .. n
    OBVIOUS
  <2> DEFINE B == Below(x)
  <2>1. B \in SUBSET S /\ B # S
    BY DEF StrictOrder
  <2>2. RankIn(S, R, x) = 1 + Cardinality(B) /\ Cardinality(B) \in Nat
    BY <1>2
  <2> HIDE DEF B
  <2>3. Cardinality(B) <= n /\ (n = Cardinality(B) => S = B)
    BY <2>1, FS_Subset
  <2> HIDE DEF n
  <2> QED BY <1>1, <2>1, <2>2, <2>3
<1>4. \A x, y \in S : <<x, y>> \in R => RankIn(S, R, x) < RankIn(S, R, y)
  <2> SUFFICES ASSUME NEW x \in S, NEW y \in S, <<x, y>> \in R
               PROVE  RankIn(S, R, x) < RankIn(S, R, y)
    OBVIOUS
  <2> DEFINE B == Below(x)
             C == Below(y)
  <2>1. B \in SUBSET C
    BY DEF StrictOrder
  <2>2. x \in C /\ x \notin B
    BY DEF StrictOrder
  <2>3. /\ RankIn(S, R, x) = 1 + Cardinality(B) /\ Cardinality(B) \in Nat
        /\ RankIn(S, R, y) = 1 + Cardinality(C) /\ Cardinality(C) \in Nat
        /\ IsFiniteSet(C)
    BY <1>2
  <2> HIDE DEF B, C
  <2>4. Cardinality(B) <= Cardinality(C) /\ Cardinality(B) # Cardinality(C)
    BY <2>1, <2>2, <2>3, FS_Subset
  <2> QED BY <2>3, <2>4
<1>5. rank \in Injection(S, 1 .. n)
  <2>1. rank \in [S -> 1 .. n]
    BY <1>3
  <2>2. ASSUME NEW x \in S, NEW y \in S, rank[x] = rank[y]
        PROVE  x = y
    <3>1. RankIn(S, R, x) = RankIn(S, R, y) /\ RankIn(S, R, x) \in Int
      BY <2>2, <1>1, <1>3
    <3>2. <<x, y>> \notin R /\ <<y, x>> \notin R
      BY <3>1, <1>4
    <3> QED BY <3>2 DEF StrictOrder
  <2> QED BY <2>1, <2>2 DEF Injection, IsInjective
<1>6. rank \in Surjection(S, 1 .. n)
  <2> HIDE DEF rank
  <2>1. Cardinality(S) = Cardinality(1 .. n)
    BY <1>1
  <2> QED BY <1>1, <1>5, <2>1, FS_Injection
<1>7. \A r \in 1 .. n : \E x \in S : RankIn(S, R, x) = r
  BY <1>6 DEF Surjection
<1>8. o = [r \in 1 .. n |-> CHOOSE x \in S : RankIn(S, R, x) = r]
  BY DEF Ordered, RankIn
<1>9. \A r \in 1 .. n : o[r] \in S /\ RankIn(S, R, o[r]) = r
  BY <1>7, <1>8
<1> HIDE DEF o
<1>10. \A q, r \in 1 .. n : o[q] = o[r] => q = r
  BY <1>9
<1>11. \A x \in S : \E r \in 1 .. n : o[r] = x
  <2> SUFFICES ASSUME NEW x \in S PROVE \E r \in 1 .. n : o[r] = x
    OBVIOUS
  <2> DEFINE r == RankIn(S, R, x)
  <2>1. r \in 1 .. n /\ o[r] \in S /\ RankIn(S, R, o[r]) = r
    BY <1>3, <1>9
  <2>2. ~ (r < r)
    BY <1>1, <2>1
  <2>3. <<x, o[r]>> \notin R /\ <<o[r], x>> \notin R
    BY <1>4, <2>1, <2>2
  <2>4. x = o[r]
    BY <2>1, <2>3 DEF StrictOrder
  <2> QED BY <2>1, <2>4
<1>12. \A q, r \in 1 .. n : q < r => <<o[q], o[r]>> \in R
  <2> SUFFICES ASSUME NEW q \in 1 .. n, NEW r \in 1 .. n, q < r
               PROVE  <<o[q], o[r]>> \in R
    OBVIOUS
  <2>1. q \in Int /\ r \in Int /\ ~ (r < q) /\ q # r
    BY <1>1
  <2>2. <<o[r], o[q]>> \notin R /\ o[q] # o[r]
    BY <1>4, <1>9, <1>10, <2>1
  <2> QED BY <1>9, <2>2 DEF StrictOrder
<1>13. o \in [1 .. n -> S]
  BY <1>8, <1>9
<1> HIDE DEF n
<1>14. Lists(o, S) /\ InOrder(o, S, R)
  BY <1>10, <1>11, <1>12, <1>13 DEF Lists, InOrder, n
<1> QED BY <1>14 DEF o

-----------------------------------------------------------------------------
(* B[i][a] is x: where a sample is put.                                      *)
Put(B, i, a, x) == a \in 1 .. Len(B[i]) /\ B[i][a] = x

(* Sequences that together hold every one of 1 .. m exactly once.            *)
Deals(B, n, m) ==
  /\ B \in [1 .. n -> Seq(1 .. m)]
  /\ \A x \in 1 .. m : \E i \in 1 .. n : \E a : Put(B, i, a, x)
  /\ \A i, j \in 1 .. n : \A a, b, x : Put(B, i, a, x) /\ Put(B, j, b, x) => i = j /\ a = b

(* A sequence of all the numbers 1 .. m, each once.                          *)
Renumbers(s, m) ==
  /\ s \in Seq(1 .. m)
  /\ \A x \in 1 .. m : \E p \in 1 .. Len(s) : s[p] = x
  /\ \A p, q \in 1 .. Len(s) : s[p] = s[q] => p = q

(* The sequences appended one by one.                                        *)
IsFlat(B, n, F) == F = [i \in 1 .. n |-> IF i = 1 THEN B[i] ELSE F[i - 1] \o B[i]]

(* This recursion defines a function.                                        *)
LEMMA FlatExists ==
  ASSUME NEW B, NEW n \in Nat \ {0}
  PROVE  \E F : IsFlat(B, n, F)
<1> DEFINE Good == {j \in 1 .. n : \E F : IsFlat(B, j, F)}
<1>1. 1 \in Good
  <2> DEFINE F == [i \in 1 .. 1 |-> B[1]]
  <2>1. F = [i \in 1 .. 1 |-> IF i = 1 THEN B[i] ELSE F[i - 1] \o B[i]]
    OBVIOUS
  <2> HIDE DEF F
  <2>2. IsFlat(B, 1, F)
    BY <2>1 DEF IsFlat
  <2> QED BY <2>2
<1>2. ASSUME NEW j \in 1 .. n - 1, j \in Good PROVE j + 1 \in Good
  <2>1. PICK F : IsFlat(B, j, F)
    BY <1>2
  <2> DEFINE H == [i \in 1 .. j + 1 |-> IF i <= j THEN F[i] ELSE F[j] \o B[j + 1]]
  <2>2. \A i \in 1 .. j : F[i] = IF i = 1 THEN B[i] ELSE F[i - 1] \o B[i]
    BY <2>1 DEF IsFlat
  <2>3. ASSUME NEW i \in 1 .. j + 1
        PROVE  H[i] = IF i = 1 THEN B[i] ELSE H[i - 1] \o B[i]
    <3>1. CASE i = 1
      BY <2>2, <3>1
    <3>2. CASE i # 1 /\ i <= j
      <4>1. i \in 1 .. j /\ i - 1 \in 1 .. j + 1 /\ i - 1 <= j
        BY <3>2
      <4>2. H[i] = F[i] /\ H[i - 1] = F[i - 1]
        BY <4>1
      <4> HIDE DEF H
      <4> QED BY <2>2, <3>2, <4>1, <4>2
    <3>3. CASE i = j + 1
      <4>1. i - 1 = j /\ i - 1 \in 1 .. j + 1 /\ i - 1 <= j /\ i # 1 /\ ~ (i <= j)
        BY <3>3
      <4>2. H[i] = F[j] \o B[j + 1] /\ H[i - 1] = F[j]
        BY <4>1
      <4> HIDE DEF H
      <4> QED BY <3>3, <4>1, <4>2
    <3> QED BY <3>1, <3>2, <3>3
  <2>4. H = [i \in 1 .. j + 1 |-> H[i]]
    OBVIOUS
  <2> HIDE DEF H
  <2>5. IsFlat(B, j + 1, H)
    BY <2>3, <2>4 DEF IsFlat
  <2>6. j + 1 \in 1 .. n
    OBVIOUS
  <2> QED BY <2>5, <2>6
<1>3. \A j \in 1 .. n : j \in Good
  <2> HIDE DEF Good
  <2> QED BY <1>1, <1>2, CountUp
<1> QED BY <1>3

(* FlattenSeq is its last value.                                             *)
LEMMA FlattenIs ==
  ASSUME NEW n \in Nat \ {0}, NEW m, NEW B \in [1 .. n -> Seq(1 .. m)]
  PROVE  \E F : IsFlat(B, n, F) /\ FlattenSeq(B) = F[n]
<1>1. Len(B) = n
  BY LenProperties, IsASeq, B \in Seq(Seq(1 .. m))
<1> DEFINE F == CHOOSE F : IsFlat(B, n, F)
<1>2. IsFlat(B, n, F)
  BY FlatExists
<1>3. FlattenSeq(B) = F[n]
  <2>1. Len(B) # 0
    BY <1>1
  <2> QED BY <1>1, <2>1, Zenon DEF FlattenSeq, IsFlat
<1> QED BY <1>2, <1>3

(* What has been appended up to the i-th sequence.                           *)
FlatTo(B, F, i, m) ==
  /\ F[i] \in Seq(1 .. m)
  /\ \A b \in 1 .. i : \A a, x : Put(B, b, a, x) => \E p : Put(F, i, p, x)
  /\ \A p, x : Put(F, i, p, x) => \E b \in 1 .. i : \E a : Put(B, b, a, x)
  /\ \A p, q, x : Put(F, i, p, x) /\ Put(F, i, q, x) => p = q

(* Where the elements of an appended sequence are.                           *)
LEMMA AppendedPut ==
  ASSUME NEW S, NEW s \in Seq(S), NEW t \in Seq(S)
  PROVE  /\ s \o t \in Seq(S) /\ Len(s \o t) = Len(s) + Len(t)
         /\ Len(s) \in Nat /\ Len(t) \in Nat
         /\ \A p \in 1 .. Len(s) : (s \o t)[p] = s[p]
         /\ \A p \in 1 .. Len(t) : (s \o t)[Len(s) + p] = t[p]
         /\ \A p \in 1 .. Len(s \o t) :
              \/ p \in 1 .. Len(s)
              \/ p - Len(s) \in 1 .. Len(t) /\ (s \o t)[p] = t[p - Len(s)]
<1>1. Len(s) \in Nat /\ Len(t) \in Nat
  BY LenProperties
<1>2. s \o t \in Seq(S) /\ Len(s \o t) = Len(s) + Len(t)
  BY ConcatProperties
<1>3. \A p \in 1 .. Len(s) + Len(t) :
        (s \o t)[p] = IF p <= Len(s) THEN s[p] ELSE t[p - Len(s)]
  BY ConcatProperties
<1>4. \A p \in 1 .. Len(t) : (s \o t)[Len(s) + p] = t[p]
  <2> SUFFICES ASSUME NEW p \in 1 .. Len(t) PROVE (s \o t)[Len(s) + p] = t[p]
    OBVIOUS
  <2>1. /\ Len(s) + p \in 1 .. Len(s) + Len(t) /\ ~ (Len(s) + p <= Len(s))
        /\ (Len(s) + p) - Len(s) = p
    BY <1>1
  <2> QED BY <1>3, <2>1
<1> QED BY <1>1, <1>2, <1>3, <1>4

(* Appending the next sequence.                                              *)
LEMMA FlatStep ==
  ASSUME NEW n \in Nat \ {0}, NEW m \in Nat, NEW B, Deals(B, n, m),
         NEW F, IsFlat(B, n, F), NEW j \in 1 .. n - 1, FlatTo(B, F, j, m)
  PROVE  FlatTo(B, F, j + 1, m)
<1> DEFINE s == F[j]
           t == B[j + 1]
           u == F[j + 1]
           S == 1 .. m
<1>1. j + 1 \in 1 .. n /\ j + 1 # 1 /\ (j + 1) - 1 = j /\ j \in Nat
  OBVIOUS
<1>2. s \in Seq(S) /\ t \in Seq(S)
  BY <1>1 DEF FlatTo, Deals
<1>3. u = s \o t
  <2>1. u = IF j + 1 = 1 THEN B[j + 1] ELSE F[(j + 1) - 1] \o B[j + 1]
    BY <1>1 DEF IsFlat
  <2> QED BY <1>1, <2>1
<1> HIDE DEF S
<1>4. /\ u \in Seq(S) /\ Len(u) = Len(s) + Len(t) /\ Len(s) \in Nat /\ Len(t) \in Nat
      /\ \A p \in 1 .. Len(s) : u[p] = s[p]
      /\ \A p \in 1 .. Len(t) : u[Len(s) + p] = t[p]
      /\ \A p \in 1 .. Len(u) : \/ p \in 1 .. Len(s)
                                \/ p - Len(s) \in 1 .. Len(t) /\ u[p] = t[p - Len(s)]
  <2> HIDE DEF s, t, u
  <2> QED BY <1>2, <1>3, AppendedPut
<1>5. ASSUME NEW b \in 1 .. j + 1, NEW a, NEW x, Put(B, b, a, x)
      PROVE  \E p : Put(F, j + 1, p, x)
  <2>1. CASE b = j + 1
    <3>1. a \in 1 .. Len(t) /\ t[a] = x
      BY <1>5, <2>1 DEF Put
    <3>2. Len(s) + a \in 1 .. Len(u) /\ u[Len(s) + a] = x
      <4> HIDE DEF s, t, u
      <4> QED BY <1>4, <3>1
    <3> QED BY <3>2 DEF Put
  <2>2. CASE b # j + 1
    <3>1. b \in 1 .. j
      BY <1>1, <2>2
    <3>2. PICK p : Put(F, j, p, x)
      BY <1>5, <3>1 DEF FlatTo
    <3>3. p \in 1 .. Len(s) /\ s[p] = x
      BY <3>2 DEF Put
    <3>4. p \in 1 .. Len(u) /\ u[p] = x
      <4> HIDE DEF s, t, u
      <4> QED BY <1>4, <3>3
    <3> QED BY <3>4 DEF Put
  <2> QED BY <2>1, <2>2
<1>6. ASSUME NEW p, NEW x, Put(F, j + 1, p, x)
      PROVE  \/ Put(F, j, p, x)
             \/ p - Len(s) \in 1 .. Len(t) /\ Put(B, j + 1, p - Len(s), x)
  <2>1. p \in 1 .. Len(u) /\ u[p] = x
    BY <1>6 DEF Put
  <2>2. \/ p \in 1 .. Len(s) /\ s[p] = x
        \/ p - Len(s) \in 1 .. Len(t) /\ t[p - Len(s)] = x
    <3> HIDE DEF s, t, u
    <3> QED BY <1>4, <2>1
  <2> QED BY <2>2 DEF Put
<1>7. ASSUME NEW p, NEW x, Put(F, j + 1, p, x)
      PROVE  \E b \in 1 .. j + 1 : \E a : Put(B, b, a, x)
  <2>1. CASE Put(F, j, p, x)
    <3>1. PICK b \in 1 .. j : \E a : Put(B, b, a, x)
      BY <2>1 DEF FlatTo
    <3>2. b \in 1 .. j + 1
      OBVIOUS
    <3> QED BY <3>1, <3>2
  <2>2. CASE Put(B, j + 1, p - Len(s), x)
    <3>1. j + 1 \in 1 .. j + 1
      OBVIOUS
    <3> QED BY <2>2, <3>1
  <2> QED BY <1>6, <1>7, <2>1, <2>2
<1>8. ASSUME NEW p, NEW x, NEW q, Put(F, j, p, x), Put(B, j + 1, q, x) PROVE FALSE
  <2>1. PICK b \in 1 .. j : \E a : Put(B, b, a, x)
    BY <1>8 DEF FlatTo
  <2>2. PICK a : Put(B, b, a, x)
    BY <2>1
  <2>3. b \in 1 .. n /\ b # j + 1
    BY <1>1
  <2> QED BY <1>1, <1>8, <2>2, <2>3 DEF Deals
<1>9. ASSUME NEW p, NEW q, NEW x, Put(F, j + 1, p, x), Put(F, j + 1, q, x) PROVE p = q
  <2>1. p \in Int /\ q \in Int
    BY <1>9 DEF Put
  <2>2. CASE Put(F, j, p, x) /\ Put(F, j, q, x)
    BY <2>2 DEF FlatTo
  <2>3. CASE Put(B, j + 1, p - Len(s), x) /\ Put(B, j + 1, q - Len(s), x)
    <3>1. p - Len(s) = q - Len(s)
      BY <1>1, <2>3 DEF Deals
    <3> HIDE DEF s, t, u
    <3> QED BY <1>4, <2>1, <3>1
  <2> QED BY <1>6, <1>8, <1>9, <2>2, <2>3
<1> QED BY <1>4, <1>5, <1>7, <1>9 DEF FlatTo, S

(* Flattened, sequences that hold 1 .. m once renumber them ...              *)
LEMMA FlattenRenumbers ==
  ASSUME NEW n \in Nat \ {0}, NEW m \in Nat, NEW B, Deals(B, n, m)
  PROVE  Renumbers(FlattenSeq(B), m)
<1>1. B \in [1 .. n -> Seq(1 .. m)]
  BY DEF Deals
<1>2. PICK F : IsFlat(B, n, F) /\ FlattenSeq(B) = F[n]
  BY <1>1, FlattenIs
<1> DEFINE Good == {j \in 1 .. n : FlatTo(B, F, j, m)}
<1>3. 1 \in Good
  <2>1. 1 \in 1 .. n /\ F[1] = B[1]
    BY <1>2 DEF IsFlat
  <2>2. F[1] \in Seq(1 .. m)
    BY <1>1, <2>1
  <2>3. \A a, x : Put(F, 1, a, x) <=> Put(B, 1, a, x)
    BY <2>1 DEF Put
  <2>4. \A b \in 1 .. 1 : b = 1
    OBVIOUS
  <2>5. \A p, q, x : Put(F, 1, p, x) /\ Put(F, 1, q, x) => p = q
    BY <2>1, <2>3, Zenon DEF Deals
  <2>6. FlatTo(B, F, 1, m)
    BY <2>2, <2>3, <2>4, <2>5 DEF FlatTo
  <2> QED BY <2>1, <2>6
<1>4. ASSUME NEW j \in 1 .. n - 1, j \in Good PROVE j + 1 \in Good
  <2>1. FlatTo(B, F, j, m)
    BY <1>4
  <2>2. FlatTo(B, F, j + 1, m)
    BY <1>2, <2>1, FlatStep
  <2> QED BY <2>2
<1>5. n \in Good
  <2> HIDE DEF Good
  <2>1. \A j \in 1 .. n : j \in Good
    BY <1>3, <1>4, CountUp
  <2> QED BY <2>1
<1> DEFINE s == F[n]
<1>6. FlatTo(B, F, n, m)
  BY <1>5
<1>7. s \in Seq(1 .. m)
  BY <1>6 DEF FlatTo
<1>8. ASSUME NEW x \in 1 .. m PROVE \E p \in 1 .. Len(s) : s[p] = x
  <2>1. PICK i \in 1 .. n : \E a : Put(B, i, a, x)
    BY DEF Deals
  <2>2. PICK p : Put(F, n, p, x)
    BY <1>6, <2>1 DEF FlatTo
  <2> QED BY <2>2 DEF Put
<1>9. ASSUME NEW p \in 1 .. Len(s), NEW q \in 1 .. Len(s), s[p] = s[q] PROVE p = q
  <2>1. Put(F, n, p, s[p]) /\ Put(F, n, q, s[p])
    BY <1>9 DEF Put
  <2> HIDE DEF s
  <2> QED BY <1>6, <2>1 DEF FlatTo
<1>10. Renumbers(s, m)
  <2> HIDE DEF s
  <2> QED BY <1>7, <1>8, <1>9 DEF Renumbers
<1> QED BY <1>2, <1>10

(* The numbers up to n.                                                     *)
LEMMA UpToSize == \A n \in Nat : IsFiniteSet(1 .. n) /\ Cardinality(1 .. n) = n
<1> SUFFICES ASSUME NEW n \in Nat PROVE IsFiniteSet(1 .. n) /\ Cardinality(1 .. n) = n
  OBVIOUS
<1>1. Cardinality(1 .. n) = IF 1 > n THEN 0 ELSE n - 1 + 1
  BY FS_Interval
<1> QED BY <1>1, FS_Interval

(* ... and get_reverse_idx finds each of them again.                         *)
LEMMA ReverseRestores ==
  ASSUME NEW m \in Nat, NEW s, Renumbers(s, m)
  PROVE  Len(s) = m /\ \A x \in 1 .. m : s[ReverseIdx(s)[x]] = x
<1>1. Len(s) \in Nat /\ DOMAIN s = 1 .. Len(s)
  BY LenProperties DEF Renumbers
<1> DEFINE L == Len(s)
           S == 1 .. L
           T == 1 .. m
<1>2. IsFiniteSet(S) /\ Cardinality(S) = L /\ IsFiniteSet(T) /\ Cardinality(T) = m
  <2> HIDE DEF L
  <2> QED BY <1>1, UpToSize DEF L
<1>3. \A p \in S : s[p] \in T
  BY ElementOfSeq DEF Renumbers
<1>4. s \in [S -> T]
  BY <1>1, <1>3 DEF Renumbers
<1>5. s \in Injection(S, T) /\ s \in Surjection(S, T)
  BY <1>4 DEF Renumbers, Injection, IsInjective, Surjection
<1>6. L = m
  <2> HIDE DEF S, T, L
  <2> QED BY <1>2, <1>5, FS_Injection
<1>7. ASSUME NEW x \in T PROVE s[ReverseIdx(s)[x]] = x
  <2> DEFINE at == {i \in DOMAIN s : s[i] = x}
  <2>1. PICK p \in S : s[p] = x
    BY DEF Renumbers
  <2>2. at = {p}
    BY <1>1, <2>1 DEF Renumbers
  <2>3. x \in DOMAIN s
    BY <1>1, <1>6
  <2>4. ReverseIdx(s)[x] = IF at = {} THEN s[x] ELSE Max(at)
    BY <2>3 DEF ReverseIdx
  <2>5. Max({p}) = p
    BY <1>1 DEF Max
  <2> HIDE DEF at
  <2> QED BY <2>1, <2>2, <2>4, <2>5
<1> QED BY <1>6, <1>7

-----------------------------------------------------------------------------
(* The samples of the i-th item when g of them make one.                     *)
Block(i, g) == {(i - 1) * g + j : j \in 1 .. g}

(* Items of g samples share the samples out.                                 *)
LEMMA BlocksPartition ==
  ASSUME NEW n \in Nat, NEW g \in Nat \ {0}, n % g = 0
  PROVE  /\ \A i \in 1 .. n \div g : Block(i, g) \subseteq 1 .. n
         /\ \A x \in 1 .. n : \E i \in 1 .. n \div g : x \in Block(i, g)
         /\ \A i, j \in 1 .. n \div g : \A x :
              x \in Block(i, g) /\ x \in Block(j, g) => i = j
<1> DEFINE q == n \div g
           Place(c, j) == c * g + g + 1 - j
<1>1. q \in Nat
  OBVIOUS
<1>2. ASSUME NEW i \in 1 .. q, NEW x, x \in Block(i, g)
      PROVE  i - 1 \in 0 .. q - 1 /\ \E j \in 1 .. g : x = Place(i - 1, j)
  <2>1. PICK j \in 1 .. g : x = (i - 1) * g + j
    BY <1>2 DEF Block
  <2>2. (i - 1) * g \in Int
    BY <1>1
  <2>3. g + 1 - j \in 1 .. g /\ x = (i - 1) * g + g + 1 - (g + 1 - j)
    BY <2>1, <2>2
  <2>4. i - 1 \in 0 .. q - 1
    BY <1>1
  <2> QED BY <2>3, <2>4
<1>2a. /\ \A r \in 1 .. n : \E c \in 0 .. n \div g - 1, j \in 1 .. g :
             r = c * g + g + 1 - j
       /\ \A c, e \in 0 .. n \div g - 1, i, j \in 1 .. g :
            c * g + g + 1 - i = e * g + g + 1 - j => c = e /\ i = j
  BY ChunkPlaces, Zenon
<1>3. ASSUME NEW i \in 1 .. q PROVE Block(i, g) \subseteq 1 .. n
  <2> SUFFICES ASSUME NEW x, x \in Block(i, g) PROVE x \in 1 .. n
    OBVIOUS
  <2> DEFINE c == i - 1
  <2>1. PICK j \in 1 .. g : x = Place(c, j)
    BY <1>2
  <2>2. c \in 0 .. n \div g - 1
    BY <1>2
  <2> HIDE DEF c
  <2> QED BY <2>1, <2>2, ChunkInside
<1>4. ASSUME NEW x \in 1 .. n PROVE \E i \in 1 .. q : x \in Block(i, g)
  <2>1. PICK c \in 0 .. q - 1, j \in 1 .. g : x = c * g + g + 1 - j
    BY <1>2a
  <2>2. c * g \in Int
    BY <1>1
  <2>3. c + 1 \in 1 .. q /\ (c + 1) - 1 = c /\ g + 1 - j \in 1 .. g
    BY <1>1
  <2>4. x = c * g + (g + 1 - j)
    BY <2>1, <2>2
  <2> HIDE DEF q
  <2>5. x \in Block(c + 1, g)
    BY <2>3, <2>4 DEF Block
  <2> QED BY <2>3, <2>5
<1>5. ASSUME NEW i \in 1 .. q, NEW j \in 1 .. q, NEW x, x \in Block(i, g), x \in Block(j, g)
      PROVE  i = j
  <2>1. PICK a \in 1 .. g : x = Place(i - 1, a)
    BY <1>2, <1>5
  <2>2. PICK b \in 1 .. g : x = Place(j - 1, b)
    BY <1>2, <1>5
  <2>3. i - 1 \in 0 .. q - 1 /\ j - 1 \in 0 .. q - 1
    BY <1>1
  <2>4. i - 1 = j - 1
    BY <2>1, <2>2, <2>3, <1>2a
  <2> QED BY <1>1, <2>4
<1> QED BY <1>3, <1>4, <1>5

(* Sorting a finite set of numbers.                                          *)
Rising(o, S) == \A q, r \in 1 .. Cardinality(S) : q < r => o[q] < o[r]

LEMMA IncreasingNumbers ==
  ASSUME NEW S, IsFiniteSet(S), S \subseteq Int
  PROVE  Lists(Increasing(S), S) /\ Rising(Increasing(S), S)
<1> DEFINE R == {w \in S \X S : w[1] < w[2]}
           o == Ordered(S, R)
<1>1. \A x, y \in S : <<x, y>> \in R <=> x < y
  OBVIOUS
<1> HIDE DEF R
<1>2. StrictOrder(S, R)
  BY <1>1 DEF StrictOrder
<1>3. Lists(o, S) /\ InOrder(o, S, R)
  BY <1>2, OrderedInOrder
<1> HIDE DEF o
<1>4. \A r \in 1 .. Cardinality(S) : o[r] \in S
  BY <1>3 DEF Lists
<1>5. Rising(o, S)
  BY <1>1, <1>3, <1>4 DEF InOrder, Rising
<1> QED BY <1>3, <1>5 DEF o, R, Increasing

(* A list of a finite set is a sequence of as many.                          *)
LEMMA ListLen ==
  ASSUME NEW S, IsFiniteSet(S), NEW o, Lists(o, S)
  PROVE  /\ o \in Seq(S) /\ Len(o) = Cardinality(S) /\ Cardinality(S) \in Nat
         /\ \A x \in S : \E r \in 1 .. Len(o) : o[r] = x
         /\ \A r \in 1 .. Len(o) : o[r] \in S
         /\ \A q, r \in 1 .. Len(o) : o[q] = o[r] => q = r
<1> DEFINE L == Cardinality(S)
<1>1. L \in Nat
  BY FS_CardinalityType
<1>2. o \in [1 .. L -> S]
  BY DEF Lists
<1> HIDE DEF L
<1>3. o \in Seq(S) /\ Len(o) = L
  BY <1>1, <1>2, IsASeq, LenProperties
<1> QED BY <1>1, <1>2, <1>3 DEF Lists, L

(* The g numbers after c, and their places next to each other.               *)
Run(c, g, S) == \A j \in 1 .. g : c + j \in S
Together(o, c, g) ==
  \E at \in 0 .. Len(o) - g : \A j \in 1 .. g : o[at + j] = c + j

(* Consecutive numbers stay together when sorted.                            *)
LEMMA RunTogether ==
  ASSUME NEW S, IsFiniteSet(S), S \subseteq Int, NEW o, Lists(o, S), Rising(o, S),
         NEW c \in Int, NEW g \in Nat \ {0}, Run(c, g, S)
  PROVE  Together(o, c, g)
<1> DEFINE L == Len(o)
<1>1. /\ L \in Nat
      /\ \A x \in S : \E r \in 1 .. L : o[r] = x
      /\ \A r \in 1 .. L : o[r] \in S /\ o[r] \in Int
      /\ \A q, r \in 1 .. L : q < r => o[q] < o[r]
  <2>1. /\ L \in Nat /\ Cardinality(S) = L
        /\ \A x \in S : \E r \in 1 .. L : o[r] = x
        /\ \A r \in 1 .. L : o[r] \in S
    BY ListLen
  <2> HIDE DEF L
  <2> QED BY <2>1 DEF Rising
<1>2. PICK p \in 1 .. L : o[p] = c + 1
  <2>1. 1 \in 1 .. g
    OBVIOUS
  <2>2. c + 1 \in S
    BY <2>1 DEF Run
  <2> HIDE DEF L
  <2> QED BY <1>1, <2>2
<1> DEFINE at == p - 1
           Good == {j \in 1 .. g : at + j \in 1 .. L /\ o[at + j] = c + j}
<1> HIDE DEF L
<1>3. at \in Int /\ at + 1 = p /\ at >= 0
  BY <1>1
<1> HIDE DEF at
<1>4. 1 \in Good
  BY <1>2, <1>3
<1>5. ASSUME NEW j \in 1 .. g - 1, j \in Good PROVE j + 1 \in Good
  <2>1. /\ at + j \in 1 .. L /\ o[at + j] = c + j /\ j + 1 \in 1 .. g
        /\ c + (j + 1) \in S /\ j \in Int
    BY <1>5 DEF Run
  <2>2. PICK q \in 1 .. L : o[q] = c + (j + 1)
    BY <1>1, <2>1
  <2>3. q \in Int /\ at + j \in Int
    BY <1>1, <2>1
  <2>4. ~ (q <= at + j)
    <3>1. CASE q < at + j
      <4>1. o[q] < o[at + j]
        BY <1>1, <2>1, <3>1
      <4> QED BY <2>1, <2>2, <4>1
    <3>2. CASE q = at + j
      BY <2>1, <2>2, <3>2
    <3> QED BY <2>3, <3>1, <3>2
  <2> DEFINE e == at + (j + 1)
  <2>5. e \in Int /\ at + j < e /\ e <= q /\ e \in 1 .. L
    BY <1>1, <1>3, <2>1, <2>3, <2>4
  <2>6. ~ (e < q)
    <3> SUFFICES ASSUME e < q PROVE FALSE
      OBVIOUS
    <3> HIDE DEF e
    <3>1. o[at + j] < o[e] /\ o[e] < o[q] /\ o[e] \in Int
      BY <1>1, <2>1, <2>5
    <3> QED BY <2>1, <2>2, <3>1
  <2>7. e = q
    BY <2>3, <2>5, <2>6
  <2> QED BY <2>1, <2>2, <2>5, <2>7
<1>6. \A j \in 1 .. g : j \in Good
  <2> HIDE DEF Good
  <2> QED BY <1>4, <1>5, CountUp
<1>7. at \in 0 .. L - g
  <2>1. g \in 1 .. g
    OBVIOUS
  <2>2. at + g \in 1 .. L
    BY <1>6, <2>1
  <2> QED BY <1>1, <1>3, <2>2
<1> QED BY <1>6, <1>7 DEF L, Together

(* The samples of a state's i-th bin, and the sorted samples of each.        *)
Shares(s, i, g) == UNION {Block(s[i].items[a], g) : a \in 1 .. Len(s[i].items)}
Dealt(s, n, g) == [i \in 1 .. n |-> Increasing(Shares(s, i, g))]

(* The sorted samples of a bin.                                              *)
LEMMA DealtLists ==
  ASSUME NEW n \in Nat \ {0}, NEW m \in Nat, NEW g \in Nat \ {0}, m % g = 0,
         NEW s, Bins(s, n, m \div g), NEW i \in 1 .. n
  PROVE  LET S == Shares(s, i, g)
         IN  /\ S \subseteq 1 .. m /\ IsFiniteSet(S) /\ S \subseteq Int
             /\ Lists(Dealt(s, n, g)[i], S) /\ Rising(Dealt(s, n, g)[i], S)
<1> DEFINE M == m \div g
           S == Shares(s, i, g)
           T == 1 .. m
<1>1. \A j \in 1 .. M : Block(j, g) \subseteq T
  BY BlocksPartition
<1>2. \A a \in 1 .. Len(s[i].items) : s[i].items[a] \in 1 .. M
  BY ElementOfSeq DEF Bins
<1> HIDE DEF M
<1>3. S \subseteq T
  BY <1>1, <1>2 DEF Shares
<1>4. IsFiniteSet(T) /\ T \subseteq Int
  BY UpToSize
<1> HIDE DEF T, S
<1>5. IsFiniteSet(S) /\ S \subseteq Int
  BY <1>3, <1>4, FS_Subset
<1>6. Dealt(s, n, g)[i] = Increasing(S)
  BY DEF Dealt, S
<1>7. Lists(Increasing(S), S) /\ Rising(Increasing(S), S)
  BY <1>5, IncreasingNumbers
<1> QED BY <1>3, <1>5, <1>6, <1>7 DEF S, T

(* Every sample is dealt to one bin, once.                                   *)
LEMMA DealtDeals ==
  ASSUME NEW n \in Nat \ {0}, NEW m \in Nat, NEW g \in Nat \ {0}, m % g = 0,
         NEW s, Bins(s, n, m \div g), Covers({s}, n, m \div g), Once({s}, n)
  PROVE  Deals(Dealt(s, n, g), n, m)
<1> DEFINE M == m \div g
           B == Dealt(s, n, g)
           T == 1 .. m
<1>1. /\ \A x \in T : \E j \in 1 .. M : x \in Block(j, g)
      /\ \A j, l \in 1 .. M : \A x : x \in Block(j, g) /\ x \in Block(l, g) => j = l
  BY BlocksPartition, Zenon
<1>2. ASSUME NEW i \in 1 .. n
      PROVE  /\ Shares(s, i, g) \subseteq T /\ IsFiniteSet(Shares(s, i, g))
             /\ Lists(B[i], Shares(s, i, g))
  BY DealtLists, Zenon
<1>3. Covers({s}, n, M) /\ Bins(s, n, M)
  OBVIOUS
<1>3a. \A i, j \in 1 .. n : \A a, b, x : At(s, i, a, x) /\ At(s, j, b, x) => i = j
  BY s \in {s} DEF Once
<1>4. \A i \in 1 .. n : \A a \in 1 .. Len(s[i].items) : s[i].items[a] \in 1 .. M
  BY <1>3, ElementOfSeq DEF Bins
<1> HIDE DEF M, T, B
<1>5. ASSUME NEW i \in 1 .. n
      PROVE  /\ B[i] \in Seq(T)
             /\ \A x : x \in Shares(s, i, g) <=> \E a : Put(B, i, a, x)
             /\ \A a, b, x : Put(B, i, a, x) /\ Put(B, i, b, x) => a = b
  <2> DEFINE S == Shares(s, i, g)
             o == B[i]
  <2>1. S \subseteq T /\ IsFiniteSet(S) /\ Lists(o, S)
    BY <1>2
  <2> HIDE DEF S, o
  <2>2. /\ o \in Seq(S) /\ (\A x \in S : \E r \in 1 .. Len(o) : o[r] = x)
        /\ (\A r \in 1 .. Len(o) : o[r] \in S)
        /\ (\A q, r \in 1 .. Len(o) : o[q] = o[r] => q = r)
    BY <2>1, ListLen
  <2>3. o \in Seq(T)
    BY <2>1, <2>2
  <2>4. /\ \A x : x \in S <=> \E a : a \in 1 .. Len(o) /\ o[a] = x
        /\ \A a, b, x : a \in 1 .. Len(o) /\ o[a] = x /\ b \in 1 .. Len(o) /\ o[b] = x => a = b
    BY <2>2
  <2> QED BY <2>3, <2>4, Zenon DEF Put, S, o
<1>6. B \in [1 .. n -> Seq(T)]
  <2>1. B = [i \in 1 .. n |-> B[i]]
    BY DEF B, Dealt
  <2> QED BY <1>5, <2>1
<1>7. ASSUME NEW x \in T PROVE \E i \in 1 .. n : \E a : Put(B, i, a, x)
  <2>1. PICK j \in 1 .. M : x \in Block(j, g)
    BY <1>1
  <2>2. PICK i \in 1 .. n : \E a : At(s, i, a, j)
    BY <1>3 DEF Covers
  <2>3. x \in Shares(s, i, g)
    BY <2>1, <2>2 DEF Shares, At
  <2> QED BY <1>5, <2>3
<1>8. ASSUME NEW i \in 1 .. n, NEW j \in 1 .. n, NEW a, NEW b, NEW x,
             Put(B, i, a, x), Put(B, j, b, x)
      PROVE  i = j /\ a = b
  <2>1. x \in Shares(s, i, g) /\ x \in Shares(s, j, g)
    BY <1>5, <1>8
  <2>2. PICK c \in 1 .. Len(s[i].items) : x \in Block(s[i].items[c], g)
    BY <2>1 DEF Shares
  <2>3. PICK d \in 1 .. Len(s[j].items) : x \in Block(s[j].items[d], g)
    BY <2>1 DEF Shares
  <2>4. s[i].items[c] = s[j].items[d]
    BY <1>1, <1>4, <2>2, <2>3
  <2>5. At(s, i, c, s[i].items[c]) /\ At(s, j, d, s[i].items[c])
    BY <2>4 DEF At
  <2>6. i = j
    BY <1>3a, <2>5
  <2> QED BY <1>5, <1>8, <2>6
<1>9. Deals(B, n, m)
  BY <1>6, <1>7, <1>8 DEF Deals, T
<1> QED BY <1>9 DEF B

-----------------------------------------------------------------------------
(* Rearrangements.                                                           *)
Permutes(p, n) ==
  /\ p \in [1 .. n -> 1 .. n]
  /\ \A x \in 1 .. n : \E i \in 1 .. n : p[i] = x
  /\ \A i, j \in 1 .. n : p[i] = p[j] => i = j

(* The halves of a sequence.                                                 *)
LEMMA Halves ==
  ASSUME NEW n \in Nat
  PROVE  LET h == CeilDiv(n, 2)  l == n \div 2
         IN  h \in Nat /\ l \in Nat /\ h + l = n /\ (h = l \/ h = l + 1)
BY DEF CeilDiv

(* Where the shuffles take their elements from.                              *)
FromEnds(n) ==
  [i \in 1 .. n |-> IF i <= CeilDiv(n, 2) THEN 2 * (CeilDiv(n, 2) - i + 1) - 1
                                          ELSE 2 * (i - CeilDiv(n, 2))]
FromMiddle(n) ==
  [i \in 1 .. n |-> IF i <= CeilDiv(n, 2) THEN 2 * i - 1 ELSE 2 * (n - i + 1)]

(* Both take every element once.                                             *)
LEMMA ShufflesPermute ==
  ASSUME NEW n \in Nat
  PROVE  Permutes(FromEnds(n), n) /\ Permutes(FromMiddle(n), n)
<1> DEFINE h == CeilDiv(n, 2)
           l == n \div 2
           p == FromEnds(n)
           q == FromMiddle(n)
<1>1. h \in Nat /\ l \in Nat /\ h + l = n /\ (h = l \/ h = l + 1)
  BY Halves
<1>2. /\ \A i \in 1 .. n : p[i] = IF i <= h THEN 2 * (h - i + 1) - 1 ELSE 2 * (i - h)
      /\ \A i \in 1 .. n : q[i] = IF i <= h THEN 2 * i - 1 ELSE 2 * (n - i + 1)
      /\ p = [i \in 1 .. n |-> p[i]] /\ q = [i \in 1 .. n |-> q[i]]
  BY DEF FromEnds, FromMiddle
<1> HIDE DEF h, l, p, q
<1>2a. \A i \in 1 .. n :
         /\ i <= h => p[i] = 2 * (h - i + 1) - 1 /\ q[i] = 2 * i - 1
         /\ i > h => p[i] = 2 * (i - h) /\ q[i] = 2 * (n - i + 1)
  BY <1>1, <1>2
<1>3. ASSUME NEW i \in 1 .. n PROVE p[i] \in 1 .. n /\ q[i] \in 1 .. n
  <2>1. /\ i <= h => p[i] = 2 * (h - i + 1) - 1 /\ q[i] = 2 * i - 1
        /\ i > h => p[i] = 2 * (i - h) /\ q[i] = 2 * (n - i + 1)
    BY <1>2a
  <2>2. i <= h => 2 * (h - i + 1) - 1 \in 1 .. n /\ 2 * i - 1 \in 1 .. n
    BY <1>1
  <2>3. i > h => 2 * (i - h) \in 1 .. n /\ 2 * (n - i + 1) \in 1 .. n
    BY <1>1
  <2> QED BY <1>1, <2>1, <2>2, <2>3
<1>4. ASSUME NEW x \in 1 .. n
      PROVE  (\E i \in 1 .. n : p[i] = x) /\ (\E i \in 1 .. n : q[i] = x)
  <2>1. PICK y \in Int : x = 2 * y \/ x = 2 * y - 1
    <3>1. x = 2 * (x \div 2) \/ x = 2 * (x \div 2 + 1) - 1
      OBVIOUS
    <3>2. x \div 2 \in Int /\ x \div 2 + 1 \in Int
      OBVIOUS
    <3> QED BY <3>1, <3>2
  <2>2. CASE x = 2 * y
    <3>1. /\ h + y \in 1 .. n /\ ~ (h + y <= h) /\ 2 * ((h + y) - h) = x
          /\ n - y + 1 \in 1 .. n /\ ~ (n - y + 1 <= h) /\ 2 * (n - (n - y + 1) + 1) = x
      BY <1>1, <2>2
    <3> QED BY <1>2, <3>1
  <2>3. CASE x = 2 * y - 1
    <3>1. /\ h - y + 1 \in 1 .. n /\ h - y + 1 <= h /\ 2 * (h - (h - y + 1) + 1) - 1 = x
          /\ y \in 1 .. n /\ y <= h
      BY <1>1, <2>3
    <3> QED BY <1>2, <2>3, <3>1
  <2> QED BY <2>1, <2>2, <2>3
<1>5. ASSUME NEW i \in 1 .. n, NEW j \in 1 .. n
      PROVE  (p[i] = p[j] => i = j) /\ (q[i] = q[j] => i = j)
  <2>1. /\ i <= h => p[i] = 2 * (h - i + 1) - 1 /\ q[i] = 2 * i - 1
        /\ i > h => p[i] = 2 * (i - h) /\ q[i] = 2 * (n - i + 1)
        /\ j <= h => p[j] = 2 * (h - j + 1) - 1 /\ q[j] = 2 * j - 1
        /\ j > h => p[j] = 2 * (j - h) /\ q[j] = 2 * (n - j + 1)
    BY <1>2a
  <2> DEFINE pi == p[i]
             pj == p[j]
             qi == q[i]
             qj == q[j]
  <2> HIDE DEF pi, pj, qi, qj
  <2>2. /\ i <= h => pi = 2 * (h - i + 1) - 1 /\ qi = 2 * i - 1
        /\ i > h => pi = 2 * (i - h) /\ qi = 2 * (n - i + 1)
        /\ j <= h => pj = 2 * (h - j + 1) - 1 /\ qj = 2 * j - 1
        /\ j > h => pj = 2 * (j - h) /\ qj = 2 * (n - j + 1)
    BY <2>1 DEF pi, pj, qi, qj
  <2>3. (pi = pj => i = j) /\ (qi = qj => i = j)
    BY <1>1, <2>2
  <2> QED BY <2>3 DEF pi, pj, qi, qj
<1>6. Permutes(p, n) /\ Permutes(q, n)
  BY <1>2, <1>3, <1>4, <1>5 DEF Permutes
<1> QED BY <1>6 DEF p, q

(* The samples of a sequence taken alternately.                              *)
LEMMA EveryOther ==
  ASSUME NEW S, NEW s \in Seq(S)
  PROVE  LET n == Len(s)  h == CeilDiv(n, 2)  l == n \div 2
         IN  /\ Evens(s) \in Seq(S) /\ Len(Evens(s)) = h
             /\ \A i \in 1 .. h : Evens(s)[i] = s[2 * i - 1]
             /\ Odds(s) \in Seq(S) /\ Len(Odds(s)) = l
             /\ \A i \in 1 .. l : Odds(s)[i] = s[2 * i]
<1> DEFINE n == Len(s)
           h == CeilDiv(n, 2)
           l == n \div 2
           e == Evens(s)
           o == Odds(s)
<1>1. n \in Nat /\ \A i \in 1 .. n : s[i] \in S
  BY LenProperties, ElementOfSeq
<1>2. h \in Nat /\ l \in Nat /\ h + l = n /\ (h = l \/ h = l + 1)
  BY <1>1, Halves
<1>3. e = [i \in 1 .. h |-> s[2 * i - 1]] /\ o = [i \in 1 .. l |-> s[2 * i]]
  BY DEF Evens, Odds
<1> HIDE DEF n, h, l, e, o
<1>4. /\ \A i \in 1 .. h : 2 * i - 1 \in 1 .. n
      /\ \A i \in 1 .. l : 2 * i \in 1 .. n
  BY <1>1, <1>2
<1>5. e \in [1 .. h -> S] /\ o \in [1 .. l -> S]
  BY <1>1, <1>3, <1>4
<1>6. e \in Seq(S) /\ Len(e) = h /\ o \in Seq(S) /\ Len(o) = l
  BY <1>2, <1>5, IsASeq, LenProperties
<1> QED BY <1>3, <1>6 DEF n, h, l, e, o

(* A sequence reversed.                                                      *)
LEMMA Reversed ==
  ASSUME NEW S, NEW s \in Seq(S)
  PROVE  /\ Reverse(s) \in Seq(S) /\ Len(Reverse(s)) = Len(s)
         /\ \A i \in 1 .. Len(s) : Reverse(s)[i] = s[(Len(s) - i) + 1]
<1> DEFINE n == Len(s)
           r == Reverse(s)
<1>1. n \in Nat /\ \A i \in 1 .. n : s[i] \in S
  BY LenProperties, ElementOfSeq
<1>2. r = [i \in 1 .. n |-> s[(n - i) + 1]]
  BY DEF Reverse
<1> HIDE DEF n, r
<1>3. \A i \in 1 .. n : (n - i) + 1 \in 1 .. n
  BY <1>1
<1>4. r \in [1 .. n -> S]
  BY <1>1, <1>2, <1>3
<1>5. r \in Seq(S) /\ Len(r) = n
  BY <1>1, <1>4, IsASeq, LenProperties
<1> QED BY <1>2, <1>5 DEF n, r

(* The shuffles.                                                             *)
LEMMA Shuffled ==
  ASSUME NEW S, NEW s \in Seq(S)
  PROVE  LET n == Len(s)
             q == Evens(s) \o Reverse(Odds(s))
         IN  /\ EndsSmall(s) \in [1 .. n -> S]
             /\ \A i \in 1 .. n : EndsSmall(s)[i] = s[FromEnds(n)[i]]
             /\ q \in Seq(S) /\ Len(q) = n
             /\ \A i \in 1 .. n : q[i] = s[FromMiddle(n)[i]]
<1> DEFINE n == Len(s)
           h == CeilDiv(n, 2)
           l == n \div 2
           e == Evens(s)
           o == Odds(s)
           re == Reverse(e)
           ro == Reverse(o)
           p == re \o o
           q == e \o ro
<1>1. n \in Nat
  BY LenProperties
<1>2. h \in Nat /\ l \in Nat /\ h + l = n /\ (h = l \/ h = l + 1)
  BY <1>1, Halves
<1>3. /\ e \in Seq(S) /\ Len(e) = h
      /\ \A i \in 1 .. h : e[i] = s[2 * i - 1]
      /\ o \in Seq(S) /\ Len(o) = l
      /\ \A i \in 1 .. l : o[i] = s[2 * i]
  BY EveryOther
<1>4. /\ \A i \in 1 .. n : FromEnds(n)[i] = IF i <= h THEN 2 * (h - i + 1) - 1 ELSE 2 * (i - h)
      /\ \A i \in 1 .. n : FromMiddle(n)[i] = IF i <= h THEN 2 * i - 1 ELSE 2 * (n - i + 1)
  BY DEF FromEnds, FromMiddle
<1> HIDE DEF n, h, l, e, o
<1>5. /\ re \in Seq(S) /\ Len(re) = h /\ \A i \in 1 .. h : re[i] = e[(h - i) + 1]
      /\ ro \in Seq(S) /\ Len(ro) = l /\ \A i \in 1 .. l : ro[i] = o[(l - i) + 1]
  BY <1>3, Reversed
<1> HIDE DEF re, ro
<1>6. /\ p \in Seq(S) /\ Len(p) = n
      /\ \A i \in 1 .. h : p[i] = re[i]
      /\ \A i \in 1 .. l : p[h + i] = o[i]
  <2>1. /\ p \in Seq(S) /\ Len(p) = Len(re) + Len(o)
        /\ \A i \in 1 .. Len(re) : p[i] = re[i]
        /\ \A i \in 1 .. Len(o) : p[Len(re) + i] = o[i]
    <3>1. re \in Seq(S) /\ o \in Seq(S)
      BY <1>3, <1>5
    <3> QED BY <3>1, AppendedPut
  <2> QED BY <1>2, <1>3, <1>5, <2>1
<1>7. /\ q \in Seq(S) /\ Len(q) = n
      /\ \A i \in 1 .. h : q[i] = e[i]
      /\ \A i \in 1 .. l : q[h + i] = ro[i]
  <2>1. /\ q \in Seq(S) /\ Len(q) = Len(e) + Len(ro)
        /\ \A i \in 1 .. Len(e) : q[i] = e[i]
        /\ \A i \in 1 .. Len(ro) : q[Len(e) + i] = ro[i]
    <3>1. e \in Seq(S) /\ ro \in Seq(S)
      BY <1>3, <1>5
    <3> QED BY <3>1, AppendedPut
  <2> QED BY <1>2, <1>3, <1>5, <2>1
<1> DEFINE a == FromEnds(n)
           b == FromMiddle(n)
<1> HIDE DEF p, q, a, b
<1>8. ASSUME NEW i \in 1 .. n PROVE p[i] = s[a[i]] /\ q[i] = s[b[i]]
  <2>1. CASE i <= h
    <3>1. i \in 1 .. h /\ (h - i) + 1 \in 1 .. h
      BY <1>2, <2>1
    <3>2. p[i] = s[2 * ((h - i) + 1) - 1] /\ q[i] = s[2 * i - 1]
      BY <1>3, <1>5, <1>6, <1>7, <3>1
    <3>3. a[i] = 2 * ((h - i) + 1) - 1 /\ b[i] = 2 * i - 1
      BY <1>4, <2>1 DEF a, b
    <3> QED BY <3>2, <3>3
  <2>2. CASE ~ (i <= h)
    <3> DEFINE c == i - h
    <3>1. c \in 1 .. l /\ h + c = i /\ (l - c) + 1 \in 1 .. l /\ (l - c) + 1 = n - i + 1
      BY <1>2, <2>2
    <3>2. a[i] = 2 * c /\ b[i] = 2 * (n - i + 1)
      BY <1>4, <2>2 DEF a, b
    <3> HIDE DEF c
    <3>3. p[i] = s[2 * c] /\ q[i] = s[2 * ((l - c) + 1)]
      BY <1>3, <1>5, <1>6, <1>7, <3>1
    <3> QED BY <3>1, <3>2, <3>3
  <2> QED BY <2>1, <2>2
<1>9. p \in [1 .. n -> S]
  <2>1. DOMAIN p = 1 .. n /\ \A i \in 1 .. n : p[i] \in S
    BY <1>6, LenProperties, ElementOfSeq
  <2> QED BY <1>6, <2>1, LenProperties
<1> QED BY <1>7, <1>8, <1>9 DEF EndsSmall, n, e, o, re, ro, p, q, a, b

(* One shuffle after another is one.                                         *)
LEMMA PermutesTwice ==
  ASSUME NEW n \in Nat, NEW p, NEW q, Permutes(p, n), Permutes(q, n)
  PROVE  Permutes([i \in 1 .. n |-> p[q[i]]], n)
<1> DEFINE N == 1 .. n
           r == [i \in N |-> p[q[i]]]
<1>1. /\ \A i \in N : p[i] \in N /\ q[i] \in N
      /\ \A x \in N : \E i \in N : p[i] = x
      /\ \A x \in N : \E i \in N : q[i] = x
      /\ \A i, j \in N : (p[i] = p[j] => i = j) /\ (q[i] = q[j] => i = j)
  BY DEF Permutes
<1> HIDE DEF N
<1>2. r \in [N -> N] /\ \A i \in N : r[i] = p[q[i]]
  BY <1>1
<1>3. \A x \in N : \E i \in N : r[i] = x
  <2> SUFFICES ASSUME NEW x \in N PROVE \E i \in N : r[i] = x
    OBVIOUS
  <2>1. PICK j \in N : p[j] = x
    BY <1>1
  <2>2. PICK i \in N : q[i] = j
    BY <1>1
  <2> QED BY <1>2, <2>1, <2>2
<1>4. \A i, j \in N : r[i] = r[j] => i = j
  BY <1>1, <1>2
<1> QED BY <1>2, <1>3, <1>4 DEF Permutes, N

(* The sequences in another order.                                           *)
LEMMA DealsPermuted ==
  ASSUME NEW n \in Nat, NEW m, NEW B, Deals(B, n, m), NEW p, Permutes(p, n)
  PROVE  Deals([i \in 1 .. n |-> B[p[i]]], n, m)
<1> DEFINE N == 1 .. n
           T == 1 .. m
           C == [i \in N |-> B[p[i]]]
<1>1. /\ \A i \in N : p[i] \in N
      /\ \A x \in N : \E i \in N : p[i] = x
      /\ \A i, j \in N : p[i] = p[j] => i = j
  BY DEF Permutes
<1>2. /\ B \in [N -> Seq(T)]
      /\ \A x \in T : \E i \in N : \E a : Put(B, i, a, x)
      /\ \A i, j \in N : \A a, b, x : Put(B, i, a, x) /\ Put(B, j, b, x) => i = j /\ a = b
  BY Zenon DEF Deals
<1> HIDE DEF N, T
<1>3. C \in [N -> Seq(T)] /\ \A i \in N : C[i] = B[p[i]]
  BY <1>1, <1>2
<1> HIDE DEF C
<1>4. \A i \in N : \A a, x : Put(C, i, a, x) <=> Put(B, p[i], a, x)
  BY <1>3 DEF Put
<1>5. ASSUME NEW x \in T PROVE \E i \in N : \E a : Put(C, i, a, x)
  <2>1. PICK j \in N : \E a : Put(B, j, a, x)
    BY <1>2
  <2>2. PICK i \in N : p[i] = j
    BY <1>1
  <2> QED BY <1>4, <2>1, <2>2
<1>6. ASSUME NEW i \in N, NEW j \in N, NEW a, NEW b, NEW x, Put(C, i, a, x), Put(C, j, b, x)
      PROVE  i = j /\ a = b
  <2>1. Put(B, p[i], a, x) /\ Put(B, p[j], b, x) /\ p[i] \in N /\ p[j] \in N
    BY <1>1, <1>4, <1>6
  <2>2. p[i] = p[j] /\ a = b
    BY <1>2, <2>1
  <2> QED BY <1>1, <2>2
<1>7. Deals(C, n, m)
  BY <1>3, <1>5, <1>6 DEF Deals, N, T
<1> QED BY <1>7 DEF C, N

(* Each sequence rearranged within itself.                                   *)
LEMMA DealsWithin ==
  ASSUME NEW n \in Nat, NEW m, NEW B, Deals(B, n, m),
         NEW C \in [1 .. n -> Seq(1 .. m)],
         \A i \in 1 .. n : \A x : (\E a : Put(B, i, a, x)) <=> (\E a : Put(C, i, a, x)),
         \A i \in 1 .. n : \A a, b, x : Put(C, i, a, x) /\ Put(C, i, b, x) => a = b
  PROVE  Deals(C, n, m)
<1> DEFINE N == 1 .. n
           T == 1 .. m
<1>1. /\ \A x \in T : \E i \in N : \E a : Put(B, i, a, x)
      /\ \A i, j \in N : \A a, b, x : Put(B, i, a, x) /\ Put(B, j, b, x) => i = j
  BY Zenon DEF Deals
<1>2. /\ C \in [N -> Seq(T)]
      /\ \A i \in N : \A x : (\E a : Put(B, i, a, x)) <=> (\E a : Put(C, i, a, x))
      /\ \A i \in N : \A a, b, x : Put(C, i, a, x) /\ Put(C, i, b, x) => a = b
  OBVIOUS
<1> HIDE DEF N, T
<1>3. \A x \in T : \E i \in N : \E a : Put(C, i, a, x)
  BY <1>1, <1>2
<1>4. ASSUME NEW i \in N, NEW j \in N, NEW a, NEW b, NEW x, Put(C, i, a, x), Put(C, j, b, x)
      PROVE  i = j /\ a = b
  <2>1. PICK c : Put(B, i, c, x)
    BY <1>2, <1>4
  <2>2. PICK d : Put(B, j, d, x)
    BY <1>2, <1>4
  <2>3. i = j
    BY <1>1, <2>1, <2>2
  <2> QED BY <1>2, <1>4, <2>3
<1> QED BY <1>2, <1>3, <1>4 DEF Deals, N, T

(* A list shuffled from both ends towards the middle is still one.           *)
LEMMA ListShuffled ==
  ASSUME NEW S, IsFiniteSet(S), NEW s, Lists(s, S)
  PROVE  LET q == Evens(s) \o Reverse(Odds(s))
         IN  /\ q \in Seq(S)
             /\ \A x : x \in S <=> \E a : a \in 1 .. Len(q) /\ q[a] = x
             /\ \A a, b, x : a \in 1 .. Len(q) /\ q[a] = x /\ b \in 1 .. Len(q) /\ q[b] = x
                               => a = b
<1> DEFINE q == Evens(s) \o Reverse(Odds(s))
           n == Len(s)
           p == FromMiddle(n)
<1>1. /\ s \in Seq(S) /\ n \in Nat
      /\ \A x \in S : \E r \in 1 .. n : s[r] = x
      /\ \A r \in 1 .. n : s[r] \in S
      /\ \A i, j \in 1 .. n : s[i] = s[j] => i = j
  BY ListLen
<1>2. q \in Seq(S) /\ Len(q) = n /\ \A i \in 1 .. n : q[i] = s[p[i]]
  BY <1>1, Shuffled
<1>3. Permutes(p, n)
  BY <1>1, ShufflesPermute
<1> HIDE DEF q, n, p
<1>4. /\ \A i \in 1 .. n : p[i] \in 1 .. n
      /\ \A x \in 1 .. n : \E i \in 1 .. n : p[i] = x
      /\ \A i, j \in 1 .. n : p[i] = p[j] => i = j
  BY <1>3 DEF Permutes
<1>5. ASSUME NEW x \in S PROVE \E a \in 1 .. n : q[a] = x
  <2>1. PICK r \in 1 .. n : s[r] = x
    BY <1>1
  <2>2. PICK a \in 1 .. n : p[a] = r
    BY <1>4
  <2> QED BY <1>2, <2>1, <2>2
<1>6. ASSUME NEW a \in 1 .. n PROVE q[a] \in S
  BY <1>1, <1>2, <1>4
<1>7. ASSUME NEW a \in 1 .. n, NEW b \in 1 .. n, q[a] = q[b] PROVE a = b
  <2>1. p[a] \in 1 .. n /\ p[b] \in 1 .. n /\ s[p[a]] = s[p[b]]
    BY <1>2, <1>4, <1>7
  <2>2. p[a] = p[b]
    BY <1>1, <2>1
  <2> QED BY <1>4, <2>2
<1> DEFINE N == 1 .. n
<1>8. N = 1 .. Len(q)
  BY <1>2
<1> HIDE DEF N
<1>9. /\ \A x : x \in S <=> \E a : a \in N /\ q[a] = x
      /\ \A a, b, x : a \in N /\ q[a] = x /\ b \in N /\ q[b] = x => a = b
  BY <1>5, <1>6, <1>7 DEF N
<1> QED BY <1>2, <1>8, <1>9 DEF q

-----------------------------------------------------------------------------
(* Every sample has a length; a workload is a number.                        *)
LensNumbers == lens \in Seq(Nat)

LEMMA WorkNumber ==
  ASSUME LensNumbers
  PROVE  \A x \in 1 .. Len(lens) : Workload[x] \in Nat
<1> SUFFICES ASSUME NEW x \in 1 .. Len(lens) PROVE Workload[x] \in Nat
  OBVIOUS
<1> DEFINE n == lens[x]
<1>1. n \in Nat /\ x \in DOMAIN lens
  BY LenProperties, ElementOfSeq DEF LensNumbers
<1>2. Workload[x] = 24576 * n + n * n
  BY <1>1 DEF Workload
<1> HIDE DEF n
<1>3. n * n \in Nat /\ 24576 * n \in Nat
  BY <1>1
<1> QED BY <1>2, <1>3

(* So is the work of a batch.                                                *)
LEMMA BatchWorkNumber ==
  ASSUME LensNumbers, NEW b \in Seq(1 .. Len(lens))
  PROVE  BatchWork(b) \in Nat
<1> DEFINE f == [x \in 1 .. Len(b) |-> Workload[b[x]]]
           S == 1 .. Len(b)
<1>1. \A x \in S : b[x] \in 1 .. Len(lens)
  BY ElementOfSeq
<1>2. \A x \in S : f[x] \in Nat
  BY <1>1, WorkNumber
<1>3. IsFiniteSet(S)
  BY UpToSize, LenProperties
<1> HIDE DEF f, S
<1>4. Sum(f, S) \in Nat
  BY <1>2, <1>3, SumNatural
<1> QED BY <1>4 DEF BatchWork, f, S

(* A rank's share in its order is the same share.                            *)
LEMMA RankOrderSame ==
  ASSUME LensNumbers, NEW b \in Seq(1 .. Len(lens))
  PROVE  LET t == RankOrder(b)
         IN  /\ t \in Seq(1 .. Len(lens))
             /\ \A x : (\E a : a \in 1 .. Len(b) /\ b[a] = x)
                         <=> (\E a : a \in 1 .. Len(t) /\ t[a] = x)
             /\ \A a, c, x : a \in 1 .. Len(t) /\ t[a] = x /\ c \in 1 .. Len(t) /\ t[c] = x
                               => a = c
<1> DEFINE T == 1 .. Len(lens)
           S == Range(b)
           Short(x, y) == \/ Workload[x] < Workload[y]
                          \/ Workload[x] = Workload[y] /\ x < y
           R == {w \in S \X S : Short(w[1], w[2])}
           s == Ordered(S, R)
           t == Evens(s) \o Reverse(Odds(s))
<1>1. RankOrder(b) = t
  BY DEF RankOrder
<1>2. DOMAIN b = 1 .. Len(b) /\ \A a \in 1 .. Len(b) : b[a] \in T
  BY LenProperties, ElementOfSeq
<1>3. S \subseteq T /\ \A x : x \in S <=> \E a : a \in 1 .. Len(b) /\ b[a] = x
  BY <1>2 DEF Range
<1>4. IsFiniteSet(T) /\ T \subseteq Int
  BY UpToSize, LenProperties DEF LensNumbers
<1>5. \A x \in T : Workload[x] \in Nat
  BY WorkNumber
<1> HIDE DEF T, S
<1>6. IsFiniteSet(S)
  BY <1>3, <1>4, FS_Subset
<1>7. \A x, y \in S : <<x, y>> \in R <=> Short(x, y)
  OBVIOUS
<1> HIDE DEF R
<1>8. StrictOrder(S, R)
  <2>1. \A x \in S : ~ Short(x, x)
    BY <1>3, <1>4, <1>5
  <2>2. \A x, y, z \in S : Short(x, y) /\ Short(y, z) => Short(x, z)
    <3> SUFFICES ASSUME NEW x \in S, NEW y \in S, NEW z \in S, Short(x, y), Short(y, z)
                 PROVE  Short(x, z)
      BY Zenon
    <3>1. /\ x \in Int /\ y \in Int /\ z \in Int
          /\ Workload[x] \in Int /\ Workload[y] \in Int /\ Workload[z] \in Int
      BY <1>3, <1>4, <1>5
    <3> QED BY <3>1
  <2>3. \A x, y \in S : x = y \/ Short(x, y) \/ Short(y, x)
    <3> SUFFICES ASSUME NEW x \in S, NEW y \in S
                 PROVE  x = y \/ Short(x, y) \/ Short(y, x)
      BY Zenon
    <3>1. /\ x \in Int /\ y \in Int
          /\ Workload[x] \in Int /\ Workload[y] \in Int
      BY <1>3, <1>4, <1>5
    <3> QED BY <3>1
  <2> HIDE DEF Short
  <2> QED BY <1>7, <2>1, <2>2, <2>3 DEF StrictOrder
<1>9. Lists(s, S)
  BY <1>6, <1>8, OrderedInOrder
<1> HIDE DEF s
<1>10. /\ t \in Seq(S)
       /\ \A x : x \in S <=> \E a : a \in 1 .. Len(t) /\ t[a] = x
       /\ \A a, c, x : a \in 1 .. Len(t) /\ t[a] = x /\ c \in 1 .. Len(t) /\ t[c] = x
                         => a = c
  BY <1>6, <1>9, ListShuffled
<1> HIDE DEF t
<1>11. t \in Seq(T)
  BY <1>3, <1>10
<1>12. \A x : (\E a : a \in 1 .. Len(b) /\ b[a] = x)
                <=> (\E a : a \in 1 .. Len(t) /\ t[a] = x)
  BY <1>3, <1>10
<1> QED BY <1>1, <1>10, <1>11, <1>12 DEF T

(* Micro-batches put in the order of their work, the light ones at both      *)
(* ends, are the same micro-batches in another order.                        *)
LEMMA MicroOrderPermutes ==
  ASSUME LensNumbers, NEW n \in Nat \ {0}, NEW B, Deals(B, n, Len(lens)),
         \A i \in 1 .. n : B[i] # <<>>
  PROVE  \E p : Permutes(p, n) /\ EndsSmall(MicroOrder(B)) = [i \in 1 .. n |-> B[p[i]]]
<1> DEFINE T == 1 .. Len(lens)
           N == 1 .. n
           Heavy(i, j) == \/ BatchWork(B[i]) > BatchWork(B[j])
                          \/ BatchWork(B[i]) = BatchWork(B[j]) /\ B[i][1] > B[j][1]
           R == {w \in N \X N : Heavy(w[1], w[2])}
           o == Ordered(N, R)
           s == [i \in N |-> B[o[i]]]
           p == FromEnds(n)
<1>1. B \in [N -> Seq(T)] /\ DOMAIN B = N
  BY DEF Deals
<1>2. MicroOrder(B) = s
  BY <1>1 DEF MicroOrder
<1>3. IsFiniteSet(N) /\ Cardinality(N) = n
  BY UpToSize
<1>4. \A i \in N : BatchWork(B[i]) \in Nat
  BY <1>1, BatchWorkNumber
<1>5. \A i \in N : B[i][1] \in Int /\ Put(B, i, 1, B[i][1])
  <2> SUFFICES ASSUME NEW i \in N PROVE B[i][1] \in Int /\ Put(B, i, 1, B[i][1])
    OBVIOUS
  <2>1. B[i] \in Seq(T) /\ B[i] # <<>>
    BY <1>1
  <2>2. 1 \in 1 .. Len(B[i])
    BY <2>1, LenProperties, EmptySeq
  <2>3. B[i][1] \in T
    BY <2>1, <2>2, ElementOfSeq
  <2> QED BY <2>2, <2>3 DEF Put
<1>6. \A i, j \in N : B[i][1] = B[j][1] => i = j
  BY <1>5 DEF Deals
<1> HIDE DEF N, T
<1>7. \A i, j \in N : <<i, j>> \in R <=> Heavy(i, j)
  OBVIOUS
<1> HIDE DEF R
<1>8. StrictOrder(N, R)
  <2>1. \A i \in N : ~ Heavy(i, i)
    BY <1>4, <1>5
  <2>2. \A i, j, l \in N : Heavy(i, j) /\ Heavy(j, l) => Heavy(i, l)
    BY <1>4, <1>5
  <2>3. \A i, j \in N : i = j \/ Heavy(i, j) \/ Heavy(j, i)
    BY <1>4, <1>5, <1>6
  <2> HIDE DEF Heavy
  <2> QED BY <1>7, <2>1, <2>2, <2>3 DEF StrictOrder
<1>9. Lists(o, N)
  BY <1>3, <1>8, OrderedInOrder
<1> HIDE DEF o
<1>10. Permutes(o, n)
  BY <1>3, <1>9 DEF Lists, Permutes, N
<1>11. s \in [N -> Seq(T)] /\ \A i \in N : s[i] = B[o[i]]
  BY <1>1, <1>10 DEF Permutes, N
<1> HIDE DEF s
<1>12. s \in Seq(Seq(T)) /\ Len(s) = n
  BY <1>11, IsASeq, LenProperties DEF N
<1> DEFINE e == EndsSmall(s)
<1>13. e \in [1 .. n -> Seq(T)] /\ \A i \in 1 .. n : e[i] = s[p[i]]
  BY <1>12, Shuffled
<1>14. Permutes(p, n)
  BY ShufflesPermute
<1> DEFINE r == [i \in 1 .. n |-> o[p[i]]]
<1>15. Permutes(r, n)
  BY <1>10, <1>14, PermutesTwice
<1> HIDE DEF e, p
<1>16. \A i \in 1 .. n : p[i] \in N /\ e[i] = B[r[i]]
  BY <1>11, <1>13, <1>14 DEF Permutes, N
<1> HIDE DEF r
<1>17. e = [i \in 1 .. n |-> B[r[i]]]
  BY <1>13, <1>16
<1> QED BY <1>2, <1>15, <1>17 DEF e

(* A filled bin has a sample.                                                *)
LEMMA DealtFilled ==
  ASSUME NEW n \in Nat \ {0}, NEW m \in Nat, NEW g \in Nat \ {0}, m % g = 0,
         NEW s, Bins(s, n, m \div g), Filled(s, n), NEW i \in 1 .. n
  PROVE  Dealt(s, n, g)[i] # <<>>
<1> DEFINE S == Shares(s, i, g)
           o == Dealt(s, n, g)[i]
           j == s[i].items[1]
<1>1. IsFiniteSet(S) /\ Lists(o, S)
  BY DealtLists, Zenon
<1>2. 1 \in 1 .. Len(s[i].items)
  BY LenProperties, EmptySeq DEF Filled, Bins
<1>3. (j - 1) * g + 1 \in Block(j, g)
  <2>1. 1 \in 1 .. g
    OBVIOUS
  <2> HIDE DEF j
  <2> QED BY <2>1 DEF Block
<1>4. (j - 1) * g + 1 \in S
  BY <1>2, <1>3 DEF Shares
<1> HIDE DEF S, o, j
<1>5. /\ o \in Seq(S)
      /\ \A x \in S : \E r \in 1 .. Len(o) : o[r] = x
  BY <1>1, ListLen
<1>6. \E r \in 1 .. Len(o) : TRUE
  BY <1>4, <1>5
<1>7. o # <<>>
  <2> SUFFICES ASSUME o = <<>> PROVE FALSE
    OBVIOUS
  <2>1. Len(o) = 0
    BY EmptySeq
  <2> QED BY <1>6, <2>1
<1> QED BY <1>7 DEF o

(* The samples of an item are next to each other in its bin.                 *)
LEMMA DealtTogether ==
  ASSUME NEW n \in Nat \ {0}, NEW m \in Nat, NEW g \in Nat \ {0}, m % g = 0,
         NEW s, Bins(s, n, m \div g), Covers({s}, n, m \div g), NEW i \in 1 .. m \div g
  PROVE  \E j \in 1 .. n : Together(Dealt(s, n, g)[j], (i - 1) * g, g)
<1> DEFINE M == m \div g
           c == (i - 1) * g
<1>1. M \in Nat
  OBVIOUS
<1>2. c \in Int
  BY <1>1
<1>3. \E j \in 1 .. n : \E a : At(s, j, a, i)
  BY DEF Covers
<1>3a. PICK j \in 1 .. n : \E a : At(s, j, a, i)
  BY <1>3
<1>4. PICK a : At(s, j, a, i)
  BY <1>3a
<1> DEFINE S == Shares(s, j, g)
           o == Dealt(s, n, g)[j]
<1>5. IsFiniteSet(S) /\ S \subseteq Int /\ Lists(o, S) /\ Rising(o, S)
  BY DealtLists, Zenon
<1>6. Run(c, g, S)
  <2>1. \A l \in 1 .. g : c + l \in Block(i, g)
    BY DEF Block
  <2>2. Block(i, g) \subseteq S
    BY <1>4 DEF At, Shares
  <2> QED BY <2>1, <2>2 DEF Run
<1> HIDE DEF S, o, c
<1>7. Together(o, c, g)
  BY <1>2, <1>5, <1>6, RunTogether
<1> QED BY <1>4, <1>7 DEF o, c

-----------------------------------------------------------------------------
(***************************************************************************)
(* The callers.  While the call merges, the weights are those of the items *)
(* of the batch; once the samples are dealt out nothing changes.           *)
(***************************************************************************)
BatchInv ==
  /\ caller \in DOMAIN BatchSizes
  /\ lens \in [1 .. BatchSizes[caller] -> Lengths]

MicroInv ==
  /\ KKInv
  /\ ItemInv
  /\ BatchInv
  /\ phase = "called" => heap = {}
  /\ phase = "merging" => Len(weight) = Cardinality(Items)
  /\ Restored
  /\ GroupsTogether

(* The batch: whole groups, every sample with a length.                      *)
LEMMA BatchShape ==
  ASSUME BatchInv
  PROVE  LET m == Len(lens)
         IN  /\ lens \in Seq(Nat) /\ LensNumbers
             /\ m \in Nat \ {0} /\ DOMAIN lens = 1 .. m
             /\ \A x \in 1 .. m : lens[x] \in Nat \ {0}
             /\ Group \in Nat \ {0} /\ m % Group = 0
             /\ m \div Group \in Nat \ {0}
             /\ Items = 1 .. m \div Group /\ Cardinality(Items) = m \div Group
             /\ \A i : Members(i) = Block(i, Group)
<1> DEFINE m == Len(lens)
           n == BatchSizes[caller]
           g == Group
           q == m \div g
<1>1. n \in Nat \ {0} /\ (caller \in {"grouped", "prefix"} => n % GroupSize = 0)
  BY MicroAssumption DEF BatchInv
<1>2. lens \in [1 .. n -> Lengths] /\ Lengths \subseteq Nat \ {0}
  BY MicroAssumption DEF BatchInv
<1> HIDE DEF n
<1>3. lens \in [1 .. n -> Nat] /\ \A x \in 1 .. n : lens[x] \in Nat \ {0}
  BY <1>2
<1>4. lens \in Seq(Nat) /\ m = n
  BY <1>1, <1>3, IsASeq, LenProperties
<1>5. g \in Nat \ {0} /\ n % g = 0
  BY <1>1, MicroAssumption DEF Group
<1> HIDE DEF m
<1>6. q \in Nat /\ m = q * g
  <2> HIDE DEF g
  <2> QED BY <1>1, <1>4, <1>5
<1>7. q # 0
  <2> SUFFICES ASSUME q = 0 PROVE FALSE
    OBVIOUS
  <2> HIDE DEF q, g
  <2>1. q * g = 0
    BY <1>5
  <2> QED BY <1>1, <1>4, <1>6, <2>1
<1>8. Items = 1 .. q
  BY DEF Items, m
<1> HIDE DEF q, g
<1>9. Cardinality(1 .. q) = q
  BY <1>6, UpToSize
<1>10. \A i : Members(i) = Block(i, g)
  BY DEF Members, Block, g
<1>11. /\ lens \in Seq(Nat) /\ LensNumbers
       /\ m \in Nat \ {0} /\ DOMAIN lens = 1 .. m
       /\ \A x \in 1 .. m : lens[x] \in Nat \ {0}
       /\ g \in Nat \ {0} /\ m % g = 0
       /\ q \in Nat \ {0}
       /\ Items = 1 .. q /\ Cardinality(Items) = q
  BY <1>1, <1>3, <1>4, <1>5, <1>6, <1>7, <1>8, <1>9 DEF LensNumbers
<1> QED BY <1>10, <1>11 DEF m, g, q

(* The weights handed to karmarkar_karp.                                     *)
LEMMA WeightNumber ==
  ASSUME BatchInv
  PROVE  ItemWorkload \in Seq(Nat) /\ Len(ItemWorkload) = Cardinality(Items)
<1> DEFINE m == Len(lens)
           q == m \div Group
<1>1. /\ LensNumbers /\ m \in Nat /\ Group \in Nat \ {0} /\ m % Group = 0
      /\ q \in Nat /\ Items = 1 .. q /\ Cardinality(Items) = q
      /\ \A i : Members(i) = Block(i, Group)
  BY BatchShape, Zenon
<1>2. \A x \in 1 .. m : Workload[x] \in Nat
  BY <1>1, WorkNumber
<1>3. \A i \in 1 .. q : Block(i, Group) \subseteq 1 .. m
  BY <1>1, BlocksPartition
<1>4. IsFiniteSet(1 .. m)
  BY <1>1, UpToSize
<1> HIDE DEF m, q
<1>5. \A i \in 1 .. q : Sum(Workload, Members(i)) \in Nat
  <2> SUFFICES ASSUME NEW i \in 1 .. q PROVE Sum(Workload, Members(i)) \in Nat
    OBVIOUS
  <2> DEFINE S == Members(i)
             f == Workload
  <2>1. IsFiniteSet(S) /\ \A x \in S : f[x] \in Nat
    BY <1>1, <1>2, <1>3, <1>4, FS_Subset
  <2> HIDE DEF S, f
  <2>2. Sum(f, S) \in Nat
    BY <2>1, SumNatural
  <2> QED BY <2>2 DEF S, f
<1>6. ItemWorkload \in [1 .. q -> Nat]
  BY <1>1, <1>5 DEF ItemWorkload
<1>7. ItemWorkload \in Seq(Nat) /\ Len(ItemWorkload) = q
  BY <1>1, <1>6, IsASeq, LenProperties
<1> QED BY <1>1, <1>7

(* Rounding up.                                                              *)
LEMMA CeilDivPositive == \A a, b \in Nat \ {0} : CeilDiv(a, b) \in Nat \ {0}
<1> SUFFICES ASSUME NEW a \in Nat \ {0}, NEW b \in Nat \ {0}
             PROVE  CeilDiv(a, b) \in Nat \ {0}
  OBVIOUS
<1> DEFINE c == a + b - 1
           q == c \div b
           r == c % b
<1>1. q \in Nat /\ r \in 0 .. b - 1 /\ c = q * b + r
  OBVIOUS
<1>2. q # 0
  <2> SUFFICES ASSUME q = 0 PROVE FALSE
    OBVIOUS
  <2> HIDE DEF q, r
  <2>1. q * b = 0
    OBVIOUS
  <2>2. c >= b
    OBVIOUS
  <2> HIDE DEF c
  <2> QED BY <1>1, <2>1, <2>2
<1> QED BY <1>1, <1>2 DEF CeilDiv

(* There is at least one micro-batch.                                        *)
LEMMA MicroCount ==
  ASSUME BatchInv, NEW others \in Nat, NEW divisor \in Nat \ {0}
  PROVE  NumMicroBatches(others, divisor) \in Nat \ {0}
<1> DEFINE m == Len(lens)
           S == DOMAIN lens
           items == Cardinality(Items)
           total == Sum(lens, S)
           byTokens == CeilDiv(total, MaxTokenLen)
           own == Min({items, byTokens})
           agreed == Max({own, MinMicroBatch, others})
<1>1. /\ lens \in Seq(Nat) /\ m \in Nat \ {0} /\ S = 1 .. m
      /\ \A x \in 1 .. m : lens[x] \in Nat \ {0}
      /\ items \in Nat \ {0}
  BY BatchShape, Zenon
<1>2. IsFiniteSet(S) /\ S # {} /\ \A x \in S : lens[x] \in Nat /\ lens[x] > 0
  BY <1>1, UpToSize
<1>3. total \in Nat \ {0}
  <2> HIDE DEF S
  <2> QED BY <1>2, SumNatural
<1>4. byTokens \in Nat \ {0}
  <2> HIDE DEF total
  <2> QED BY <1>3, CeilDivPositive, MicroAssumption
<1> HIDE DEF byTokens, items
<1>5. own \in {items, byTokens}
  <2>1. \E x \in {items, byTokens} : \A y \in {items, byTokens} : x =< y
    BY <1>1, <1>4
  <2> QED BY <2>1, Zenon DEF Min
<1> HIDE DEF own
<1>6. own \in Nat \ {0} /\ MinMicroBatch \in Nat
  BY <1>1, <1>4, <1>5, MicroAssumption
<1>7. agreed \in {own, MinMicroBatch, others} /\ agreed >= own
  <2> DEFINE T == {own, MinMicroBatch, others}
  <2>1. \E x \in T : \A y \in T : x >= y
    <3>1. \/ own >= MinMicroBatch /\ own >= others /\ own >= own
          \/ MinMicroBatch >= own /\ MinMicroBatch >= others /\ MinMicroBatch >= MinMicroBatch
          \/ others >= own /\ others >= MinMicroBatch /\ others >= others
      BY <1>6
    <3> QED BY <3>1
  <2>2. agreed = Max(T)
    OBVIOUS
  <2>3. agreed \in T /\ \A y \in T : agreed >= y
    <3> HIDE DEF T, agreed
    <3> QED BY <2>1, <2>2, Zenon DEF Max
  <2> QED BY <2>3
<1> HIDE DEF agreed
<1>8. agreed \in Nat \ {0}
  BY <1>6, <1>7
<1> DEFINE q == CeilDiv(agreed, divisor)
<1>9. q \in Nat \ {0}
  BY <1>8, CeilDivPositive
<1> HIDE DEF q
<1>10. q * divisor \in Nat \ {0}
  BY <1>9
<1> QED BY <1>10 DEF NumMicroBatches, q, agreed, own, byTokens, items, total, S

(* A call of karmarkar_karp by a batch that is still to be split.            *)
LEMMA PrepareStarts ==
  ASSUME BatchInv, heap = {}, NEW n \in Nat \ {0}, NEW eq \in BOOLEAN,
         Prepare(n, eq), UNCHANGED <<caller, lens>>
  PROVE  \/ Start /\ phase' = "merging" /\ Len(weight') = Cardinality(Items')
         \/ UNCHANGED kkvars /\ phase' = "refused"
<1>1. CASE ~ Accepted(Cardinality(Items), n, eq)
  BY <1>1 DEF Prepare
<1>2. CASE Accepted(Cardinality(Items), n, eq)
  <2>1. weight' = ItemWorkload /\ k' = n /\ equal' = eq /\ Push /\ phase' = "merging"
    BY <1>2 DEF Prepare
  <2>2. weight' \in Seq(Nat) /\ Len(weight') = Cardinality(Items)
    BY <2>1, WeightNumber
  <2>3. Items' = Items
    BY DEF Items, Group
  <2>4. Accepted(Len(weight'), k', equal')
    BY <1>2, <2>1, <2>2
  <2>5. Start
    BY <2>1, <2>2, <2>4, Zenon DEF Start
  <2> QED BY <2>1, <2>2, <2>3, <2>5
<1> QED BY <1>1, <1>2

(* Both callers make such a call.                                            *)
LEMMA CallersStart ==
  ASSUME MicroInv, SplitByTokens \/ BalanceBatch
  PROVE  /\ \/ Start /\ phase' = "merging" /\ Len(weight') = Cardinality(Items')
            \/ UNCHANGED kkvars /\ phase' = "refused"
         /\ UNCHANGED <<caller, lens, batches>>
<1>1. BatchInv /\ (phase = "called" => heap = {})
  BY DEF MicroInv
<1>2. CASE SplitByTokens
  <2>1. phase = "called" /\ UNCHANGED <<caller, lens, batches>>
    BY <1>2 DEF SplitByTokens
  <2>2. CASE \A x \in DOMAIN lens : lens[x] <= MaxTokenLen
    <3>1. PICK others \in 0 .. Cardinality(Items), divisor \in Divisors :
            Prepare(NumMicroBatches(others, divisor), FALSE)
      BY <1>2, <2>2 DEF SplitByTokens
    <3>2. others \in Nat /\ divisor \in Nat \ {0}
      BY MicroAssumption
    <3>3. NumMicroBatches(others, divisor) \in Nat \ {0}
      BY <1>1, <3>2, MicroCount
    <3> QED BY <1>1, <2>1, <3>1, <3>3, PrepareStarts
  <2>3. CASE ~ \A x \in DOMAIN lens : lens[x] <= MaxTokenLen
    BY <1>2, <2>1, <2>3 DEF SplitByTokens
  <2> QED BY <2>2, <2>3
<1>3. CASE BalanceBatch
  <2>1. phase = "called" /\ UNCHANGED <<caller, lens, batches>>
    BY <1>3 DEF BalanceBatch
  <2>2. PICK dp \in DpSizes : Prepare(dp, TRUE)
    BY <1>3 DEF BalanceBatch
  <2>3. dp \in Nat \ {0}
    BY MicroAssumption
  <2> QED BY <1>1, <2>1, <2>2, <2>3, PrepareStarts
<1> QED BY <1>2, <1>3

(* A step of the callers is one of karmarkar_karp or none.                   *)
LEMMA MicroStep == MicroInv /\ [MicroNext]_vars => [KKNext]_kkvars
<1> SUFFICES ASSUME MicroInv, [MicroNext]_vars PROVE [KKNext]_kkvars
  OBVIOUS
<1>1. CASE SplitByTokens \/ BalanceBatch
  BY <1>1, CallersStart DEF KKNext
<1>2. CASE MergeHeap
  BY <1>2 DEF MergeHeap, KKNext
<1>3. CASE Arrange
  BY <1>3 DEF Arrange
<1>4. CASE UNCHANGED vars
  BY <1>4 DEF vars
<1> QED BY <1>1, <1>2, <1>3, <1>4 DEF MicroNext

(* The one state left when karmarkar_karp returns.                           *)
LEMMA FinalHolds ==
  ASSUME MicroInv, phase = "merging", Returned
  PROVE  LET n == Len(lens) \div Group
         IN  k \in Nat \ {0} /\ Bins(Final, k, n) /\ Filled(Final, k)
             /\ Covers({Final}, k, n) /\ Once({Final}, k)
<1> DEFINE n == Len(lens) \div Group
           m == Len(weight)
<1>1. KKInv /\ ItemInv /\ BatchInv /\ m = Cardinality(Items)
  BY DEF MicroInv
<1>2. n \in Nat \ {0} /\ m = n
  BY <1>1, BatchShape, Zenon
<1>3. k \in Nat \ {0}
  BY <1>1 DEF KKInv
<1>4. PICK u : heap = {u}
  BY <1>1, FS_Singleton DEF ItemInv, Returned
<1>5. Final = u
  BY <1>4, Zenon DEF Final
<1> HIDE DEF n, m
<1>6. /\ Stocked(u, k, m, equal) /\ m >= k
      /\ Covers({u}, k, m) /\ Once({u}, k)
  BY <1>1, <1>4 DEF ItemInv, m
<1>7. Filled(u, k)
  BY <1>2, <1>3, <1>6, LoneFilled DEF Stocked
<1> QED BY <1>2, <1>3, <1>5, <1>6, <1>7 DEF Stocked, n

(* What the callers make of it: every sample in one place ...                *)
LEMMA ArrangeDeals ==
  ASSUME MicroInv, Arrange
  PROVE  /\ k \in Nat \ {0} /\ Deals(batches', k, Len(lens))
         /\ caller \in {"grouped", "prefix"} =>
              \E p : Permutes(p, k) /\ batches' = [i \in 1 .. k |-> Dealt(Final, k, Group)[p[i]]]
<1> DEFINE m == Len(lens)
           g == Group
           bs == [i \in 1 .. k |-> SamplesOf(Final[i])]
           B == Dealt(Final, k, g)
           id == [i \in 1 .. k |-> i]
<1>1. /\ k \in Nat \ {0} /\ Bins(Final, k, m \div g) /\ Filled(Final, k)
      /\ Covers({Final}, k, m \div g) /\ Once({Final}, k)
  BY FinalHolds, Zenon DEF Arrange
<1>2. /\ LensNumbers /\ m \in Nat /\ g \in Nat \ {0} /\ m % g = 0
      /\ \A i : Members(i) = Block(i, g)
  BY BatchShape, Zenon DEF MicroInv
<1>3. bs = B
  <2>1. \A i \in 1 .. k : SamplesOf(Final[i]) = Increasing(Shares(Final, i, g))
    <3> SUFFICES ASSUME NEW i \in 1 .. k
                 PROVE  SamplesOf(Final[i]) = Increasing(Shares(Final, i, g))
      OBVIOUS
    <3> DEFINE t == Final[i].items
    <3>1. DOMAIN t = 1 .. Len(t)
      BY <1>1, LenProperties DEF Bins
    <3>2. {Members(t[a]) : a \in DOMAIN t} = {Block(t[a], g) : a \in 1 .. Len(t)}
      BY <1>2, <3>1
    <3> QED BY <3>2 DEF SamplesOf, Shares
  <2> QED BY <2>1 DEF Dealt
<1> HIDE DEF g, m
<1>4. Deals(B, k, m)
  BY <1>1, <1>2, DealtDeals
<1>5. \A i \in 1 .. k : B[i] # <<>>
  BY <1>1, <1>2, DealtFilled
<1> HIDE DEF bs, B
<1>6. /\ caller \in {"micro", "grouped"} => batches' = EndsSmall(MicroOrder(bs))
      /\ caller = "ranks" => batches' = [r \in 1 .. k |-> RankOrder(bs[r])]
      /\ caller = "prefix" => batches' = bs
  BY DEF Arrange, bs
<1>7. caller \in {"micro", "grouped", "ranks", "prefix"}
  BY MicroAssumption DEF MicroInv, BatchInv
<1>8. CASE caller \in {"micro", "grouped"}
  <2>1. PICK p : Permutes(p, k) /\ EndsSmall(MicroOrder(B)) = [i \in 1 .. k |-> B[p[i]]]
    BY <1>1, <1>2, <1>4, <1>5, MicroOrderPermutes DEF m
  <2>2. batches' = [i \in 1 .. k |-> B[p[i]]]
    BY <1>3, <1>6, <1>8, <2>1
  <2>3. Deals(batches', k, m)
    BY <1>1, <1>4, <2>1, <2>2, DealsPermuted
  <2> QED BY <1>1, <2>1, <2>2, <2>3 DEF B, m, g
<1>9. CASE caller = "prefix"
  <2>1. Permutes(id, k)
    BY DEF Permutes
  <2>2. B = [i \in 1 .. k |-> B[id[i]]]
    BY <1>4 DEF Deals
  <2>3. batches' = B
    BY <1>3, <1>6, <1>9
  <2> HIDE DEF id
  <2>4. batches' = [i \in 1 .. k |-> B[id[i]]]
    BY <2>2, <2>3
  <2> QED BY <1>1, <1>4, <2>1, <2>3, <2>4 DEF B, m, g
<1>10. CASE caller = "ranks"
  <2> DEFINE C == [r \in 1 .. k |-> RankOrder(B[r])]
  <2>1. batches' = C
    BY <1>3, <1>6, <1>10
  <2>2. ASSUME NEW i \in 1 .. k
        PROVE  /\ C[i] \in Seq(1 .. m)
               /\ \A x : (\E a : Put(B, i, a, x)) <=> (\E a : Put(C, i, a, x))
               /\ \A a, b, x : Put(C, i, a, x) /\ Put(C, i, b, x) => a = b
    <3> DEFINE b == B[i]
               t == RankOrder(b)
    <3>1. b \in Seq(1 .. m)
      BY <1>4 DEF Deals
    <3>2. C[i] = t
      OBVIOUS
    <3> HIDE DEF b, C
    <3>3. /\ t \in Seq(1 .. m)
          /\ \A x : (\E a : a \in 1 .. Len(b) /\ b[a] = x)
                      <=> (\E a : a \in 1 .. Len(t) /\ t[a] = x)
          /\ \A a, c, x : a \in 1 .. Len(t) /\ t[a] = x /\ c \in 1 .. Len(t) /\ t[c] = x
                            => a = c
      BY <1>2, <3>1, RankOrderSame DEF m
    <3> HIDE DEF t
    <3> QED BY <3>2, <3>3, Zenon DEF Put, b
  <2>3. C \in [1 .. k -> Seq(1 .. m)]
    BY <2>2
  <2> HIDE DEF C
  <2>4. Deals(C, k, m)
    BY <1>1, <1>4, <2>2, <2>3, DealsWithin
  <2> QED BY <1>1, <1>10, <2>1, <2>4 DEF m
<1> QED BY <1>7, <1>8, <1>9, <1>10

(* ... so that all come back, and groups in one piece.                       *)
LEMMA ArrangeRight ==
  ASSUME MicroInv, Arrange
  PROVE  Restored' /\ GroupsTogether'
<1> DEFINE m == Len(lens)
           g == Group
           B == Dealt(Final, k, g)
<1>1. /\ k \in Nat \ {0} /\ Deals(batches', k, m)
      /\ caller \in {"grouped", "prefix"} =>
           \E p : Permutes(p, k) /\ batches' = [i \in 1 .. k |-> B[p[i]]]
  BY ArrangeDeals, Zenon
<1>2. /\ m \in Nat /\ g \in Nat \ {0} /\ m % g = 0 /\ Items = 1 .. m \div g
      /\ DOMAIN lens = 1 .. m
  BY BatchShape, Zenon DEF MicroInv
<1>3. lens' = lens /\ Group' = g /\ Items' = Items /\ caller' = caller
  BY DEF Arrange, Group, Items
<1>4. /\ Bins(Final, k, m \div g) /\ Covers({Final}, k, m \div g)
  BY FinalHolds, Zenon DEF Arrange
<1>5. Restored'
  <2> HIDE DEF m
  <2>1. Renumbers(FlattenSeq(batches'), m)
    BY <1>1, <1>2, FlattenRenumbers
  <2>2. Indices' = FlattenSeq(batches')
    BY DEF Indices
  <2>3. Len(Indices') = m /\ \A x \in 1 .. m : Indices'[ReverseIdx(Indices')[x]] = x
    BY <1>2, <2>1, <2>2, ReverseRestores
  <2> QED BY <1>2, <1>3, <2>3, Zenon DEF Restored, m
<1>6. ASSUME g > 1, NEW i \in Items
      PROVE  \E b \in DOMAIN batches' : Together(batches'[b], (i - 1) * g, g)
  <2>1. caller \in {"grouped", "prefix"}
    BY <1>6 DEF Group
  <2>2. PICK p : Permutes(p, k) /\ batches' = [j \in 1 .. k |-> B[p[j]]]
    BY <1>1, <2>1
  <2> HIDE DEF g, m
  <2>3. \E j \in 1 .. k : Together(B[j], (i - 1) * g, g)
    BY <1>1, <1>2, <1>4, DealtTogether
  <2>4. PICK j \in 1 .. k : Together(B[j], (i - 1) * g, g)
    BY <2>3
  <2>5. PICK b \in 1 .. k : p[b] = j
    BY <2>2 DEF Permutes
  <2> HIDE DEF B
  <2>6. b \in DOMAIN batches' /\ batches'[b] = B[j]
    BY <2>2, <2>5
  <2> QED BY <2>4, <2>6
<1>7. GroupsTogether'
  <2> HIDE DEF g
  <2> QED BY <1>3, <1>6, Zenon DEF GroupsTogether, Together
<1> QED BY <1>5, <1>7

(* The invariant.                                                            *)
LEMMA MicroInitInv == MicroInit => MicroInv
<1> SUFFICES ASSUME MicroInit PROVE MicroInv
  OBVIOUS
<1>1. KKInv /\ ItemInv
  BY KKInitInv, ItemInit DEF MicroInit
<1>2. BatchInv /\ phase = "called" /\ heap = {}
  BY DEF MicroInit, BatchInv, KKInit
<1> QED BY <1>1, <1>2 DEF MicroInv, Restored, GroupsTogether

(* No step breaks it.                                                       *)
LEMMA MicroNextInv == MicroInv /\ [MicroNext]_vars => MicroInv'
<1> SUFFICES ASSUME MicroInv, [MicroNext]_vars PROVE MicroInv'
  OBVIOUS
<1>1. KKInv' /\ ItemInv'
  BY MicroStep, KKNextInv, ItemNext DEF MicroInv
<1>2. UNCHANGED <<caller, lens>>
  BY CallersStart DEF MicroNext, MergeHeap, Arrange, callvars, vars
<1>3. BatchInv'
  BY <1>2 DEF MicroInv, BatchInv
<1>4. Items' = Items
  BY <1>2 DEF Items, Group
<1>5. CASE SplitByTokens \/ BalanceBatch
  BY <1>1, <1>3, <1>5, CallersStart DEF MicroInv, Restored, GroupsTogether
<1>6. CASE MergeHeap
  <2>1. phase = "merging" /\ phase' = "merging" /\ weight' = weight
    BY <1>6 DEF MergeHeap, Merge, callvars
  <2>2. Len(weight') = Cardinality(Items')
    BY <1>4, <2>1 DEF MicroInv
  <2> QED BY <1>1, <1>3, <2>1, <2>2 DEF MicroInv, Restored, GroupsTogether
<1>7. CASE Arrange
  <2>1. phase' = "done"
    BY <1>7 DEF Arrange
  <2> QED BY <1>1, <1>3, <1>7, <2>1, ArrangeRight DEF MicroInv
<1>8. CASE UNCHANGED vars
  <2>1. UNCHANGED <<phase, heap, weight, lens, caller, batches>>
    BY <1>8 DEF vars, kkvars, callvars
  <2>2. Restored' /\ GroupsTogether'
    BY <2>1 DEF MicroInv, Restored, GroupsTogether, Indices, Items, Group
  <2> QED BY <1>1, <1>3, <1>4, <2>1, <2>2 DEF MicroInv
<1> QED BY <1>5, <1>6, <1>7, <1>8 DEF MicroNext

(* What the callers pass to karmarkar_karp, it accepts: at least one         *)
(* partition, as many items, weights that are natural numbers.               *)
LEMMA CallersPartition == MicroSpec => KKSpec
<1>1. MicroInit => KKInit
  BY DEF MicroInit
<1> QED BY <1>1, MicroInitInv, MicroNextInv, MicroStep, PTL DEF MicroSpec, KKSpec

(* So for every batch, token budget, divisor, group size and number of ranks *)
(* the partitions that become micro-batches and shares of ranks hold         *)
(* at least one item, those of _balance_batch as many each, and the heaviest *)
(* outweighs the lightest by no more than the weight of one item             *)
(* (seqlen_balancing.py:183-197, 226-261).                                   *)
THEOREM BatchesBalanced == MicroSpec => [](BalancedHeap /\ PartitionsSound)
<1> QED BY CallersPartition, Balanced, PartitionsRight, PTL

(* Every sample gets its own output back, however the batch was balanced,    *)
(* grouped and reordered.                                                    *)
THEOREM SamplesRestored == MicroSpec => []Restored
<1>1. MicroInv => Restored
  BY DEF MicroInv
<1> QED BY <1>1, MicroInitInv, MicroNextInv, PTL DEF MicroSpec

(* Samples of one group, and of one uid, stay together and in order.         *)
THEOREM GroupsStay == MicroSpec => []GroupsTogether
<1>1. MicroInv => GroupsTogether
  BY DEF MicroInv
<1> QED BY <1>1, MicroInitInv, MicroNextInv, PTL DEF MicroSpec
=============================================================================
