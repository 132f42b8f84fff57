--------------------------- MODULE VoteRiskProofs ---------------------------
(***************************************************************************)
(* Theorems about VoteRisk for groups of any size, any advantages, any      *)
(* equivalence checker and any number of draws.  First what a sum over a    *)
(* finite set does; then that the closed form of the risk counts draws of   *)
(* ballots, and grows with the votes; then what shaping a group does.       *)
(***************************************************************************)
EXTENDS VoteRisk, FiniteSetTheorems, SequenceTheorems, TLAPS

(* Induction over the subsets of a finite set, Good being those of which    *)
(* the claim holds.                                                         *)
LEMMA SubsetInduction ==
  ASSUME NEW S, IsFiniteSet(S), NEW Good,
         \A T \in SUBSET S : (\A U \in SUBSET T : U # T => U \in Good) => T \in Good
  PROVE  S \in Good
<1> DEFINE Bad == (SUBSET S) \ Good
<1>1. SUFFICES ASSUME Bad # {} PROVE FALSE
  OBVIOUS
<1>2. IsWellFoundedOn(StrictSubsetOrdering(S), SUBSET S)
  BY FS_StrictSubsetOrderingWellFounded, FS_FiniteSubsetsOfFinite
<1>3. PICK T \in Bad : \A U \in Bad : ~ (<<U, T>> \in StrictSubsetOrdering(S))
  <2>1. Bad \subseteq SUBSET S
    OBVIOUS
  <2> HIDE DEF Bad
  <2> QED BY <1>1, <1>2, <2>1, WFMin
<1>4. \A U \in SUBSET T : U # T => U \in Good
  BY <1>3 DEF StrictSubsetOrdering
<1> QED BY <1>3, <1>4

(* Sums: of a function over a set, the sums over all its subsets are given  *)
(* by one function.                                                         *)
OneOf(s) == CHOOSE x \in s : TRUE
IsSums(f, S, sums) ==
  sums = [s \in SUBSET S |-> IF s = {} THEN 0 ELSE f[OneOf(s)] + sums[s \ {OneOf(s)}]]
SumsOf(f, S) == CHOOSE sums : IsSums(f, S, sums)

(* The sum is what that function says of the whole set.                     *)
LEMMA SumIs == \A f, S : SumFunctionOnSet(f, S) = SumsOf(f, S)[S]
BY Zenon DEF SumFunctionOnSet, FoldFunctionOnSet, MapThenFoldSet, SumsOf, IsSums, OneOf

(* Those functions agree on a smaller set.                                  *)
LEMMA SumsAgree ==
  ASSUME NEW S, IsFiniteSet(S), NEW f, NEW a, IsSums(f, S, a),
         NEW U \in SUBSET S, NEW b, IsSums(f, U, b)
  PROVE  a[U] = b[U]
<1> DEFINE Good == {T \in SUBSET U : a[T] = b[T]}
<1>1. IsFiniteSet(U)
  BY FS_Subset
<1>2. ASSUME NEW T \in SUBSET U, \A V \in SUBSET T : V # T => V \in Good
      PROVE  T \in Good
  <2> DEFINE c == OneOf(T)
  <2>1. /\ a[T] = IF T = {} THEN 0 ELSE f[c] + a[T \ {c}]
        /\ b[T] = IF T = {} THEN 0 ELSE f[c] + b[T \ {c}]
    BY DEF IsSums
  <2>2. T # {} => c \in T
    BY DEF OneOf
  <2>3. T # {} => T \ {c} \in Good
    BY <1>2, <2>2
  <2> QED BY <2>1, <2>3
<1>3. U \in Good
  <2> HIDE DEF Good
  <2> QED BY <1>1, <1>2, SubsetInduction
<1> QED BY <1>3

(* The function exists: the CHOOSE of the library finds one.                *)
LEMMA SumsExist ==
  ASSUME NEW S, IsFiniteSet(S), NEW f
  PROVE  IsSums(f, S, SumsOf(f, S))
<1> DEFINE Good == {T \in SUBSET S : IsSums(f, T, SumsOf(f, T))}
<1>1. ASSUME NEW T \in SUBSET S, \A V \in SUBSET T : V # T => V \in Good
      PROVE  T \in Good
  <2> DEFINE c == OneOf(T)
             part == [s \in SUBSET T |-> SumsOf(f, s)[s]]
             whole == [s \in SUBSET T |-> IF s # T THEN part[s]
                                          ELSE IF T = {} THEN 0 ELSE f[c] + part[T \ {c}]]
  <2>1. T # {} => c \in T
    BY DEF OneOf
  <2>2. ASSUME NEW s \in SUBSET T, s # T, s # {}
        PROVE  part[s] = f[OneOf(s)] + part[s \ {OneOf(s)}]
    <3> DEFINE d == OneOf(s)
               r == s \ {d}
    <3>1. IsSums(f, s, SumsOf(f, s)) /\ IsFiniteSet(s)
      BY <1>1, <2>2, FS_Subset
    <3>2. d \in s
      BY <2>2 DEF OneOf
    <3>3. r \in SUBSET s /\ r \in SUBSET T /\ r # T
      BY <2>2
    <3>4. IsSums(f, r, SumsOf(f, r))
      BY <1>1, <3>3
    <3>5. SumsOf(f, s)[r] = SumsOf(f, r)[r]
      BY <3>1, <3>3, <3>4, SumsAgree
    <3>6. SumsOf(f, s)[s] = f[d] + SumsOf(f, s)[r]
      <4> DEFINE a == SumsOf(f, s)
      <4>1. a = [u \in SUBSET s |-> IF u = {} THEN 0 ELSE f[OneOf(u)] + a[u \ {OneOf(u)}]]
        BY <3>1 DEF IsSums
      <4>2. s \in SUBSET s
        OBVIOUS
      <4> HIDE DEF a
      <4> QED BY <2>2, <4>1, <4>2 DEF a
    <3> QED BY <3>3, <3>5, <3>6
  <2>3. ASSUME {} # T PROVE part[{}] = 0
    <3>1. IsSums(f, {}, SumsOf(f, {}))
      BY <1>1, <2>3
    <3> DEFINE a == SumsOf(f, {})
    <3>2. a = [u \in SUBSET {} |-> IF u = {} THEN 0 ELSE f[OneOf(u)] + a[u \ {OneOf(u)}]]
      BY <3>1 DEF IsSums
    <3>3. {} \in SUBSET {}
      OBVIOUS
    <3> HIDE DEF a
    <3>4. a[{}] = 0
      BY <3>2, <3>3
    <3> QED BY <3>4 DEF a
  <2>4. \A s \in SUBSET T : whole[s] =
          IF s = {} THEN 0 ELSE f[OneOf(s)] + whole[s \ {OneOf(s)}]
    <3> SUFFICES ASSUME NEW s \in SUBSET T
                 PROVE  whole[s] = IF s = {} THEN 0 ELSE f[OneOf(s)] + whole[s \ {OneOf(s)}]
      OBVIOUS
    <3>1. CASE s = {}
      BY <2>3, <3>1
    <3>2. CASE s # {}
      <4>1. OneOf(s) \in s
        BY <3>2 DEF OneOf
      <4>2. s \ {OneOf(s)} \in SUBSET T /\ s \ {OneOf(s)} # T
        BY <4>1
      <4>3. whole[s \ {OneOf(s)}] = part[s \ {OneOf(s)}]
        BY <4>2
      <4>4. CASE s = T
        BY <3>2, <4>3, <4>4
      <4>5. CASE s # T
        <5>1. whole[s] = part[s]
          BY <4>5
        <5> HIDE DEF part, whole
        <5> QED BY <2>2, <3>2, <4>3, <4>5, <5>1
      <4> QED BY <4>4, <4>5
    <3> QED BY <3>1, <3>2
  <2>5. IsSums(f, T, whole)
    <3>1. whole = [s \in SUBSET T |-> whole[s]]
      OBVIOUS
    <3> HIDE DEF whole
    <3> QED BY <2>4, <3>1 DEF IsSums
  <2> HIDE DEF whole
  <2>6. IsSums(f, T, SumsOf(f, T))
    BY <2>5, Zenon DEF SumsOf
  <2> QED BY <2>6
<1>2. S \in Good
  <2> HIDE DEF Good
  <2> QED BY <1>1, SubsetInduction
<1> QED BY <1>2

(* Nothing sums to 0.                                                       *)
LEMMA SumEmpty == \A f : SumFunctionOnSet(f, {}) = 0
<1> SUFFICES ASSUME NEW f PROVE SumFunctionOnSet(f, {}) = 0
  OBVIOUS
<1> DEFINE a == SumsOf(f, {})
<1>1. IsSums(f, {}, a)
  BY SumsExist, FS_EmptySet
<1> HIDE DEF a
<1>2. a[{}] = 0
  BY <1>1 DEF IsSums
<1> QED BY <1>2, SumIs DEF a

(* The element the fold takes first ...                                     *)
LEMMA SumFirst ==
  ASSUME NEW S, IsFiniteSet(S), S # {}, NEW f
  PROVE  SumFunctionOnSet(f, S) = f[OneOf(S)] + SumFunctionOnSet(f, S \ {OneOf(S)})
<1> DEFINE c == OneOf(S)
           r == S \ {c}
           a == SumsOf(f, S)
           b == SumsOf(f, r)
<1>1. c \in S
  BY DEF OneOf
<1>2. r \in SUBSET S /\ IsFiniteSet(r)
  BY FS_Subset
<1>3. IsSums(f, S, a) /\ IsSums(f, r, b)
  BY <1>2, SumsExist
<1>4. a[r] = b[r]
  BY <1>2, <1>3, SumsAgree
<1>5. a[S] = f[c] + a[r]
  <2> HIDE DEF a
  <2> QED BY <1>3 DEF IsSums
<1> QED BY <1>4, <1>5, SumIs

(* A sum of integers is one.                                                *)
LEMMA SumType ==
  ASSUME NEW S, IsFiniteSet(S), NEW f, \A x \in S : f[x] \in Int
  PROVE  SumFunctionOnSet(f, S) \in Int
<1> DEFINE Good == {T \in SUBSET S : SumFunctionOnSet(f, T) \in Int}
<1>1. ASSUME NEW T \in SUBSET S, \A V \in SUBSET T : V # T => V \in Good
      PROVE  T \in Good
  <2> DEFINE c == OneOf(T)
             r == T \ {c}
  <2>1. CASE T = {}
    BY <2>1, SumEmpty
  <2>2. CASE T # {}
    <3>1. c \in T /\ IsFiniteSet(T)
      BY <2>2, FS_Subset DEF OneOf
    <3>2. r \in Good
      BY <1>1, <3>1
    <3>3. SumFunctionOnSet(f, T) = f[c] + SumFunctionOnSet(f, r)
      BY <2>2, <3>1, SumFirst
    <3>4. f[c] \in Int /\ SumFunctionOnSet(f, r) \in Int
      BY <3>1, <3>2
    <3> HIDE DEF c, r
    <3> QED BY <3>3, <3>4
  <2> QED BY <2>1, <2>2
<1> HIDE DEF Good
<1>2. S \in Good
  BY <1>1, SubsetInduction
<1> QED BY <1>2 DEF Good

(* ... might as well be any other.                                          *)
LEMMA SumRemove ==
  ASSUME NEW S, IsFiniteSet(S), NEW f, \A x \in S : f[x] \in Int, NEW e \in S
  PROVE  SumFunctionOnSet(f, S) = f[e] + SumFunctionOnSet(f, S \ {e})
<1> DEFINE Good == {T \in SUBSET S : \A x \in T :
                      SumFunctionOnSet(f, T) = f[x] + SumFunctionOnSet(f, T \ {x})}
<1>1. ASSUME NEW T \in SUBSET S, \A V \in SUBSET T : V # T => V \in Good
      PROVE  T \in Good
  <2> SUFFICES ASSUME NEW x \in T
               PROVE  SumFunctionOnSet(f, T) = f[x] + SumFunctionOnSet(f, T \ {x})
    OBVIOUS
  <2> DEFINE c == OneOf(T)
             r == T \ {c}
             q == T \ {x}
             p == r \ {x}
  <2>1. c \in T /\ IsFiniteSet(T) /\ IsFiniteSet(q)
    BY FS_Subset DEF OneOf
  <2>2. SumFunctionOnSet(f, T) = f[c] + SumFunctionOnSet(f, r)
    BY <2>1, SumFirst
  <2>3. CASE x = c
    BY <2>2, <2>3
  <2>4. CASE x # c
    <3>1. r \in Good /\ x \in r
      BY <1>1, <2>1, <2>4
    <3>2. SumFunctionOnSet(f, r) = f[x] + SumFunctionOnSet(f, p)
      BY <3>1
    <3>3. q \in Good /\ c \in q /\ q \ {c} = p
      BY <1>1, <2>1, <2>4
    <3>4. SumFunctionOnSet(f, q) = f[c] + SumFunctionOnSet(f, p)
      <4>1. SumFunctionOnSet(f, q) = f[c] + SumFunctionOnSet(f, q \ {c})
        BY <3>3
      <4> QED BY <3>3, <4>1
    <3>5. f[x] \in Int /\ f[c] \in Int
      BY <2>1
    <3>6. SumFunctionOnSet(f, p) \in Int
      <4>1. IsFiniteSet(p) /\ \A y \in p : f[y] \in Int
        BY FS_Subset, <2>1
      <4> QED BY <4>1, SumType
    <3> HIDE DEF c, r, q, p
    <3>7. SumFunctionOnSet(f, T) = f[x] + SumFunctionOnSet(f, q)
      BY <2>2, <3>2, <3>4, <3>5, <3>6
    <3> QED BY <3>7 DEF q
  <2> QED BY <2>3, <2>4
<1> HIDE DEF Good
<1>2. S \in Good
  BY <1>1, SubsetInduction
<1> QED BY <1>2 DEF Good

(* A sum of a * f + b. *)
LEMMA SumAffine ==
  ASSUME NEW S, IsFiniteSet(S), NEW a \in Int, NEW b \in Int, NEW f, NEW g,
         \A x \in S : f[x] \in Int /\ g[x] = a * f[x] + b
  PROVE  SumFunctionOnSet(g, S) = a * SumFunctionOnSet(f, S) + b * Cardinality(S)
<1> DEFINE Good == {T \in SUBSET S :
              SumFunctionOnSet(g, T) = a * SumFunctionOnSet(f, T) + b * Cardinality(T)}
<1>0. \A x, y, z, n \in Int : (a * x + b) + (a * y + b * z) = a * (x + y) + b * (z + 1)
  OBVIOUS
<1>1. ASSUME NEW T \in SUBSET S, \A V \in SUBSET T : V # T => V \in Good
      PROVE  T \in Good
  <2> DEFINE c == OneOf(T)
             r == T \ {c}
  <2>1. CASE T = {}
    BY <2>1, SumEmpty, FS_EmptySet
  <2>2. CASE T # {}
    <3>1. c \in T /\ IsFiniteSet(T) /\ IsFiniteSet(r)
      BY <2>2, FS_Subset DEF OneOf
    <3>2. SumFunctionOnSet(g, r) = a * SumFunctionOnSet(f, r) + b * Cardinality(r)
      BY <1>1, <3>1
    <3>3. /\ SumFunctionOnSet(f, T) = f[c] + SumFunctionOnSet(f, r)
          /\ SumFunctionOnSet(g, T) = g[c] + SumFunctionOnSet(g, r)
      BY <2>2, <3>1, SumFirst
    <3>4. Cardinality(T) = Cardinality(r) + 1 /\ Cardinality(r) \in Int
      <4>1. Cardinality(r) = Cardinality(T) - 1 /\ Cardinality(T) \in Nat
        BY <3>1, FS_RemoveElement, FS_CardinalityType
      <4> QED BY <4>1
    <3>5. f[c] \in Int /\ g[c] = a * f[c] + b /\ SumFunctionOnSet(f, r) \in Int
      <4>1. \A y \in r : f[y] \in Int
        OBVIOUS
      <4> QED BY <3>1, <4>1, SumType
    <3> DEFINE x == f[c]
               y == SumFunctionOnSet(f, r)
               z == Cardinality(r)
    <3>6. /\ x \in Int /\ y \in Int /\ z \in Int
          /\ SumFunctionOnSet(g, T) = (a * x + b) + (a * y + b * z)
          /\ a * SumFunctionOnSet(f, T) + b * Cardinality(T) = a * (x + y) + b * (z + 1)
      BY <3>2, <3>3, <3>4, <3>5
    <3> HIDE DEF x, y, z
    <3>7. (a * x + b) + (a * y + b * z) = a * (x + y) + b * (z + 1)
      BY <1>0, <3>6
    <3>8. SumFunctionOnSet(g, T) = a * SumFunctionOnSet(f, T) + b * Cardinality(T)
      BY <3>6, <3>7, Zenon
    <3> QED BY <3>8
  <2> QED BY <2>1, <2>2
<1> HIDE DEF Good
<1>2. S \in Good
  BY <1>1, SubsetInduction
<1> QED BY <1>2 DEF Good

(* Equal functions have equal sums.                                         *)
LEMMA SumSame ==
  ASSUME NEW S, IsFiniteSet(S), NEW f, NEW g,
         \A x \in S : f[x] \in Int /\ g[x] = f[x]
  PROVE  SumFunctionOnSet(g, S) = SumFunctionOnSet(f, S)
<1>1. \A x \in S : f[x] \in Int /\ g[x] = 1 * f[x] + 0
  OBVIOUS
<1>2. SumFunctionOnSet(g, S) = 1 * SumFunctionOnSet(f, S) + 0 * Cardinality(S)
  BY <1>1, SumAffine
<1>3. SumFunctionOnSet(f, S) \in Int /\ Cardinality(S) \in Int
  BY SumType, FS_CardinalityType
<1> QED BY <1>2, <1>3

(* What is 0 adds nothing. *)
LEMMA SumZeros ==
  ASSUME NEW S, IsFiniteSet(S), NEW W \in SUBSET S, NEW f,
         \A x \in S : f[x] \in Int, \A x \in S \ W : f[x] = 0
  PROVE  SumFunctionOnSet(f, S) = SumFunctionOnSet(f, W)
<1> DEFINE Good == {T \in SUBSET S : SumFunctionOnSet(f, T) = SumFunctionOnSet(f, T \cap W)}
<1>1. ASSUME NEW T \in SUBSET S, \A V \in SUBSET T : V # T => V \in Good
      PROVE  T \in Good
  <2>1. CASE T \subseteq W
    <3>1. T \cap W = T
      BY <2>1
    <3> QED BY <3>1
  <2>2. CASE ~ T \subseteq W
    <3>1. PICK e \in T : e \notin W
      BY <2>2
    <3> DEFINE r == T \ {e}
    <3>2. r \in Good /\ r \cap W = T \cap W
      BY <1>1, <3>1
    <3>3. IsFiniteSet(T) /\ IsFiniteSet(r)
      BY FS_Subset
    <3>4. SumFunctionOnSet(f, T) = f[e] + SumFunctionOnSet(f, r)
      BY <3>3, SumRemove
    <3>5. f[e] = 0 /\ SumFunctionOnSet(f, r) \in Int
      BY <3>1, <3>3, SumType
    <3>6. SumFunctionOnSet(f, r) = SumFunctionOnSet(f, r \cap W)
      BY <3>2
    <3>7. r \cap W = T \cap W
      BY <3>2
    <3> HIDE DEF r
    <3>8. SumFunctionOnSet(f, T) = SumFunctionOnSet(f, r)
      BY <3>4, <3>5
    <3>9. SumFunctionOnSet(f, T) = SumFunctionOnSet(f, T \cap W)
      BY <3>6, <3>7, <3>8, Zenon
    <3> QED BY <3>9
  <2> QED BY <2>1, <2>2
<1> HIDE DEF Good
<1>2. S \in Good
  BY <1>1, SubsetInduction
<1>3. S \cap W = W
  OBVIOUS
<1> QED BY <1>2, <1>3 DEF Good

(* How often a function takes value m. *)
Times(r, T, m) == Cardinality({x \in T : r[x] = m})

(* A sum over the values of r, each as often as r takes it, is the sum over *)
(* what r is applied to.                                                    *)
LEMMA SumRegroup ==
  ASSUME NEW S, IsFiniteSet(S), NEW M, IsFiniteSet(M), NEW r \in [S -> M],
         NEW f, \A m \in M : f[m] \in Int
  PROVE  SumFunctionOnSet([x \in S |-> f[r[x]]], S)
           = SumFunctionOnSet([m \in M |-> Times(r, S, m) * f[m]], M)
<1> DEFINE h == [x \in S |-> f[r[x]]]
           By(T) == [m \in M |-> Times(r, T, m) * f[m]]
           Good == {T \in SUBSET S : SumFunctionOnSet(h, T) = SumFunctionOnSet(By(T), M)}
<1>1. \A T \in SUBSET S : \A m \in M :
        IsFiniteSet(T) /\ Times(r, T, m) \in Nat /\ By(T)[m] = Times(r, T, m) * f[m]
        /\ By(T)[m] \in Int
  <2> SUFFICES ASSUME NEW T \in SUBSET S, NEW m \in M
               PROVE  /\ IsFiniteSet(T) /\ Times(r, T, m) \in Nat
                      /\ By(T)[m] = Times(r, T, m) * f[m] /\ By(T)[m] \in Int
    OBVIOUS
  <2>1. IsFiniteSet(T) /\ IsFiniteSet({x \in T : r[x] = m})
    BY FS_Subset
  <2>2. Times(r, T, m) \in Nat
    BY <2>1, FS_CardinalityType DEF Times
  <2>3. f[m] \in Int
    OBVIOUS
  <2> QED BY <2>1, <2>2, <2>3
<1>2. ASSUME NEW T \in SUBSET S, \A V \in SUBSET T : V # T => V \in Good
      PROVE  T \in Good
  <2>1. CASE T = {}
    <3>1. \A m \in M : Times(r, T, m) = 0
      <4>1. \A m \in M : {x \in T : r[x] = m} = {}
        BY <2>1
      <4> QED BY <4>1, FS_EmptySet DEF Times
    <3>2. \A m \in M : By(T)[m] \in Int /\ By(T)[m] = 0
      BY <1>1, <3>1
    <3>3. SumFunctionOnSet(By(T), M) = SumFunctionOnSet(By(T), {})
      <4> HIDE DEF By
      <4> QED BY <3>2, SumZeros
    <3> QED BY <2>1, <3>3, SumEmpty
  <2>2. CASE T # {}
    <3>1. PICK e \in T : TRUE
      BY <2>2
    <3> DEFINE U == T \ {e}
               k == r[e]
               a == By(T)
               b == By(U)
    <3>2. k \in M /\ U \in SUBSET S /\ IsFiniteSet(T) /\ h[e] = f[k] /\ f[k] \in Int
      BY <1>1, FS_Subset
    <3>3. SumFunctionOnSet(h, T) = h[e] + SumFunctionOnSet(h, U)
      <4>1. \A x \in T : h[x] \in Int
        OBVIOUS
      <4> QED BY <3>2, <4>1, SumRemove
    <3>4. SumFunctionOnSet(h, U) = SumFunctionOnSet(b, M)
      BY <1>2, <3>1
    <3>5. Times(r, T, k) = Times(r, U, k) + 1
      <4>1. {x \in T : r[x] = k} \ {e} = {x \in U : r[x] = k}
        OBVIOUS
      <4>2. e \in {x \in T : r[x] = k} /\ IsFiniteSet({x \in T : r[x] = k})
        BY <3>2, FS_Subset
      <4>3. /\ Times(r, U, k) = Times(r, T, k) - 1
        BY <4>1, <4>2, FS_RemoveElement DEF Times
      <4>4. Times(r, T, k) \in Nat
        BY <1>1, <3>2
      <4> QED BY <4>3, <4>4
    <3>6. \A m \in M : m # k => Times(r, T, m) = Times(r, U, m)
      <4>1. \A m \in M : m # k => {x \in T : r[x] = m} = {x \in U : r[x] = m}
        OBVIOUS
      <4> QED BY <4>1 DEF Times
    <3>7. \A m \in M : a[m] \in Int /\ b[m] \in Int
      BY <1>1, <3>2
    <3>8. a[k] = b[k] + f[k]
      <4>1. Times(r, U, k) \in Nat
        BY <1>1, <3>2
      <4>2. a[k] = (Times(r, U, k) + 1) * f[k] /\ b[k] = Times(r, U, k) * f[k]
        BY <3>2, <3>5
      <4>3. \A n \in Nat : \A i \in Int : (n + 1) * i = n * i + i
        OBVIOUS
      <4> HIDE DEF a, b, k
      <4> QED BY <3>2, <4>1, <4>2, <4>3
    <3>9. \A m \in M \ {k} : a[m] = b[m]
      BY <1>1, <3>2, <3>6
    <3> HIDE DEF h, By, k, U, a, b
    <3>10. /\ SumFunctionOnSet(a, M) = a[k] + SumFunctionOnSet(a, M \ {k})
           /\ SumFunctionOnSet(b, M) = b[k] + SumFunctionOnSet(b, M \ {k})
      BY <3>2, <3>7, SumRemove
    <3>11. /\ SumFunctionOnSet(a, M \ {k}) = SumFunctionOnSet(b, M \ {k})
           /\ SumFunctionOnSet(b, M \ {k}) \in Int
      <4>1. IsFiniteSet(M \ {k})
        BY FS_Subset
      <4>2. \A m \in M \ {k} : b[m] \in Int /\ a[m] = b[m]
        BY <3>7, <3>9
      <4> QED BY <4>1, <4>2, SumSame, SumType
    <3>12. SumFunctionOnSet(h, T) = SumFunctionOnSet(a, M)
      BY <3>2, <3>3, <3>4, <3>7, <3>8, <3>10, <3>11
    <3> QED BY <3>12 DEF a
  <2> QED BY <2>1, <2>2
<1> HIDE DEF Good, h, By
<1>3. S \in Good
  BY <1>2, SubsetInduction
<1> QED BY <1>3 DEF Good, h, By

(* The same two facts, their functions named.                               *)
Affine(S, a, f, b, g) == \A x \in S : f[x] \in Int /\ g[x] = a * f[x] + b
IntegerOn(f, S) == \A x \in S : f[x] \in Int
Maps(r, S, M) == r \in [S -> M]
Along(f, r, S) == [x \in S |-> f[r[x]]]
Weighted(f, r, S, M) == [m \in M |-> Times(r, S, m) * f[m]]

(* SumAffine, so named.                                                     *)
LEMMA AffineSums ==
  ASSUME NEW S, NEW a, NEW f, NEW b, NEW g, Affine(S, a, f, b, g),
         IsFiniteSet(S), a \in Int, b \in Int
  PROVE  SumFunctionOnSet(g, S) = a * SumFunctionOnSet(f, S) + b * Cardinality(S)
<1>1. \A x \in S : f[x] \in Int /\ g[x] = a * f[x] + b
  BY DEF Affine
<1>2. a \in Int /\ b \in Int
  OBVIOUS
<1> QED BY <1>1, <1>2, SumAffine

(* SumRegroup, so named.                                                    *)
LEMMA RegroupedSums ==
  ASSUME NEW S, NEW M, NEW r, NEW f, Maps(r, S, M), IntegerOn(f, M),
         IsFiniteSet(S), IsFiniteSet(M)
  PROVE  SumFunctionOnSet(Along(f, r, S), S) = SumFunctionOnSet(Weighted(f, r, S, M), M)
<1>1. r \in [S -> M] /\ \A m \in M : f[m] \in Int
  BY DEF IntegerOn, Maps
<1>2. SumFunctionOnSet([x \in S |-> f[r[x]]], S)
        = SumFunctionOnSet([m \in M |-> Times(r, S, m) * f[m]], M)
  BY <1>1, SumRegroup
<1> QED BY <1>2 DEF Along, Weighted

(* A finite set of numbers that has one has a largest.                      *)
LEMMA Largest ==
  ASSUME NEW S, IsFiniteSet(S), S # {}, S \subseteq Int
  PROVE  \E x \in S : \A y \in S : x >= y
<1> DEFINE Good == {T \in SUBSET S : T # {} => \E x \in T : \A y \in T : x >= y}
<1>1. ASSUME NEW T \in SUBSET S, \A V \in SUBSET T : V # T => V \in Good
      PROVE  T \in Good
  <2> SUFFICES ASSUME T # {} PROVE \E x \in T : \A y \in T : x >= y
    OBVIOUS
  <2>1. PICK e \in T : TRUE
    OBVIOUS
  <2>2. T \ {e} \in Good
    BY <1>1, <2>1
  <2>3. CASE T \ {e} = {}
    BY <2>1, <2>3
  <2>4. CASE T \ {e} # {}
    <3>1. PICK x \in T \ {e} : \A y \in T \ {e} : x >= y
      BY <2>2, <2>4
    <3>2. x \in Int /\ e \in Int
      OBVIOUS
    <3>3. CASE x >= e
      BY <3>1, <3>3
    <3>4. CASE e > x
      BY <3>1, <3>2, <3>4
    <3> QED BY <3>2, <3>3, <3>4
  <2> QED BY <2>3, <2>4
<1> HIDE DEF Good
<1>2. S \in Good
  BY <1>1, SubsetInduction
<1> QED BY <1>2 DEF Good
(* A sum of numbers that are not negative is at least each of them.         *)
LEMMA SumAtLeast ==
  ASSUME NEW S, IsFiniteSet(S), NEW f, \A x \in S : f[x] \in Nat
  PROVE  /\ SumFunctionOnSet(f, S) \in Nat
         /\ \A x \in S : f[x] <= SumFunctionOnSet(f, S)
<1> DEFINE Good == {T \in SUBSET S : SumFunctionOnSet(f, T) \in Nat}
<1>1. ASSUME NEW T \in SUBSET S, \A V \in SUBSET T : V # T => V \in Good
      PROVE  T \in Good
  <2>1. CASE T = {}
    BY <2>1, SumEmpty
  <2>2. CASE T # {}
    <3>1. OneOf(T) \in T /\ IsFiniteSet(T)
      BY <2>2, FS_Subset DEF OneOf
    <3>2. SumFunctionOnSet(f, T) = f[OneOf(T)] + SumFunctionOnSet(f, T \ {OneOf(T)})
      BY <2>2, <3>1, SumFirst
    <3>3. f[OneOf(T)] \in Nat /\ SumFunctionOnSet(f, T \ {OneOf(T)}) \in Nat
      BY <1>1, <3>1
    <3>4. SumFunctionOnSet(f, T) \in Nat
      BY <3>2, <3>3
    <3> QED BY <3>4
  <2> QED BY <2>1, <2>2
<1>2. \A T \in SUBSET S : T \in Good
  <2> SUFFICES ASSUME NEW T \in SUBSET S PROVE T \in Good
    OBVIOUS
  <2>1. /\ IsFiniteSet(T)
        /\ \A U \in SUBSET T : (\A V \in SUBSET U : V # U => V \in Good) => U \in Good
    <3> HIDE DEF Good
    <3> QED BY <1>1, FS_Subset
  <2> HIDE DEF Good
  <2> QED BY <2>1, SubsetInduction
<1>3. ASSUME NEW x \in S PROVE f[x] <= SumFunctionOnSet(f, S)
  <2>1. SumFunctionOnSet(f, S) = f[x] + SumFunctionOnSet(f, S \ {x})
    BY SumRemove
  <2>2. SumFunctionOnSet(f, S \ {x}) \in Nat /\ f[x] \in Nat
    BY <1>2
  <2> QED BY <2>1, <2>2
<1> QED BY <1>2, <1>3

-----------------------------------------------------------------------------
(* Induction over the numbers, Good being those of which the claim holds.   *)
LEMMA NumberInduction ==
  ASSUME NEW Good, 0 \in Good, \A n \in Nat : n \in Good => n + 1 \in Good
  PROVE  \A n \in Nat : n \in Good
<1> SUFFICES ASSUME NEW n \in Nat PROVE n \in Good
  OBVIOUS
<1> DEFINE S == 0 .. n
           Fine == {T \in SUBSET S : \A j \in S : T = 0 .. j => j \in Good}
<1>1. IsFiniteSet(S)
  BY FS_Interval
<1>2. ASSUME NEW T \in SUBSET S, \A V \in SUBSET T : V # T => V \in Fine
      PROVE  T \in Fine
  <2> SUFFICES ASSUME NEW j \in S, T = 0 .. j PROVE j \in Good
    OBVIOUS
  <2>1. CASE j = 0
    BY <2>1
  <2>2. CASE j # 0
    <3>1. j - 1 \in S /\ j - 1 \in Nat /\ (j - 1) + 1 = j
      BY <2>2
    <3>2. 0 .. j - 1 \in SUBSET T /\ j \in T /\ j \notin 0 .. j - 1
      BY <2>2
    <3>3. 0 .. j - 1 \in Fine
      BY <1>2, <3>2
    <3> QED BY <3>1, <3>3
  <2> QED BY <2>1, <2>2
<1>3. S \in Fine
  <2> HIDE DEF S, Fine
  <2> QED BY <1>1, <1>2, SubsetInduction
<1> QED BY <1>3

(* A recursion over the numbers, up to n: step says how a value follows.    *)
IsRun(h, n, base, step) ==
  /\ h[0] = base
  /\ \A i \in 0 .. n - 1 : h[i + 1] = step[<<i + 1, h[i]>>]

IsRecursion(f, V, base, step) ==
  f \in [Nat -> V] /\ f[0] = base /\ \A n \in Nat : f[n + 1] = step[<<n + 1, f[n]>>]
IsStep(step, V) == step \in [Nat \X V -> V]

(* What a recursion over the numbers defines exists.                        *)
LEMMA Recursion ==
  ASSUME NEW V, NEW base, NEW step, base \in V, IsStep(step, V)
  PROVE  \E f : IsRecursion(f, V, base, step)
<1>0. step \in [Nat \X V -> V]
  BY DEF IsStep
<1> DEFINE Runs(n) == {h \in [0 .. n -> V] : IsRun(h, n, base, step)}
           Good == {n \in Nat : Runs(n) # {}}
<1>1. 0 \in Good
  <2>1. [i \in 0 .. 0 |-> base] \in Runs(0)
    BY DEF IsRun
  <2> QED BY <2>1
<1>2. ASSUME NEW n \in Nat, n \in Good PROVE n + 1 \in Good
  <2>1. PICK h \in [0 .. n -> V] : IsRun(h, n, base, step)
    BY <1>2
  <2> DEFINE g == [i \in 0 .. n + 1 |-> IF i = n + 1 THEN step[<<n + 1, h[n]>>] ELSE h[i]]
  <2>2. g \in [0 .. n + 1 -> V]
    <3>1. step[<<n + 1, h[n]>>] \in V
      BY <1>0
    <3> QED BY <3>1
  <2>3. ASSUME NEW i \in 0 .. n PROVE g[i + 1] = step[<<i + 1, g[i]>>]
    <3>1. g[i] = h[i]
      OBVIOUS
    <3>2. CASE i = n
      <4>1. g[n + 1] = step[<<n + 1, h[n]>>] /\ g[n] = h[n]
        OBVIOUS
      <4> HIDE DEF g
      <4> QED BY <3>2, <4>1
    <3>3. CASE i # n
      <4>1. i \in 0 .. n - 1 /\ i + 1 # n + 1 /\ i + 1 \in 0 .. n + 1
        BY <3>3
      <4>2. h[i + 1] = step[<<i + 1, h[i]>>] /\ g[i + 1] = h[i + 1]
        BY <2>1, <4>1 DEF IsRun
      <4> QED BY <3>1, <4>2
    <3> QED BY <3>2, <3>3
  <2>4. g[0] = base
    BY <2>1 DEF IsRun
  <2>5. (n + 1) - 1 = n
    OBVIOUS
  <2> HIDE DEF g
  <2>6. g \in Runs(n + 1)
    BY <2>2, <2>3, <2>4, <2>5 DEF IsRun
  <2> QED BY <2>6
<1>3. \A n \in Nat : Runs(n) # {}
  <2>1. \A n \in Nat : n \in Good
    <3> HIDE DEF Good
    <3> QED BY <1>1, <1>2, NumberInduction
  <2> QED BY <2>1
<1> DEFINE Run(n) == CHOOSE h \in Runs(n) : TRUE
           f == [n \in Nat |-> Run(n)[n]]
<1>4. \A n \in Nat : Run(n) \in [0 .. n -> V] /\ IsRun(Run(n), n, base, step)
  BY <1>3
<1> HIDE DEF Run
<1>5. ASSUME NEW n \in Nat PROVE \A i \in Nat : i <= n => Run(n)[i] = Run(n + 1)[i]
  <2> DEFINE Same == {i \in Nat : i <= n => Run(n)[i] = Run(n + 1)[i]}
  <2>1. IsRun(Run(n), n, base, step) /\ IsRun(Run(n + 1), n + 1, base, step)
    BY <1>4
  <2>2. 0 \in Same
    BY <2>1 DEF IsRun
  <2>3. ASSUME NEW i \in Nat, i \in Same PROVE i + 1 \in Same
    <3>1. CASE i + 1 <= n
      <4>1. i \in 0 .. n - 1 /\ i \in 0 .. (n + 1) - 1 /\ i <= n
        BY <3>1
      <4>2. Run(n)[i + 1] = step[<<i + 1, Run(n)[i]>>]
        BY <2>1, <4>1 DEF IsRun
      <4>3. Run(n + 1)[i + 1] = step[<<i + 1, Run(n + 1)[i]>>]
        BY <2>1, <4>1 DEF IsRun
      <4> QED BY <2>3, <4>1, <4>2, <4>3
    <3> QED BY <3>1
  <2>4. \A i \in Nat : i \in Same
    <3> HIDE DEF Same
    <3> QED BY <2>2, <2>3, NumberInduction
  <2> QED BY <2>4
<1>6. f \in [Nat -> V]
  BY <1>4
<1>7. f[0] = base
  BY <1>4 DEF IsRun
<1>8. ASSUME NEW n \in Nat PROVE f[n + 1] = step[<<n + 1, f[n]>>]
  <2>1. n \in 0 .. (n + 1) - 1
    OBVIOUS
  <2>2. Run(n + 1)[n + 1] = step[<<n + 1, Run(n + 1)[n]>>]
    BY <1>4, <2>1 DEF IsRun
  <2>3. Run(n)[n] = Run(n + 1)[n]
    BY <1>5
  <2> QED BY <2>2, <2>3
<1> HIDE DEF f
<1> QED BY <1>6, <1>7, <1>8 DEF IsRecursion

(* Factorials and powers are what their recursions say.                     *)
LEMMA FactorialIs ==
  /\ factorial[0] = 1
  /\ \A n \in Nat : factorial[n] \in Nat \ {0} /\ factorial[n + 1] = (n + 1) * factorial[n]
<1> DEFINE Is(f) == f = [n \in Nat |-> IF n = 0 THEN 1 ELSE n * f[n - 1]]
           step == [p \in Nat \X Int |-> p[1] * p[2]]
<1>1. IsStep(step, Int)
  BY DEF IsStep
<1>2. \A n \in Nat : \A v \in Int : step[<<n, v>>] = n * v
  OBVIOUS
<1> HIDE DEF step
<1>3. PICK f : f \in [Nat -> Int] /\ f[0] = 1 /\ \A n \in Nat : f[n + 1] = step[<<n + 1, f[n]>>]
  <2>1. PICK f : IsRecursion(f, Int, 1, step)
    <3>1. 1 \in Int
      OBVIOUS
    <3> QED BY <1>1, <3>1, Recursion
  <2> QED BY <2>1 DEF IsRecursion
<1>4. \A n \in Nat : f[n] = IF n = 0 THEN 1 ELSE n * f[n - 1]
  <2> SUFFICES ASSUME NEW n \in Nat, n # 0 PROVE f[n] = n * f[n - 1]
    BY <1>3
  <2>1. n - 1 \in Nat /\ (n - 1) + 1 = n
    OBVIOUS
  <2>2. f[n] = step[<<n, f[n - 1]>>] /\ f[n - 1] \in Int
    BY <1>3, <2>1
  <2> QED BY <1>2, <2>2
<1>5. Is(f)
  BY <1>3, <1>4
<1>6. Is(factorial)
  BY <1>5, Zenon DEF factorial
<1>7. factorial[0] = 1 /\ \A n \in Nat : factorial[n + 1] = (n + 1) * factorial[n]
  <2> DEFINE a == factorial
  <2>1. a = [n \in Nat |-> IF n = 0 THEN 1 ELSE n * a[n - 1]]
    BY <1>6
  <2> HIDE DEF a
  <2>2. a[0] = 1
    BY <2>1
  <2>3. ASSUME NEW n \in Nat PROVE a[n + 1] = (n + 1) * a[n]
    <3>1. n + 1 \in Nat /\ n + 1 # 0 /\ (n + 1) - 1 = n
      OBVIOUS
    <3>2. a[n + 1] = (n + 1) * a[(n + 1) - 1]
      BY <2>1, <3>1
    <3> QED BY <3>1, <3>2
  <2> QED BY <2>2, <2>3 DEF a
<1> DEFINE Good == {n \in Nat : factorial[n] \in Nat \ {0}}
<1>8. 0 \in Good
  BY <1>7
<1>9. ASSUME NEW n \in Nat, n \in Good PROVE n + 1 \in Good
  <2>1. \A x, y \in Nat \ {0} : x * y \in Nat \ {0}
    OBVIOUS
  <2>2. n + 1 \in Nat \ {0} /\ factorial[n] \in Nat \ {0} /\ factorial[n + 1] = (n + 1) * factorial[n]
    BY <1>7, <1>9
  <2> QED BY <2>1, <2>2
<1>10. \A n \in Nat : n \in Good
  <2> HIDE DEF Good
  <2> QED BY <1>8, <1>9, NumberInduction
<1> QED BY <1>7, <1>10

(* So are powers.                                                           *)
LEMMA PowerIs ==
  ASSUME NEW x \in Int
  PROVE  /\ Power(x, 0) = 1
         /\ \A n \in Nat : Power(x, n) \in Int /\ Power(x, n + 1) = x * Power(x, n)
         /\ x >= 0 => \A n \in Nat : Power(x, n) >= 0
         /\ x > 0 => \A n \in Nat : Power(x, n) > 0
<1> DEFINE Is(f) == f = [i \in Nat |-> IF i = 0 THEN 1 ELSE x * f[i - 1]]
           p == CHOOSE f : Is(f)
           step == [q \in Nat \X Int |-> x * q[2]]
<1>1. IsStep(step, Int)
  BY DEF IsStep
<1>2. \A n \in Nat : \A v \in Int : step[<<n, v>>] = x * v
  OBVIOUS
<1> HIDE DEF step
<1>3. PICK f : f \in [Nat -> Int] /\ f[0] = 1 /\ \A n \in Nat : f[n + 1] = step[<<n + 1, f[n]>>]
  <2>1. PICK f : IsRecursion(f, Int, 1, step)
    <3>1. 1 \in Int
      OBVIOUS
    <3> QED BY <1>1, <3>1, Recursion
  <2> QED BY <2>1 DEF IsRecursion
<1>4. \A n \in Nat : f[n] = IF n = 0 THEN 1 ELSE x * f[n - 1]
  <2> SUFFICES ASSUME NEW n \in Nat, n # 0 PROVE f[n] = x * f[n - 1]
    BY <1>3
  <2>1. n - 1 \in Nat /\ (n - 1) + 1 = n
    OBVIOUS
  <2>2. f[n] = step[<<n, f[n - 1]>>] /\ f[n - 1] \in Int
    BY <1>3, <2>1
  <2> QED BY <1>2, <2>2
<1>5. Is(f)
  BY <1>3, <1>4
<1>6. Is(p)
  BY <1>5, Zenon
<1>7. \A n : Power(x, n) = p[n]
  BY Zenon DEF Power
<1> HIDE DEF p
<1>8. p[0] = 1 /\ \A n \in Nat : p[n + 1] = x * p[n]
  <2>1. p[0] = 1
    BY <1>6
  <2>2. ASSUME NEW n \in Nat PROVE p[n + 1] = x * p[n]
    <3>1. n + 1 \in Nat /\ n + 1 # 0 /\ (n + 1) - 1 = n
      OBVIOUS
    <3>2. p[n + 1] = x * p[(n + 1) - 1]
      BY <1>6, <3>1
    <3> QED BY <3>1, <3>2
  <2> QED BY <2>1, <2>2
<1> DEFINE Good == {n \in Nat : p[n] \in Int /\ (x >= 0 => p[n] >= 0) /\ (x > 0 => p[n] > 0)}
<1>9. 0 \in Good
  BY <1>8
<1>10. ASSUME NEW n \in Nat, n \in Good PROVE n + 1 \in Good
  <2>1. \A y \in Int : /\ x * y \in Int
                       /\ x >= 0 /\ y >= 0 => x * y >= 0
                       /\ x > 0 /\ y > 0 => x * y > 0
    OBVIOUS
  <2> QED BY <1>8, <1>10, <2>1
<1>11. \A n \in Nat : n \in Good
  <2> HIDE DEF Good
  <2> QED BY <1>9, <1>10, NumberInduction
<1> QED BY <1>7, <1>8, <1>11

(* A power of 1 is 1.                                                       *)
LEMMA PowerOfOne == \A n \in Nat : Power(1, n) = 1
<1> DEFINE Good == {n \in Nat : Power(1, n) = 1}
<1>1. 0 \in Good
  BY PowerIs
<1>2. ASSUME NEW n \in Nat, n \in Good PROVE n + 1 \in Good
  <2>1. Power(1, n + 1) = 1 * Power(1, n) /\ Power(1, n) = 1
    BY <1>2, PowerIs
  <2> QED BY <2>1
<1>3. \A n \in Nat : n \in Good
  <2> HIDE DEF Good
  <2> QED BY <1>1, <1>2, NumberInduction
<1> QED BY <1>3

-----------------------------------------------------------------------------
(* A product has its factor as quotient.                                    *)
LEMMA Quotient == \A p, d \in Nat : d # 0 => (p * d) \div d = p
OBVIOUS

(* What a binomial coefficient is: the quotient is exact, and follows from  *)
(* those of the row before.                                                 *)
IsChosen(n, k) ==
  /\ choose(n, k) \in Nat
  /\ choose(n, k) * (factorial[k] * factorial[n - k]) = factorial[n]

(* At the ends of a row it is 1.                                            *)
LEMMA ChooseEnds ==
  \A n \in Nat : /\ IsChosen(n, 0) /\ choose(n, 0) = 1
                 /\ IsChosen(n, n) /\ choose(n, n) = 1
<1> SUFFICES ASSUME NEW n \in Nat
             PROVE  /\ IsChosen(n, 0) /\ choose(n, 0) = 1
                    /\ IsChosen(n, n) /\ choose(n, n) = 1
  OBVIOUS
<1> DEFINE f == factorial[n]
<1>1. f \in Nat /\ f # 0 /\ factorial[0] = 1 /\ n - 0 = n /\ n - n = 0
  BY FactorialIs
<1>2. choose(n, 0) = f \div (1 * f) /\ choose(n, n) = f \div (f * 1)
  BY <1>1 DEF choose
<1>3. /\ choose(n, 0) * (factorial[0] * factorial[n - 0]) = choose(n, 0) * (1 * f)
      /\ choose(n, n) * (factorial[n] * factorial[n - n]) = choose(n, n) * (f * 1)
  BY <1>1
<1> HIDE DEF f
<1>4. 1 * f = f /\ f * 1 = f
  BY <1>1
<1>5. f \div f = 1
  <2>1. (1 * f) \div f = 1
    BY <1>1, Quotient
  <2> QED BY <1>4, <2>1
<1> QED BY <1>1, <1>2, <1>3, <1>4, <1>5 DEF IsChosen, f

(* Inside a row, it is the sum of the two above it.                         *)
LEMMA ChooseInside ==
  ASSUME NEW n \in Nat, NEW k \in 1 .. n, IsChosen(n, k - 1), IsChosen(n, k)
  PROVE  IsChosen(n + 1, k) /\ choose(n + 1, k) = choose(n, k - 1) + choose(n, k)
<1> DEFINE a == choose(n, k - 1)
           b == choose(n, k)
           f == factorial[n]
           i == factorial[k - 1]     (* (k-1)!                              *)
           j == factorial[n - k]     (* (n-k)!                              *)
           l == n + 1 - k
<1>1. k - 1 \in Nat /\ n - k \in Nat /\ (k - 1) + 1 = k /\ (n - k) + 1 = l /\ n - (k - 1) = l
      /\ k \in Nat /\ l \in Nat /\ k + l = n + 1 /\ k # 0 /\ l # 0
  OBVIOUS
<1>2. /\ f \in Nat /\ i \in Nat /\ j \in Nat /\ i # 0 /\ j # 0
      /\ factorial[k] = k * i /\ factorial[l] = l * j /\ factorial[n + 1] = (n + 1) * f
  <2>1. \A m \in Nat : factorial[m] \in Nat /\ factorial[m] # 0 /\ factorial[m + 1] = (m + 1) * factorial[m]
    BY FactorialIs
  <2>2. f \in Nat /\ factorial[n + 1] = (n + 1) * f
    BY <2>1
  <2>3. i \in Nat /\ i # 0 /\ factorial[(k - 1) + 1] = ((k - 1) + 1) * i
    BY <1>1, <2>1
  <2>4. j \in Nat /\ j # 0 /\ factorial[(n - k) + 1] = ((n - k) + 1) * j
    BY <1>1, <2>1
  <2> QED BY <1>1, <2>2, <2>3, <2>4
<1>3. a \in Nat /\ b \in Nat /\ a * (i * (l * j)) = f /\ b * ((k * i) * j) = f
  <2>1. a \in Nat /\ a * (i * factorial[n - (k - 1)]) = f
    BY DEF IsChosen
  <2>2. b \in Nat /\ b * (factorial[k] * j) = f
    BY DEF IsChosen
  <2> QED BY <1>1, <1>2, <2>1, <2>2
<1> DEFINE d == (k * i) * (l * j)
<1>4. choose(n + 1, k) = ((n + 1) * f) \div d
      /\ choose(n + 1, k) * (factorial[k] * factorial[(n + 1) - k]) = choose(n + 1, k) * d
      /\ factorial[n + 1] = (n + 1) * f
  BY <1>2 DEF choose
<1> HIDE DEF a, b, f, i, j, l
<1>5. (a + b) * d = (n + 1) * f
  <2>1. \A x, y, p, q, r, s \in Nat :
          (x + y) * ((p * q) * (r * s)) = p * (x * (q * (r * s))) + r * (y * ((p * q) * s))
    OBVIOUS
  <2>2. (a + b) * d = k * (a * (i * (l * j))) + l * (b * ((k * i) * j))
    <3>1. a \in Nat /\ b \in Nat /\ k \in Nat /\ i \in Nat /\ l \in Nat /\ j \in Nat
      BY <1>1, <1>2, <1>3
    <3> QED BY <3>1 DEF d
  <2>3. (a + b) * d = k * f + l * f
    BY <1>3, <2>2
  <2>4. \A x, y, z \in Nat : x * z + y * z = (x + y) * z
    OBVIOUS
  <2>5. k * f + l * f = (n + 1) * f
    BY <1>1, <1>2, <2>4
  <2> QED BY <2>3, <2>5
<1>6. d \in Nat /\ d # 0
  <2>1. \A x, y \in Nat : x # 0 /\ y # 0 => x * y \in Nat /\ x * y # 0
    OBVIOUS
  <2>2. k * i \in Nat /\ k * i # 0
    BY <1>1, <1>2, <2>1
  <2>3. l * j \in Nat /\ l * j # 0
    BY <1>1, <1>2, <2>1
  <2> QED BY <2>1, <2>2, <2>3
<1> HIDE DEF d
<1>7. a + b \in Nat /\ ((a + b) * d) \div d = a + b
  BY <1>3, <1>6, Quotient
<1>8. choose(n + 1, k) = a + b
  BY <1>4, <1>5, <1>7
<1> QED BY <1>4, <1>5, <1>7, <1>8 DEF IsChosen, a, b

(* So all are, and Pascal's triangle gives them.                            *)
LEMMA ChooseIs ==
  \A n \in Nat :
    /\ \A k \in 0 .. n : IsChosen(n, k)
    /\ \A k \in 1 .. n : choose(n + 1, k) = choose(n, k - 1) + choose(n, k)
<1> DEFINE Good == {n \in Nat : \A k \in 0 .. n : IsChosen(n, k)}
<1>1. 0 \in Good
  BY ChooseEnds
<1>2. ASSUME NEW n \in Nat, n \in Good PROVE n + 1 \in Good
  <2> SUFFICES ASSUME NEW k \in 0 .. n + 1 PROVE IsChosen(n + 1, k)
    OBVIOUS
  <2>1. CASE k = 0 \/ k = n + 1
    BY <2>1, ChooseEnds
  <2>2. CASE k \in 1 .. n
    <3>1. IsChosen(n, k - 1) /\ IsChosen(n, k)
      BY <1>2, <2>2
    <3> QED BY <2>2, <3>1, ChooseInside
  <2> QED BY <2>1, <2>2
<1>3. \A n \in Nat : n \in Good
  <2> HIDE DEF Good
  <2> QED BY <1>1, <1>2, NumberInduction
<1>4. ASSUME NEW n \in Nat, NEW k \in 1 .. n
      PROVE  choose(n + 1, k) = choose(n, k - 1) + choose(n, k)
  <2>1. IsChosen(n, k - 1) /\ IsChosen(n, k)
    BY <1>3
  <2> QED BY <2>1, ChooseInside
<1> QED BY <1>3, <1>4

(* Pascal's triangle with 0 around it: no condition on the column, nor on a *)
(* negative row.                                                            *)
Chosen(n, k) == IF k \in 0 .. n THEN choose(n, k) ELSE 0

(* It is a number, and the sum of the two above it.                         *)
LEMMA Pascal ==
  /\ \A n, k \in Int : Chosen(n, k) \in Nat
  /\ \A n \in Nat, k \in Int : Chosen(n + 1, k) = Chosen(n, k - 1) + Chosen(n, k)
  /\ \A n, k \in Int : k < 0 \/ k > n => Chosen(n, k) = 0
  /\ \A n \in Nat : Chosen(n, 0) = 1 /\ Chosen(n, n) = 1
<1>1. \A n \in Nat : choose(n, 0) = 1 /\ choose(n, n) = 1
  BY ChooseEnds
<1>2. \A n \in Nat : \A k \in 0 .. n : choose(n, k) \in Nat
  BY ChooseIs DEF IsChosen
<1>3. \A n, k \in Int : Chosen(n, k) \in Nat
  BY <1>2 DEF Chosen
<1>4. ASSUME NEW n \in Nat, NEW k \in Int
      PROVE  Chosen(n + 1, k) = Chosen(n, k - 1) + Chosen(n, k)
  <2>1. CASE k \in 1 .. n
    <3>1. choose(n + 1, k) = choose(n, k - 1) + choose(n, k)
      BY <2>1, ChooseIs
    <3>2. k \in 0 .. n + 1 /\ k - 1 \in 0 .. n /\ k \in 0 .. n
      BY <2>1
    <3> QED BY <3>1, <3>2 DEF Chosen
  <2>2. CASE k = 0
    BY <1>1, <2>2 DEF Chosen
  <2>3. CASE k = n + 1
    <3>1. /\ n + 1 \in 0 .. n + 1 /\ (n + 1) - 1 = n /\ n \in 0 .. n /\ n + 1 \notin 0 .. n
          /\ n + 1 \in Nat
      OBVIOUS
    <3> QED BY <1>1, <2>3, <3>1 DEF Chosen
  <2>4. CASE k \notin 0 .. n + 1
    <3>1. k \notin 0 .. n + 1 /\ k - 1 \notin 0 .. n /\ k \notin 0 .. n
      BY <2>4
    <3> QED BY <3>1 DEF Chosen
  <2> QED BY <2>1, <2>2, <2>3, <2>4
<1> QED BY <1>1, <1>3, <1>4 DEF Chosen

(* How many sequences of k draws have a of one kind and b of another: with  *)
(* one draw more, by the kind of the last.                                  *)
Arrangements(k, a, b) == Chosen(k, a) * Chosen(k - a, b)

(* The last of k + 1 draws is a hit of the first kind, the second or none.  *)
LEMMA ArrangementsStep ==
  ASSUME NEW k \in Nat, NEW a \in Int, NEW b \in Int
  PROVE  Arrangements(k + 1, a, b)
           = Arrangements(k, a - 1, b) + Arrangements(k, a, b - 1) + Arrangements(k, a, b)
<1> DEFINE p == Chosen(k, a - 1)
           q == Chosen(k, a)
           r == Chosen(k - a + 1, b)
           s == Chosen(k - a, b - 1)
           t == Chosen(k - a, b)
<1>1. p \in Nat /\ q \in Nat /\ r \in Nat /\ s \in Nat /\ t \in Nat
  BY Pascal
<1>2. Chosen(k + 1, a) = p + q
  BY Pascal
<1>3. q = 0 \/ r = s + t
  <2>1. CASE a <= k
    <3>1. k - a \in Nat
      BY <2>1
    <3> QED BY <3>1, Pascal
  <2>2. CASE a > k
    BY <2>2, Pascal
  <2> QED BY <2>1, <2>2
<1>4. (k + 1) - a = k - a + 1 /\ k - (a - 1) = k - a + 1
  OBVIOUS
<1>5. /\ Arrangements(k + 1, a, b) = (p + q) * r
      /\ Arrangements(k, a - 1, b) = p * r
      /\ Arrangements(k, a, b - 1) = q * s
      /\ Arrangements(k, a, b) = q * t
  BY <1>2, <1>4 DEF Arrangements
<1> HIDE DEF p, q, r, s, t
<1>6. (p + q) * r = p * r + q * s + q * t
  <2>1. CASE q = 0
    BY <1>1, <2>1
  <2>2. CASE r = s + t
    <3>1. \A x, y, u, v \in Nat : (x + y) * (u + v) = x * (u + v) + y * u + y * v
      OBVIOUS
    <3> QED BY <1>1, <2>2, <3>1
  <2> QED BY <1>3, <2>1, <2>2
<1> QED BY <1>5, <1>6

(* It is a number.                                                          *)
LEMMA ArrangementsType ==
  \A k \in Nat : \A a, b \in Int : Arrangements(k, a, b) \in Nat
BY Pascal DEF Arrangements

(* There are none with fewer than no hits, or more than draws.              *)
LEMMA ArrangementsNone ==
  \A k \in Nat : \A a, b \in Int :
    a < 0 \/ b < 0 \/ a + b > k => Arrangements(k, a, b) = 0
<1> SUFFICES ASSUME NEW k \in Nat, NEW a \in Int, NEW b \in Int, a < 0 \/ b < 0 \/ a + b > k
             PROVE  Arrangements(k, a, b) = 0
  OBVIOUS
<1> DEFINE q == Chosen(k, a)
           t == Chosen(k - a, b)
<1>1. q \in Nat /\ t \in Nat
  BY Pascal
<1>2. q = 0 \/ t = 0
  <2>1. b < 0 \/ b > k - a => t = 0
    BY Pascal
  <2>2. a < 0 => q = 0
    BY Pascal
  <2> QED BY <2>1, <2>2
<1> QED BY <1>1, <1>2 DEF Arrangements

-----------------------------------------------------------------------------
(* Draws from a set S of ballots: one draw more.                            *)
First(s, k) == [t \in 1 .. k |-> s[t]]
Longer(Q, R, S, k) == {s \in [1 .. k + 1 -> S] : First(s, k) \in Q /\ s[k + 1] \in R}

(* Each of Q goes on with each of R.                                        *)
LEMMA LongerCount ==
  ASSUME NEW S, NEW k \in Nat, NEW Q, NEW R, Q \in SUBSET [1 .. k -> S], R \in SUBSET S,
         IsFiniteSet(Q), IsFiniteSet(R)
  PROVE  /\ IsFiniteSet(Longer(Q, R, S, k))
         /\ Cardinality(Longer(Q, R, S, k)) = Cardinality(Q) * Cardinality(R)
<1> DEFINE P == Longer(Q, R, S, k)
           one(p) == [t \in 1 .. k + 1 |-> IF t = k + 1 THEN p[2] ELSE p[1][t]]
           g == [p \in Q \X R |-> one(p)]
<1>1. k + 1 \in 1 .. k + 1 /\ \A t \in 1 .. k : t \in 1 .. k + 1 /\ t # k + 1
  OBVIOUS
<1>2. ASSUME NEW q \in Q, NEW r \in R
      PROVE  one(<<q, r>>) \in P /\ First(one(<<q, r>>), k) = q /\ one(<<q, r>>)[k + 1] = r
  <2>1. q \in [1 .. k -> S] /\ r \in S
    OBVIOUS
  <2> DEFINE s == one(<<q, r>>)
  <2>2. s \in [1 .. k + 1 -> S]
    <3>1. \A t \in 1 .. k + 1 : t # k + 1 => t \in 1 .. k
      OBVIOUS
    <3> QED BY <2>1, <3>1
  <2>3. s[k + 1] = r /\ \A t \in 1 .. k : s[t] = q[t]
    BY <1>1
  <2> HIDE DEF s
  <2>4. First(s, k) = q
    BY <2>1, <2>3 DEF First
  <2>5. s \in P
    BY <2>2, <2>3, <2>4 DEF Longer
  <2> QED BY <2>3, <2>4, <2>5 DEF s
<1> HIDE DEF one
<1>3. g \in [Q \X R -> P]
  <2>1. \A p \in Q \X R : one(p) \in P
    <3> SUFFICES ASSUME NEW p \in Q \X R PROVE one(p) \in P
      OBVIOUS
    <3>1. p = <<p[1], p[2]>> /\ p[1] \in Q /\ p[2] \in R
      OBVIOUS
    <3> HIDE DEF P
    <3> QED BY <1>2, <3>1
  <2> QED BY <2>1
<1>4. \A p, e \in Q \X R : g[p] = g[e] => p = e
  <2> SUFFICES ASSUME NEW p \in Q \X R, NEW e \in Q \X R, one(p) = one(e) PROVE p = e
    OBVIOUS
  <2>1. p = <<p[1], p[2]>> /\ p[1] \in Q /\ p[2] \in R /\ e = <<e[1], e[2]>> /\ e[1] \in Q /\ e[2] \in R
    OBVIOUS
  <2>2. First(one(p), k) = p[1] /\ one(p)[k + 1] = p[2]
    BY <1>2, <2>1
  <2>3. First(one(e), k) = e[1] /\ one(e)[k + 1] = e[2]
    BY <1>2, <2>1
  <2> QED BY <2>1, <2>2, <2>3
<1>5. \A s \in P : \E p \in Q \X R : g[p] = s
  <2> SUFFICES ASSUME NEW s \in P PROVE \E p \in Q \X R : g[p] = s
    OBVIOUS
  <2> DEFINE q == First(s, k)
             r == s[k + 1]
  <2>1. q \in Q /\ r \in R /\ s \in [1 .. k + 1 -> S]
    BY DEF Longer
  <2>2. one(<<q, r>>) \in [1 .. k + 1 -> S] /\ First(one(<<q, r>>), k) = q /\ one(<<q, r>>)[k + 1] = r
    BY <1>2, <2>1 DEF Longer
  <2> DEFINE u == one(<<q, r>>)
  <2>3. \A t \in 1 .. k : u[t] = s[t]
    <3>1. \A t \in 1 .. k : First(u, k)[t] = u[t] /\ First(s, k)[t] = s[t]
      BY DEF First
    <3> QED BY <2>2, <3>1
  <2>4. \A t \in 1 .. k + 1 : u[t] = s[t]
    <3>1. \A t \in 1 .. k + 1 : t = k + 1 \/ t \in 1 .. k
      OBVIOUS
    <3> QED BY <2>2, <2>3, <3>1
  <2>5. u \in [1 .. k + 1 -> S]
    BY <2>2
  <2> HIDE DEF u
  <2>6. u = s
    BY <2>1, <2>4, <2>5
  <2>7. <<q, r>> \in Q \X R /\ g[<<q, r>>] = u
    BY <2>1 DEF u
  <2> QED BY <2>6, <2>7
<1> HIDE DEF g, P
<1>6. g \in Bijection(Q \X R, P)
  BY <1>3, <1>4, <1>5 DEF Bijection, Injection, IsInjective, Surjection
<1>7. IsFiniteSet(Q \X R) /\ Cardinality(Q \X R) = Cardinality(Q) * Cardinality(R)
  BY FS_Product
<1>8. ExistsBijection(Q \X R, P)
  BY <1>6 DEF ExistsBijection
<1>9. IsFiniteSet(P) /\ Cardinality(P) = Cardinality(Q \X R)
  BY <1>7, <1>8, FS_Bijection
<1> QED BY <1>7, <1>9 DEF P

(* There are Cardinality(S) ** k sequences of k draws.                      *)
LEMMA DrawsCount ==
  ASSUME NEW S, IsFiniteSet(S)
  PROVE  \A k \in Nat : /\ IsFiniteSet([1 .. k -> S])
                        /\ Cardinality([1 .. k -> S]) = Power(Cardinality(S), k)
<1> DEFINE Good == {k \in Nat : /\ IsFiniteSet([1 .. k -> S])
                                /\ Cardinality([1 .. k -> S]) = Power(Cardinality(S), k)}
<1>0. Cardinality(S) \in Int
  BY FS_CardinalityType
<1>1. 0 \in Good
  <2> DEFINE none == [t \in 1 .. 0 |-> 0]
  <2>1. \A s \in [1 .. 0 -> S] : s = none
    <3>1. \A t \in 1 .. 0 : FALSE
      OBVIOUS
    <3> QED BY <3>1
  <2>2. none \in [1 .. 0 -> S]
    OBVIOUS
  <2>3. [1 .. 0 -> S] = {none}
    <3> HIDE DEF none
    <3> QED BY <2>1, <2>2
  <2> HIDE DEF none
  <2>4. IsFiniteSet({none}) /\ Cardinality({none}) = 1
    BY FS_Singleton
  <2>5. Power(Cardinality(S), 0) = 1
    BY <1>0, PowerIs
  <2> QED BY <2>3, <2>4, <2>5
<1>2. ASSUME NEW k \in Nat, k \in Good PROVE k + 1 \in Good
  <2> DEFINE Q == [1 .. k -> S]
             n == Cardinality(S)
  <2>1. Longer(Q, S, S, k) = [1 .. k + 1 -> S]
    <3>1. ASSUME NEW s \in [1 .. k + 1 -> S] PROVE First(s, k) \in Q /\ s[k + 1] \in S
      <4>1. k + 1 \in 1 .. k + 1 /\ \A t \in 1 .. k : t \in 1 .. k + 1
        OBVIOUS
      <4> QED BY <4>1 DEF First
    <3> QED BY <3>1 DEF Longer
  <2>2. IsFiniteSet(Q) /\ Cardinality(Q) = Power(n, k) /\ Q \in SUBSET [1 .. k -> S] /\ S \in SUBSET S
    BY <1>2
  <2>3. IsFiniteSet(Longer(Q, S, S, k)) /\ Cardinality(Longer(Q, S, S, k)) = Cardinality(Q) * n
    <3> HIDE DEF Q
    <3> QED BY <2>2, LongerCount
  <2>4. Power(n, k + 1) = n * Power(n, k) /\ Power(n, k) \in Int
    BY <1>0, PowerIs
  <2> HIDE DEF Q, n
  <2>5. Power(n, k) * n = n * Power(n, k)
    BY <1>0, <2>4 DEF n
  <2>6. Cardinality([1 .. k + 1 -> S]) = Power(n, k + 1)
    BY <2>1, <2>2, <2>3, <2>4, <2>5
  <2> QED BY <2>1, <2>3, <2>6 DEF n
<1>3. \A k \in Nat : k \in Good
  <2> HIDE DEF Good
  <2> QED BY <1>1, <1>2, NumberInduction
<1> QED BY <1>3

(* How many of k draws are of a kind, and the ballots of a kind.            *)
Hits(label, s, k, kind) == Cardinality({t \in 1 .. k : label[s[t]] = kind})
Ballots(label, S, kind) == {x \in S : label[x] = kind}

HitsFollow(label, s, k, kind) ==
  /\ Hits(label, First(s, k), k, kind) \in Nat
  /\ Hits(label, s, k + 1, kind)
       = Hits(label, First(s, k), k, kind) + IF label[s[k + 1]] = kind THEN 1 ELSE 0

(* One draw more of a kind is one hit more.                                 *)
LEMMA HitsStep ==
  ASSUME NEW label, NEW k, k \in Nat, NEW s, NEW kind
  PROVE  HitsFollow(label, s, k, kind)
<1> DEFINE T == {t \in 1 .. k : label[First(s, k)[t]] = kind}
           U == {t \in 1 .. k + 1 : label[s[t]] = kind}
<1>1. T = {t \in 1 .. k : label[s[t]] = kind}
  BY DEF First
<1>2. IsFiniteSet(T)
  <2>1. IsFiniteSet(1 .. k)
    BY FS_Interval
  <2>2. T \in SUBSET (1 .. k)
    OBVIOUS
  <2> HIDE DEF T
  <2> QED BY <2>1, <2>2, FS_Subset
<1>3. k + 1 \notin T
  OBVIOUS
<1>4. U = IF label[s[k + 1]] = kind THEN T \cup {k + 1} ELSE T
  <2>1. 1 .. k + 1 = (1 .. k) \cup {k + 1}
    OBVIOUS
  <2> HIDE DEF T
  <2> QED BY <1>1, <2>1
<1> HIDE DEF T, U
<1>5. Cardinality(T) \in Nat /\ Cardinality(T \cup {k + 1}) = Cardinality(T) + 1
  BY <1>2, <1>3, FS_CardinalityType, FS_AddElement
<1>6. Cardinality(U) = Cardinality(T) + IF label[s[k + 1]] = kind THEN 1 ELSE 0
  BY <1>4, <1>5
<1> QED BY <1>5, <1>6 DEF HitsFollow, Hits, T, U

(* The draws with a ballots for the correct answer and b for the mode, and  *)
(* their number by the kind of the last draw.                               *)
Kinds == {"correct", "mode", "other"}
Splits(label, S, k, a, b) ==
  {s \in [1 .. k -> S] : Hits(label, s, k, "correct") = a /\ Hits(label, s, k, "mode") = b}

(* There are finitely many.                                                 *)
LEMMA SplitsFinite ==
  ASSUME NEW S, IsFiniteSet(S), NEW label, NEW k \in Nat, NEW a, NEW b
  PROVE  IsFiniteSet(Splits(label, S, k, a, b)) /\ Cardinality(Splits(label, S, k, a, b)) \in Nat
<1>1. IsFiniteSet([1 .. k -> S])
  BY DrawsCount
<1>2. Splits(label, S, k, a, b) \in SUBSET [1 .. k -> S]
  BY DEF Splits
<1> QED BY <1>1, <1>2, FS_Subset, FS_CardinalityType

(* They are counted by the kind of the last draw.                           *)
LEMMA SplitsStep ==
  ASSUME NEW S, IsFiniteSet(S), NEW label \in [S -> Kinds], NEW k \in Nat, NEW a \in Int, NEW b \in Int
  PROVE  Cardinality(Splits(label, S, k + 1, a, b))
           = Cardinality(Splits(label, S, k, a - 1, b)) * Cardinality(Ballots(label, S, "correct"))
           + Cardinality(Splits(label, S, k, a, b - 1)) * Cardinality(Ballots(label, S, "mode"))
           + Cardinality(Splits(label, S, k, a, b)) * Cardinality(Ballots(label, S, "other"))
<1> DEFINE Part(c, m, kind) ==
             Longer(Splits(label, S, k, c, m), Ballots(label, S, kind), S, k)
           P == Splits(label, S, k + 1, a, b)
           X == Part(a - 1, b, "correct")
           Y == Part(a, b - 1, "mode")
           Z == Part(a, b, "other")
<1>1. ASSUME NEW s \in [1 .. k + 1 -> S]
      PROVE  /\ s \in P <=> s \in X \cup Y \cup Z
             /\ s \in X => label[s[k + 1]] = "correct"
             /\ s \in Y => label[s[k + 1]] = "mode"
             /\ s \in Z => label[s[k + 1]] = "other"
  <2> DEFINE e == First(s, k)
             kind == label[s[k + 1]]
             c == Hits(label, e, k, "correct")
             m == Hits(label, e, k, "mode")
  <2>1. s[k + 1] \in S /\ kind \in Kinds /\ e \in [1 .. k -> S]
    <3>1. k + 1 \in 1 .. k + 1 /\ \A t \in 1 .. k : t \in 1 .. k + 1
      OBVIOUS
    <3> QED BY <3>1 DEF First
  <2>2. /\ Hits(label, s, k + 1, "correct") = c + IF kind = "correct" THEN 1 ELSE 0
        /\ Hits(label, s, k + 1, "mode") = m + IF kind = "mode" THEN 1 ELSE 0
        /\ c \in Nat /\ m \in Nat
    <3>1. HitsFollow(label, s, k, "correct") /\ HitsFollow(label, s, k, "mode")
      BY HitsStep
    <3> QED BY <3>1 DEF HitsFollow
  <2>3. s \in P <=> /\ c + (IF kind = "correct" THEN 1 ELSE 0) = a
                    /\ m + (IF kind = "mode" THEN 1 ELSE 0) = b
    BY <2>2 DEF Splits
  <2>4. /\ s \in X <=> c = a - 1 /\ m = b /\ kind = "correct"
        /\ s \in Y <=> c = a /\ m = b - 1 /\ kind = "mode"
        /\ s \in Z <=> c = a /\ m = b /\ kind = "other"
    BY <2>1 DEF Longer, Splits, Ballots
  <2> HIDE DEF e, kind, c, m, P, X, Y, Z
  <2>5. s \in P <=> s \in X \cup Y \cup Z
    BY <2>1, <2>2, <2>3, <2>4 DEF Kinds
  <2> QED BY <2>4, <2>5 DEF kind
<1>2. P = X \cup Y \cup Z /\ X \cap Y = {} /\ (X \cup Y) \cap Z = {}
  <2>1. P \subseteq [1 .. k + 1 -> S] /\ X \cup Y \cup Z \subseteq [1 .. k + 1 -> S]
    BY DEF Splits, Longer
  <2> HIDE DEF P, X, Y, Z
  <2> QED BY <1>1, <2>1
<1>3. ASSUME NEW c, NEW m, NEW kind
      PROVE  /\ IsFiniteSet(Part(c, m, kind))
             /\ Cardinality(Part(c, m, kind))
                  = Cardinality(Splits(label, S, k, c, m)) * Cardinality(Ballots(label, S, kind))
  <2>1. IsFiniteSet(Splits(label, S, k, c, m))
    BY SplitsFinite
  <2>2. Splits(label, S, k, c, m) \in SUBSET [1 .. k -> S]
    BY DEF Splits
  <2>3. Ballots(label, S, kind) \in SUBSET S
    BY DEF Ballots
  <2>4. IsFiniteSet(Ballots(label, S, kind))
    BY <2>3, FS_Subset
  <2> QED BY <2>1, <2>2, <2>3, <2>4, LongerCount
<1>4. IsFiniteSet(X) /\ IsFiniteSet(Y) /\ IsFiniteSet(Z)
  BY <1>3
<1> HIDE DEF Part
<1>5. Cardinality(P) = Cardinality(X) + Cardinality(Y) + Cardinality(Z)
  <2> HIDE DEF P, X, Y, Z
  <2>1. IsFiniteSet(X \cup Y) /\ Cardinality(X \cup Y) = Cardinality(X) + Cardinality(Y) - Cardinality(X \cap Y)
    BY <1>4, FS_Union
  <2>2. Cardinality(P) = Cardinality(X \cup Y) + Cardinality(Z) - Cardinality((X \cup Y) \cap Z)
    BY <1>2, <1>4, <2>1, FS_Union
  <2>3. Cardinality(X \cap Y) = 0 /\ Cardinality((X \cup Y) \cap Z) = 0
    BY <1>2, FS_EmptySet
  <2>4. Cardinality(X) \in Nat /\ Cardinality(Y) \in Nat /\ Cardinality(Z) \in Nat
    BY <1>4, FS_CardinalityType
  <2> QED BY <2>1, <2>2, <2>3, <2>4
<1>6. /\ Cardinality(X) = Cardinality(Splits(label, S, k, a - 1, b)) * Cardinality(Ballots(label, S, "correct"))
      /\ Cardinality(Y) = Cardinality(Splits(label, S, k, a, b - 1)) * Cardinality(Ballots(label, S, "mode"))
      /\ Cardinality(Z) = Cardinality(Splits(label, S, k, a, b)) * Cardinality(Ballots(label, S, "other"))
  BY <1>3
<1> HIDE DEF P, X, Y, Z
<1>7. Cardinality(P)
        = Cardinality(Splits(label, S, k, a - 1, b)) * Cardinality(Ballots(label, S, "correct"))
        + Cardinality(Splits(label, S, k, a, b - 1)) * Cardinality(Ballots(label, S, "mode"))
        + Cardinality(Splits(label, S, k, a, b)) * Cardinality(Ballots(label, S, "other"))
  BY <1>5, <1>6
<1> QED BY <1>7 DEF P

-----------------------------------------------------------------------------
(* The weight of all draws of k with a and b of the two kinds, where the    *)
(* kinds have x, y and z ballots; 0 where there are none.                   *)
PowerOrNone(x, n) == IF n \in Nat THEN Power(x, n) ELSE 0
SplitWeight(k, a, b, x, y, z) ==
  Arrangements(k, a, b) * (PowerOrNone(x, a) * PowerOrNone(y, b) * PowerOrNone(z, k - a - b))

SplitWeightFollows(k, a, b, x, y, z) ==
  SplitWeight(k + 1, a, b, x, y, z)
    = SplitWeight(k, a - 1, b, x, y, z) * x
    + SplitWeight(k, a, b - 1, x, y, z) * y
    + SplitWeight(k, a, b, x, y, z) * z

(* A power is a number, and one more is a factor more.                      *)
LEMMA PowerOrNoneIs ==
  /\ \A u, i \in Int : PowerOrNone(u, i) \in Int
  /\ \A u, i \in Int : i >= 1 => PowerOrNone(u, i) = u * PowerOrNone(u, i - 1)
<1>1. ASSUME NEW u \in Int, NEW i \in Int PROVE PowerOrNone(u, i) \in Int
  BY PowerIs DEF PowerOrNone
<1>2. ASSUME NEW u \in Int, NEW i \in Int, i >= 1
      PROVE  PowerOrNone(u, i) = u * PowerOrNone(u, i - 1)
  <2>1. i \in Nat /\ i - 1 \in Nat /\ (i - 1) + 1 = i
    BY <1>2
  <2>2. Power(u, (i - 1) + 1) = u * Power(u, i - 1)
    BY <2>1, PowerIs
  <2> QED BY <2>1, <2>2 DEF PowerOrNone
<1> QED BY <1>1, <1>2

(* The weight with one draw more, by the kind of the last.                  *)
LEMMA SplitWeightStep ==
  ASSUME NEW k, NEW a, NEW b, NEW x, NEW y, NEW z,
         k \in Nat, a \in Int, b \in Int, x \in Int, y \in Int, z \in Int
  PROVE  SplitWeightFollows(k, a, b, x, y, z)
<1> DEFINE l == Arrangements(k, a - 1, b)
           m == Arrangements(k, a, b - 1)
           n == Arrangements(k, a, b)
           p == PowerOrNone(x, a)
           q == PowerOrNone(y, b)
           r == PowerOrNone(z, k + 1 - a - b)
           d == PowerOrNone(x, a - 1)
           e == PowerOrNone(y, b - 1)
           f == PowerOrNone(z, k - a - b)
<1>0. a - 1 \in Int /\ b - 1 \in Int /\ k + 1 - a - b \in Int /\ k - a - b \in Int
  OBVIOUS
<1>1. \A u, i \in Int : PowerOrNone(u, i) \in Int
  BY PowerOrNoneIs
<1>2. \A u, i \in Int : i >= 1 => PowerOrNone(u, i) = u * PowerOrNone(u, i - 1)
  BY PowerOrNoneIs
<1>3. l = 0 \/ p = x * d
  <2>1. a - 1 < 0 => l = 0
    BY <1>0, ArrangementsNone
  <2> QED BY <1>2, <2>1
<1>4. m = 0 \/ q = y * e
  <2>1. b - 1 < 0 => m = 0
    BY <1>0, ArrangementsNone
  <2> QED BY <1>2, <2>1
<1>5. n = 0 \/ r = z * f
  <2>1. a + b > k => n = 0
    BY ArrangementsNone
  <2>2. (k + 1 - a - b) - 1 = k - a - b /\ k + 1 - a - b \in Int
    BY DEF PowerOrNone
  <2>3. k + 1 - a - b >= 1 => r = z * f
    BY <1>2, <2>2
  <2> QED BY <2>1, <2>3
<1>6. l \in Nat /\ m \in Nat /\ n \in Nat /\ Arrangements(k + 1, a, b) = l + m + n
  <2>1. \A i, j \in Int : Arrangements(k, i, j) \in Nat
    BY ArrangementsType
  <2>2. l \in Nat /\ m \in Nat /\ n \in Nat
    BY <1>0, <2>1
  <2> QED BY <2>2, ArrangementsStep
<1>7. /\ SplitWeight(k + 1, a, b, x, y, z) = (l + m + n) * (p * q * r)
      /\ SplitWeight(k, a - 1, b, x, y, z) = l * (d * q * r)
      /\ SplitWeight(k, a, b - 1, x, y, z) = m * (p * e * r)
      /\ SplitWeight(k, a, b, x, y, z) = n * (p * q * f)
  <2>1. k - (a - 1) - b = k + 1 - a - b /\ k - a - (b - 1) = k + 1 - a - b
    OBVIOUS
  <2> QED BY <1>6, <2>1 DEF SplitWeight
<1>8. p \in Int /\ q \in Int /\ r \in Int /\ d \in Int /\ e \in Int /\ f \in Int
  BY <1>0, <1>1
<1> HIDE DEF l, m, n, p, q, r, d, e, f
<1>9. l * (p * q * r) = l * (d * q * r) * x
  <2>1. CASE l = 0
    <3>1. \A u, v \in Int : 0 * u = 0 /\ 0 * u * v = 0
      OBVIOUS
    <3>2. p * q * r \in Int /\ d * q * r \in Int
      BY <1>8
    <3> QED BY <2>1, <3>1, <3>2
  <2>2. CASE p = x * d
    <3>1. \A g, h, i, j, w \in Int : g * ((w * h) * i * j) = g * (h * i * j) * w
      OBVIOUS
    <3> QED BY <1>6, <1>8, <2>2, <3>1
  <2> QED BY <1>3, <2>1, <2>2
<1>10. m * (p * q * r) = m * (p * e * r) * y
  <2>1. CASE m = 0
    <3>1. \A u, v \in Int : 0 * u = 0 /\ 0 * u * v = 0
      OBVIOUS
    <3>2. p * q * r \in Int /\ p * e * r \in Int
      BY <1>8
    <3> QED BY <2>1, <3>1, <3>2
  <2>2. CASE q = y * e
    <3>1. \A g, h, i, j, w \in Int : g * (h * (w * i) * j) = g * (h * i * j) * w
      OBVIOUS
    <3> QED BY <1>6, <1>8, <2>2, <3>1
  <2> QED BY <1>4, <2>1, <2>2
<1>11. n * (p * q * r) = n * (p * q * f) * z
  <2>1. CASE n = 0
    <3>1. \A u, v \in Int : 0 * u = 0 /\ 0 * u * v = 0
      OBVIOUS
    <3>2. p * q * r \in Int /\ p * q * f \in Int
      BY <1>8
    <3> QED BY <2>1, <3>1, <3>2
  <2>2. CASE r = z * f
    <3>1. \A g, h, i, j, w \in Int : g * (h * i * (w * j)) = g * (h * i * j) * w
      OBVIOUS
    <3> QED BY <1>6, <1>8, <2>2, <3>1
  <2> QED BY <1>5, <2>1, <2>2
<1>12. (l + m + n) * (p * q * r) = l * (p * q * r) + m * (p * q * r) + n * (p * q * r)
  <2>1. \A g, h, i, w \in Int : (g + h + i) * w = g * w + h * w + i * w
    OBVIOUS
  <2>2. p * q * r \in Int
    BY <1>8
  <2> HIDE DEF p, q, r
  <2> QED BY <1>6, <2>1, <2>2
<1> QED BY <1>7, <1>9, <1>10, <1>11, <1>12, Zenon DEF SplitWeightFollows

(* So many draws there are.                                                 *)
CountedRight(label, S, k) ==
  \A a, b \in Int :
    Cardinality(Splits(label, S, k, a, b))
      = SplitWeight(k, a, b, Cardinality(Ballots(label, S, "correct")),
                    Cardinality(Ballots(label, S, "mode")),
                    Cardinality(Ballots(label, S, "other")))

(* It counts the splits.                                                    *)
LEMMA SplitsCount ==
  ASSUME NEW S, IsFiniteSet(S), NEW label \in [S -> Kinds]
  PROVE  \A k \in Nat : CountedRight(label, S, k)
<1> DEFINE x == Cardinality(Ballots(label, S, "correct"))
           y == Cardinality(Ballots(label, S, "mode"))
           z == Cardinality(Ballots(label, S, "other"))
           Good == {k \in Nat : CountedRight(label, S, k)}
<1>1. x \in Int /\ y \in Int /\ z \in Int
  <2>1. ASSUME NEW kind PROVE Cardinality(Ballots(label, S, kind)) \in Int
    <3>1. Ballots(label, S, kind) \in SUBSET S
      BY DEF Ballots
    <3> QED BY <3>1, FS_Subset, FS_CardinalityType
  <2> QED BY <2>1
<1>2. 0 \in Good
  <2> SUFFICES ASSUME NEW a \in Int, NEW b \in Int
               PROVE  Cardinality(Splits(label, S, 0, a, b)) = SplitWeight(0, a, b, x, y, z)
    BY DEF CountedRight
  <2> DEFINE none == [t \in 1 .. 0 |-> 0]
  <2>1. \A s : \A kind : Hits(label, s, 0, kind) = 0
    <3> SUFFICES ASSUME NEW s, NEW kind PROVE Hits(label, s, 0, kind) = 0
      OBVIOUS
    <3>1. {t \in 1 .. 0 : label[s[t]] = kind} = {}
      OBVIOUS
    <3> QED BY <3>1, FS_EmptySet DEF Hits
  <2>2. [1 .. 0 -> S] = {none}
    <3>1. \A s \in [1 .. 0 -> S] : s = none
      <4>1. \A t \in 1 .. 0 : FALSE
        OBVIOUS
      <4> QED BY <4>1
    <3>2. none \in [1 .. 0 -> S]
      OBVIOUS
    <3> HIDE DEF none
    <3> QED BY <3>1, <3>2
  <2> HIDE DEF none
  <2>3. \A n \in Int : n # 0 => Chosen(0, n) = 0
    BY Pascal
  <2>4. CASE a = 0 /\ b = 0
    <3>1. Splits(label, S, 0, a, b) = {none}
      BY <2>1, <2>2, <2>4 DEF Splits
    <3>2. Cardinality({none}) = 1
      BY FS_Singleton
    <3>3. Arrangements(0, a, b) = 1
      <4>1. Chosen(0, 0) = 1
        BY Pascal
      <4> QED BY <2>4, <4>1 DEF Arrangements
    <3>4. PowerOrNone(x, a) = 1 /\ PowerOrNone(y, b) = 1 /\ PowerOrNone(z, 0 - a - b) = 1
      <4>1. 0 - a - b = 0 /\ a = 0 /\ b = 0 /\ 0 \in Nat
        BY <2>4
      <4>2. Power(x, 0) = 1 /\ Power(y, 0) = 1 /\ Power(z, 0) = 1
        BY <1>1, PowerIs
      <4> QED BY <4>1, <4>2 DEF PowerOrNone
    <3>5. SplitWeight(0, a, b, x, y, z) = 1
      BY <3>3, <3>4 DEF SplitWeight
    <3> QED BY <3>1, <3>2, <3>5
  <2>5. CASE ~ (a = 0 /\ b = 0)
    <3>1. Splits(label, S, 0, a, b) = {}
      BY <2>1, <2>5 DEF Splits
    <3>2. Arrangements(0, a, b) = 0
      <4>1. Chosen(0, a) = 0 \/ Chosen(0 - a, b) = 0
        <5>1. a = 0 => 0 - a = 0
          OBVIOUS
        <5> QED BY <2>3, <2>5, <5>1
      <4>2. Chosen(0, a) \in Nat /\ Chosen(0 - a, b) \in Nat
        BY Pascal
      <4> QED BY <4>1, <4>2 DEF Arrangements
    <3>3. /\ PowerOrNone(x, a) \in Int /\ PowerOrNone(y, b) \in Int
          /\ PowerOrNone(z, 0 - a - b) \in Int
      <4>1. 0 - a - b \in Int
        OBVIOUS
      <4> HIDE DEF x, y, z
      <4> QED BY <1>1, <4>1, PowerOrNoneIs
    <3>4. SplitWeight(0, a, b, x, y, z) = 0
      <4>1. \A u, v, w \in Int : 0 * (u * v * w) = 0
        OBVIOUS
      <4> QED BY <3>2, <3>3, <4>1 DEF SplitWeight
    <3> QED BY <3>1, <3>4, FS_EmptySet
  <2> QED BY <2>4, <2>5
<1>3. ASSUME NEW k \in Nat, k \in Good PROVE k + 1 \in Good
  <2> SUFFICES ASSUME NEW a \in Int, NEW b \in Int
               PROVE  Cardinality(Splits(label, S, k + 1, a, b)) = SplitWeight(k + 1, a, b, x, y, z)
    BY DEF CountedRight
  <2>1. \A i, j \in Int : Cardinality(Splits(label, S, k, i, j)) = SplitWeight(k, i, j, x, y, z)
    BY <1>3 DEF CountedRight
  <2>2. Cardinality(Splits(label, S, k + 1, a, b))
          = Cardinality(Splits(label, S, k, a - 1, b)) * x
          + Cardinality(Splits(label, S, k, a, b - 1)) * y
          + Cardinality(Splits(label, S, k, a, b)) * z
    BY SplitsStep
  <2>3. a - 1 \in Int /\ b - 1 \in Int
    OBVIOUS
  <2> HIDE DEF x, y, z
  <2>4. SplitWeight(k + 1, a, b, x, y, z)
          = SplitWeight(k, a - 1, b, x, y, z) * x
          + SplitWeight(k, a, b - 1, x, y, z) * y
          + SplitWeight(k, a, b, x, y, z) * z
    <3>1. SplitWeightFollows(k, a, b, x, y, z)
      BY <1>1, SplitWeightStep
    <3> QED BY <3>1 DEF SplitWeightFollows
  <2> QED BY <2>1, <2>2, <2>3, <2>4
<1>4. \A k \in Nat : k \in Good
  <2> HIDE DEF Good
  <2> QED BY <1>2, <1>3, NumberInduction
<1> QED BY <1>4

-----------------------------------------------------------------------------
(* Every draw is of one kind.                                               *)
LEMMA HitsAll ==
  ASSUME NEW S, NEW label \in [S -> Kinds], NEW k \in Nat, NEW s \in [1 .. k -> S]
  PROVE  /\ \A kind : Hits(label, s, k, kind) \in Nat
         /\ Hits(label, s, k, "other") = k - Hits(label, s, k, "correct") - Hits(label, s, k, "mode")
<1> DEFINE At(kind) == {t \in 1 .. k : label[s[t]] = kind}
           X == At("correct")
           Y == At("mode")
           Z == At("other")
<1>1. ASSUME NEW kind PROVE IsFiniteSet(At(kind)) /\ Hits(label, s, k, kind) = Cardinality(At(kind))
  <2>1. IsFiniteSet(1 .. k) /\ At(kind) \in SUBSET (1 .. k)
    BY FS_Interval
  <2>2. Hits(label, s, k, kind) = Cardinality(At(kind))
    BY DEF Hits
  <2> HIDE DEF At
  <2> QED BY <2>1, <2>2, FS_Subset
<1>2. /\ X \cap Y = {} /\ (X \cup Y) \cap Z = {}
      /\ (X \cup Y) \cup Z = 1 .. k
  <2>1. \A t \in 1 .. k : label[s[t]] \in Kinds
    OBVIOUS
  <2> QED BY <2>1 DEF Kinds
<1>3. IsFiniteSet(X) /\ IsFiniteSet(Y) /\ IsFiniteSet(Z)
  BY <1>1
<1>4. /\ Hits(label, s, k, "correct") = Cardinality(X)
      /\ Hits(label, s, k, "mode") = Cardinality(Y)
      /\ Hits(label, s, k, "other") = Cardinality(Z)
  BY <1>1
<1> HIDE DEF X, Y, Z
<1>5. Cardinality(X) \in Nat /\ Cardinality(Y) \in Nat /\ Cardinality(Z) \in Nat
  BY <1>3, FS_CardinalityType
<1>6. IsFiniteSet(X \cup Y) /\ Cardinality(X \cup Y) = Cardinality(X) + Cardinality(Y)
  <2>1. Cardinality(X \cap Y) = 0
    BY <1>2, FS_EmptySet
  <2>2. IsFiniteSet(X \cup Y)
        /\ Cardinality(X \cup Y) = Cardinality(X) + Cardinality(Y) - Cardinality(X \cap Y)
    BY <1>3, FS_Union
  <2> QED BY <1>5, <2>1, <2>2
<1>7. Cardinality((X \cup Y) \cup Z) = Cardinality(X) + Cardinality(Y) + Cardinality(Z)
  <2>1. Cardinality((X \cup Y) \cap Z) = 0
    BY <1>2, FS_EmptySet
  <2>2. Cardinality((X \cup Y) \cup Z)
          = Cardinality(X \cup Y) + Cardinality(Z) - Cardinality((X \cup Y) \cap Z)
    BY <1>3, <1>6, FS_Union
  <2> QED BY <1>5, <1>6, <2>1, <2>2
<1>8. Cardinality(1 .. k) = k
  BY FS_Interval
<1>9. Hits(label, s, k, "other") = k - Hits(label, s, k, "correct") - Hits(label, s, k, "mode")
  <2>1. Cardinality(X) + Cardinality(Y) + Cardinality(Z) = k
    BY <1>2, <1>7, <1>8, Zenon
  <2>2. \A p, q, u, n \in Nat : p + q + u = n => u = n - p - q
    OBVIOUS
  <2> QED BY <1>4, <1>5, <2>1, <2>2
<1>10. ASSUME NEW kind PROVE Hits(label, s, k, kind) \in Nat
  <2>1. IsFiniteSet(At(kind)) /\ Hits(label, s, k, kind) = Cardinality(At(kind))
    BY <1>1
  <2> HIDE DEF At
  <2> QED BY <2>1, FS_CardinalityType
<1> QED BY <1>9, <1>10

(* The draws in which the mode ties or beats the correct answer, what each  *)
(* of them has of the two, and what they weigh if such have weight f.       *)
Wins(label, S) ==
  {s \in [1 .. K -> S] : Hits(label, s, K, "mode") >= Hits(label, s, K, "correct")}
SplitOf(label, S) ==
  [s \in Wins(label, S) |-> <<Hits(label, s, K, "correct"), Hits(label, s, K, "mode")>>]
SplitCount(label, S, d) == Cardinality(Splits(label, S, K, d[1], d[2]))
BySplit(label, S, f) == [d \in Defeats |-> SplitCount(label, S, d) * f[d]]

(* There are finitely many defeats, each a pair of numbers.                 *)
LEMMA DefeatsFinite ==
  IsFiniteSet(Defeats) /\ \A d \in Defeats : /\ d[1] \in 0 .. K /\ d[2] \in 0 .. K
                                             /\ d[2] >= d[1] /\ d[1] + d[2] <= K
<1>1. K \in Int
  BY VoteThreatAssumption
<1>2. IsFiniteSet(0 .. K)
  BY <1>1, FS_Interval
<1>3. IsFiniteSet((0 .. K) \X (0 .. K))
  BY <1>2, FS_Product
<1>4. Defeats \in SUBSET ((0 .. K) \X (0 .. K))
  BY DEF Defeats
<1>5. IsFiniteSet(Defeats)
  BY <1>3, <1>4, FS_Subset
<1>6. \A d \in Defeats : /\ d[1] \in 0 .. K /\ d[2] \in 0 .. K
                         /\ d[2] >= d[1] /\ d[1] + d[2] <= K
  BY DEF Defeats
<1> QED BY <1>5, <1>6

(* There are finitely many draws the mode wins.                             *)
LEMMA WinsFinite ==
  ASSUME NEW S, IsFiniteSet(S), NEW label
  PROVE  IsFiniteSet(Wins(label, S)) /\ Cardinality(Wins(label, S)) \in Nat
<1>1. IsFiniteSet([1 .. K -> S])
  <2>1. K \in Nat
    BY VoteThreatAssumption
  <2> QED BY <2>1, DrawsCount
<1>2. Wins(label, S) \in SUBSET [1 .. K -> S]
  BY DEF Wins
<1> QED BY <1>1, <1>2, FS_Subset, FS_CardinalityType

(* What each has of the two counts against the correct answer.              *)
LEMMA SplitsDefeat ==
  ASSUME NEW S, NEW label, label \in [S -> Kinds]
  PROVE  Maps(SplitOf(label, S), Wins(label, S), Defeats)
<1> DEFINE W == Wins(label, S)
           r == SplitOf(label, S)
<1>0. K \in Nat
  BY VoteThreatAssumption
<1>1. ASSUME NEW s \in W PROVE r[s] \in Defeats
  <2> DEFINE c == Hits(label, s, K, "correct")
             m == Hits(label, s, K, "mode")
  <2>1. s \in [1 .. K -> S] /\ m >= c /\ r[s] = <<c, m>>
    BY DEF Wins, SplitOf
  <2>2. c \in Nat /\ m \in Nat /\ Hits(label, s, K, "other") \in Nat
        /\ Hits(label, s, K, "other") = K - c - m
    BY <1>0, <2>1, HitsAll
  <2> HIDE DEF c, m
  <2>3. c \in 0 .. K /\ m \in 0 .. K /\ c + m <= K
    BY <1>0, <2>2
  <2>4. <<c, m>> \in Defeats
    BY <2>1, <2>3 DEF Defeats
  <2> QED BY <2>1, <2>4
<1>2. Maps(r, W, Defeats)
  <2>1. r = [s \in W |-> r[s]]
    BY DEF SplitOf
  <2> HIDE DEF r, W
  <2> QED BY <1>1, <2>1 DEF Maps
<1> QED BY <1>2

(* Their weight is a sum over what they have of the two.                    *)
LEMMA WinsBySplit ==
  ASSUME NEW S, IsFiniteSet(S), NEW label, label \in [S -> Kinds], NEW f, IntegerOn(f, Defeats)
  PROVE  SumFunctionOnSet(Along(f, SplitOf(label, S), Wins(label, S)), Wins(label, S))
           = SumFunctionOnSet(BySplit(label, S, f), Defeats)
<1> DEFINE W == Wins(label, S)
           r == SplitOf(label, S)
<1>1. Maps(r, W, Defeats)
  BY SplitsDefeat
<1>2. ASSUME NEW d \in Defeats PROVE Times(r, W, d) = SplitCount(label, S, d)
  <2>1. d = <<d[1], d[2]>> /\ d[2] >= d[1]
    BY DEF Defeats
  <2>2. {s \in W : r[s] = d} = Splits(label, S, K, d[1], d[2])
    <3>1. ASSUME NEW s \in W PROVE r[s] = d <=> /\ Hits(label, s, K, "correct") = d[1]
                                                /\ Hits(label, s, K, "mode") = d[2]
      <4>1. r[s] = <<Hits(label, s, K, "correct"), Hits(label, s, K, "mode")>>
        BY DEF SplitOf
      <4> QED BY <2>1, <4>1
    <3>2. ASSUME NEW s \in Splits(label, S, K, d[1], d[2]) PROVE s \in W
      BY <2>1 DEF Splits, Wins
    <3>3. W \subseteq [1 .. K -> S] /\ Splits(label, S, K, d[1], d[2]) \subseteq [1 .. K -> S]
      BY DEF Wins, Splits
    <3> HIDE DEF W, r
    <3>4. \A s \in W : s \in Splits(label, S, K, d[1], d[2]) <=> r[s] = d
      BY <3>1, <3>3 DEF Splits
    <3> QED BY <3>2, <3>4
  <2> QED BY <2>2 DEF Times, SplitCount
<1>3. Weighted(f, r, W, Defeats) = BySplit(label, S, f)
  BY <1>2 DEF Weighted, BySplit
<1>4. IsFiniteSet(W) /\ IsFiniteSet(Defeats)
  BY WinsFinite, DefeatsFinite
<1> HIDE DEF W, r
<1>5. SumFunctionOnSet(Along(f, r, W), W) = SumFunctionOnSet(Weighted(f, r, W, Defeats), Defeats)
  BY <1>1, <1>4, RegroupedSums
<1>6. SumFunctionOnSet(Along(f, r, W), W) = SumFunctionOnSet(BySplit(label, S, f), Defeats)
  BY <1>3, <1>5
<1> QED BY <1>6 DEF W, r

(* The terms of the closed form.                                            *)
ThreatTerms(c, m, size) ==
  [d \in Defeats |-> Multinomial(d[1], d[2]) * VotesWeight(d, c, m, size)]

(* Each is the weight of a split, a multinomial coefficient times that of    *)
(* one draw.                                                                *)
LEMMA TermsAre ==
  ASSUME NEW c \in Int, NEW m \in Int, NEW size \in Int, NEW d \in Defeats
  PROVE  /\ VotesWeight(d, c, m, size) \in Int
         /\ Multinomial(d[1], d[2]) = SplitWeight(K, d[1], d[2], 1, 1, 1)
         /\ Multinomial(d[1], d[2]) * VotesWeight(d, c, m, size)
              = SplitWeight(K, d[1], d[2], Smoothed(c), Smoothed(m), Smoothed(size - c - m))
         /\ Multinomial(d[1], d[2]) \in Int
<1> DEFINE a == d[1]
           b == d[2]
           x == Smoothed(c)
           y == Smoothed(m)
           z == Smoothed(size - c - m)
<1>1. K \in Nat /\ a \in 0 .. K /\ b \in 0 .. K /\ a + b <= K
  BY VoteThreatAssumption, DefeatsFinite
<1>2. a \in Nat /\ b \in Nat /\ K - a - b \in Nat /\ K - a \in Nat /\ b \in 0 .. K - a
      /\ a \in Int /\ b \in Int
  <2> HIDE DEF a, b
  <2> QED BY <1>1
<1>3. x \in Int /\ y \in Int /\ z \in Int
  BY VoteThreatAssumption DEF Smoothed
<1>4. Multinomial(a, b) = Arrangements(K, a, b)
  <2> HIDE DEF a, b
  <2> QED BY <1>1, <1>2 DEF Multinomial, Arrangements, Chosen
<1>5. Arrangements(K, a, b) \in Nat
  <2> HIDE DEF a, b
  <2> QED BY <1>1, <1>2, ArrangementsType
<1>6. \A u : PowerOrNone(u, a) = Power(u, a) /\ PowerOrNone(u, b) = Power(u, b)
             /\ PowerOrNone(u, K - a - b) = Power(u, K - a - b)
  <2> HIDE DEF a, b
  <2> QED BY <1>2 DEF PowerOrNone
<1>7. VotesWeight(d, c, m, size)
        = PowerOrNone(x, a) * PowerOrNone(y, b) * PowerOrNone(z, K - a - b)
  BY <1>6 DEF VotesWeight
<1>8. PowerOrNone(x, a) \in Int /\ PowerOrNone(y, b) \in Int /\ PowerOrNone(z, K - a - b) \in Int
  <2>1. K - a - b \in Int
    BY <1>2
  <2> HIDE DEF a, b, x, y, z
  <2> QED BY <1>2, <1>3, <2>1, PowerOrNoneIs
<1>9. VotesWeight(d, c, m, size) \in Int
  <2>1. \A p, q, r \in Int : p * q * r \in Int
    OBVIOUS
  <2> HIDE DEF a, b, x, y, z
  <2> QED BY <1>7, <1>8, <2>1
<1>10. Multinomial(a, b) * VotesWeight(d, c, m, size) = SplitWeight(K, a, b, x, y, z)
  <2> HIDE DEF a, b, x, y, z
  <2> QED BY <1>4, <1>7 DEF SplitWeight
<1>11. Multinomial(a, b) = SplitWeight(K, a, b, 1, 1, 1)
  <2>1. \A n \in Nat : PowerOrNone(1, n) = 1
    BY PowerOfOne DEF PowerOrNone
  <2>2. PowerOrNone(1, a) = 1 /\ PowerOrNone(1, b) = 1 /\ PowerOrNone(1, K - a - b) = 1
    BY <1>2, <2>1
  <2> HIDE DEF a, b
  <2>3. SplitWeight(K, a, b, 1, 1, 1) = Arrangements(K, a, b) * (1 * 1 * 1)
    BY <2>2 DEF SplitWeight
  <2> QED BY <1>4, <1>5, <2>3
<1> QED BY <1>4, <1>5, <1>9, <1>10, <1>11

(* The risk is a number, whatever the counts are.                           *)
LEMMA ThreatType ==
  ASSUME NEW c \in Int, NEW m \in Int, NEW size \in Int
  PROVE  Threat(c, m, size) \in Int
<1> DEFINE f == ThreatTerms(c, m, size)
<1>1. \A d \in Defeats : f[d] \in Int
  <2> SUFFICES ASSUME NEW d \in Defeats PROVE f[d] \in Int
    OBVIOUS
  <2> DEFINE p == Multinomial(d[1], d[2])
             q == VotesWeight(d, c, m, size)
  <2>1. f[d] = p * q
    BY DEF ThreatTerms
  <2>2. p \in Int /\ q \in Int
    BY TermsAre
  <2> HIDE DEF f, p, q
  <2> QED BY <2>1, <2>2
<1>2. DOMAIN f = Defeats /\ Threat(c, m, size) = SumFunction(f)
  BY DEF Threat, ThreatTerms
<1> HIDE DEF f
<1>3. SumFunctionOnSet(f, Defeats) \in Int
  BY <1>1, DefeatsFinite, SumType
<1> QED BY <1>2, <1>3 DEF SumFunction

(* Whatever the ballots are, if so many are of each kind the closed form is *)
(* the number of draws in which the mode ties or beats the correct answer.  *)
LEMMA ThreatCounts ==
  ASSUME NEW S, IsFiniteSet(S), NEW label, label \in [S -> Kinds],
         NEW c \in Int, NEW m \in Int, NEW size \in Int,
         Cardinality(Ballots(label, S, "correct")) = Smoothed(c),
         Cardinality(Ballots(label, S, "mode")) = Smoothed(m),
         Cardinality(Ballots(label, S, "other")) = Smoothed(size - c - m)
  PROVE  Threat(c, m, size) = Cardinality(Wins(label, S))
<1> DEFINE W == Wins(label, S)
           r == SplitOf(label, S)
           one == [d \in Defeats |-> 1]
           each == Along(one, r, W)
           f == ThreatTerms(c, m, size)
           g == BySplit(label, S, one)
<1>1. IsFiniteSet(W) /\ Cardinality(W) \in Nat /\ IsFiniteSet(Defeats) /\ K \in Nat
  BY WinsFinite, DefeatsFinite, VoteThreatAssumption
<1>2. Maps(r, W, Defeats)
  BY SplitsDefeat
<1>3. \A s \in W : each[s] = 1
  <2>1. \A s \in W : r[s] \in Defeats
    BY <1>2 DEF Maps
  <2> HIDE DEF W, r
  <2> QED BY <2>1 DEF Along
<1>4. SumFunctionOnSet(each, W) = Cardinality(W)
  <2> HIDE DEF each, W
  <2>1. Affine(W, 0, each, 1, each)
    BY <1>3 DEF Affine
  <2>2. 0 \in Int /\ 1 \in Int
    OBVIOUS
  <2>3. SumFunctionOnSet(each, W) = 0 * SumFunctionOnSet(each, W) + 1 * Cardinality(W)
    BY <1>1, <2>1, <2>2, AffineSums
  <2>4. SumFunctionOnSet(each, W) \in Int
    <3>1. \A s \in W : each[s] \in Int
      BY <1>3
    <3> QED BY <1>1, <3>1, SumType
  <2> QED BY <1>1, <2>3, <2>4
<1>5. SumFunctionOnSet(each, W) = SumFunctionOnSet(g, Defeats)
  <2>1. IntegerOn(one, Defeats)
    BY DEF IntegerOn
  <2> HIDE DEF one
  <2> QED BY <2>1, WinsBySplit
<1>6. \A d \in Defeats : f[d] \in Int /\ g[d] = f[d]
  <2> SUFFICES ASSUME NEW d \in Defeats PROVE f[d] \in Int /\ g[d] = f[d]
    OBVIOUS
  <2> DEFINE p == Multinomial(d[1], d[2])
             q == VotesWeight(d, c, m, size)
             n == SplitCount(label, S, d)
  <2>1. f[d] = p * q /\ g[d] = n * 1
    BY DEF ThreatTerms, BySplit
  <2>2. p \in Int /\ q \in Int
        /\ p * q = SplitWeight(K, d[1], d[2], Smoothed(c), Smoothed(m), Smoothed(size - c - m))
    BY TermsAre
  <2>3. n \in Nat
    BY <1>1, SplitsFinite DEF SplitCount
  <2>4. n = SplitWeight(K, d[1], d[2], Smoothed(c), Smoothed(m), Smoothed(size - c - m))
    <3>1. CountedRight(label, S, K)
      BY <1>1, SplitsCount
    <3>2. d[1] \in Int /\ d[2] \in Int
      BY <1>1, DefeatsFinite
    <3> QED BY <3>1, <3>2 DEF CountedRight, SplitCount
  <2> HIDE DEF f, g, p, q, n
  <2>5. n * 1 = n
    BY <2>3
  <2> QED BY <2>1, <2>2, <2>3, <2>4, <2>5
<1>7. SumFunctionOnSet(g, Defeats) = SumFunctionOnSet(f, Defeats)
  <2> HIDE DEF f, g
  <2> QED BY <1>1, <1>6, SumSame
<1>8. Threat(c, m, size) = SumFunctionOnSet(f, Defeats)
  <2>1. DOMAIN f = Defeats /\ Threat(c, m, size) = SumFunction(f)
    BY DEF Threat, ThreatTerms
  <2> HIDE DEF f
  <2> QED BY <2>1 DEF SumFunction
<1> QED BY <1>4, <1>5, <1>7, <1>8

(* With one ballot of each kind there are as many draws of one split as its *)
(* multinomial coefficient says, which relates the two sums of VoteThreat.  *)
LEMMA ThreatDrawn ==
  ASSUME NEW c \in Int, NEW m \in Int, NEW size \in Int
  PROVE  Threat(c, m, size) = DrawnThreat(c, m, size)
<1> DEFINE id == [x \in Kinds |-> x]
           W == Wins(id, Kinds)
           r == SplitOf(id, Kinds)
           w == [d \in Defeats |-> VotesWeight(d, c, m, size)]
           each == Along(w, r, W)
           f == ThreatTerms(c, m, size)
           g == BySplit(id, Kinds, w)
           h == [d \in {e \in Draws : Drawn(e, "mode") >= Drawn(e, "correct")} |->
                   Power(Smoothed(c), Drawn(d, "correct"))
                     * Power(Smoothed(m), Drawn(d, "mode"))
                     * Power(Smoothed(size - c - m), Drawn(d, "other"))]
<1>1. IsFiniteSet(Kinds) /\ \A kind \in Kinds : Cardinality(Ballots(id, Kinds, kind)) = 1
  <2>1. IsFiniteSet(Kinds)
    <3>1. IsFiniteSet({}) /\ Kinds = (({} \cup {"correct"}) \cup {"mode"}) \cup {"other"}
      BY FS_EmptySet DEF Kinds
    <3> QED BY <3>1, FS_AddElement
  <2>2. \A kind \in Kinds : Ballots(id, Kinds, kind) = {kind}
    BY DEF Ballots
  <2> QED BY <2>1, <2>2, FS_Singleton
<1>2. id \in [Kinds -> Kinds] /\ K \in Nat /\ IsFiniteSet(W) /\ IsFiniteSet(Defeats)
  BY <1>1, WinsFinite, DefeatsFinite, VoteThreatAssumption
<1>3. \A s \in [1 .. K -> Kinds] : \A kind : Hits(id, s, K, kind) = Drawn(s, kind)
  <2> SUFFICES ASSUME NEW s \in [1 .. K -> Kinds], NEW kind PROVE Hits(id, s, K, kind) = Drawn(s, kind)
    OBVIOUS
  <2>1. \A t \in 1 .. K : id[s[t]] = s[t]
    OBVIOUS
  <2> HIDE DEF id
  <2>2. {t \in 1 .. K : id[s[t]] = kind} = {t \in 1 .. K : s[t] = kind}
    BY <2>1
  <2> QED BY <2>2 DEF Hits, Drawn
<1>4. W = {e \in Draws : Drawn(e, "mode") >= Drawn(e, "correct")}
  <2>1. Draws = [1 .. K -> Kinds]
    BY DEF Draws, Kinds
  <2> HIDE DEF id
  <2>2. \A s \in Draws : s \in W <=> Drawn(s, "mode") >= Drawn(s, "correct")
    BY <1>3, <2>1 DEF Wins
  <2>3. W \subseteq Draws
    BY <2>1 DEF Wins
  <2> QED BY <2>2, <2>3
<1>5. Maps(r, W, Defeats)
  BY <1>2, SplitsDefeat
<1>6. IntegerOn(w, Defeats)
  BY TermsAre DEF IntegerOn
<1>7. \A s \in W : each[s] = h[s] /\ each[s] \in Int
  <2> SUFFICES ASSUME NEW s \in W PROVE each[s] = h[s] /\ each[s] \in Int
    OBVIOUS
  <2>1. r[s] = <<Drawn(s, "correct"), Drawn(s, "mode")>> /\ s \in [1 .. K -> Kinds]
    <3>1. s \in [1 .. K -> Kinds] /\ r[s] = <<Hits(id, s, K, "correct"), Hits(id, s, K, "mode")>>
      BY DEF SplitOf, Wins
    <3> HIDE DEF id, r
    <3> QED BY <1>3, <3>1
  <2>2. r[s] \in Defeats
    BY <1>5 DEF Maps
  <2>3. Drawn(s, "other") = K - Drawn(s, "correct") - Drawn(s, "mode")
    <3> HIDE DEF id
    <3>1. Hits(id, s, K, "other") = K - Hits(id, s, K, "correct") - Hits(id, s, K, "mode")
      BY <1>2, <2>1, HitsAll
    <3> QED BY <1>3, <2>1, <3>1
  <2>4. each[s] = w[r[s]] /\ w[r[s]] = VotesWeight(r[s], c, m, size)
    BY <2>2 DEF Along
  <2>5. r[s][1] = Drawn(s, "correct") /\ r[s][2] = Drawn(s, "mode")
    BY <2>1
  <2>6. h[s] = Power(Smoothed(c), Drawn(s, "correct")) * Power(Smoothed(m), Drawn(s, "mode"))
                 * Power(Smoothed(size - c - m), Drawn(s, "other"))
    BY <1>4
  <2>7. VotesWeight(r[s], c, m, size) = h[s]
    <3> HIDE DEF r, h
    <3> QED BY <2>3, <2>5, <2>6 DEF VotesWeight
  <2>8. w[r[s]] \in Int
    BY <1>6, <2>2 DEF IntegerOn
  <2> HIDE DEF each, h, r, w
  <2> QED BY <2>4, <2>7, <2>8
<1>8. DrawnThreat(c, m, size) = SumFunctionOnSet(h, W)
  <2>1. DOMAIN h = W /\ DrawnThreat(c, m, size) = SumFunction(h)
    BY <1>4 DEF DrawnThreat
  <2> HIDE DEF h, W
  <2> QED BY <2>1 DEF SumFunction
<1>9. SumFunctionOnSet(h, W) = SumFunctionOnSet(each, W)
  <2> HIDE DEF h, each, W
  <2> QED BY <1>2, <1>7, SumSame
<1>10. SumFunctionOnSet(each, W) = SumFunctionOnSet(g, Defeats)
  <2> HIDE DEF id, w
  <2> QED BY <1>1, <1>2, <1>6, WinsBySplit
<1>11. \A d \in Defeats : f[d] \in Int /\ g[d] = f[d]
  <2> SUFFICES ASSUME NEW d \in Defeats PROVE f[d] \in Int /\ g[d] = f[d]
    OBVIOUS
  <2> DEFINE p == Multinomial(d[1], d[2])
             q == VotesWeight(d, c, m, size)
             n == SplitCount(id, Kinds, d)
  <2>1. f[d] = p * q /\ g[d] = n * q
    BY DEF ThreatTerms, BySplit
  <2>2. p \in Int /\ q \in Int /\ p = SplitWeight(K, d[1], d[2], 1, 1, 1)
    BY TermsAre
  <2>3. n = SplitWeight(K, d[1], d[2], 1, 1, 1)
    <3> HIDE DEF id
    <3>1. CountedRight(id, Kinds, K)
      BY <1>1, <1>2, SplitsCount
    <3>2. d[1] \in Int /\ d[2] \in Int
      BY <1>2, DefeatsFinite
    <3>3. "correct" \in Kinds /\ "mode" \in Kinds /\ "other" \in Kinds
      BY DEF Kinds
    <3> QED BY <1>1, <3>1, <3>2, <3>3 DEF CountedRight, SplitCount
  <2> HIDE DEF f, g, p, q, n
  <2> QED BY <2>1, <2>2, <2>3
<1>12. SumFunctionOnSet(g, Defeats) = SumFunctionOnSet(f, Defeats)
  <2> HIDE DEF f, g
  <2> QED BY <1>2, <1>11, SumSame
<1>13. Threat(c, m, size) = SumFunctionOnSet(f, Defeats)
  <2>1. DOMAIN f = Defeats /\ Threat(c, m, size) = SumFunction(f)
    BY DEF Threat, ThreatTerms
  <2> HIDE DEF f
  <2> QED BY <2>1 DEF SumFunction
<1> QED BY <1>8, <1>9, <1>10, <1>12, <1>13

-----------------------------------------------------------------------------
(* The ballots of a group: its smoothed counts, one kind after another.     *)
BallotBox(size) == 1 .. Total(size)
BallotKind(c, m, size) ==
  [x \in BallotBox(size) |->
     IF x <= Smoothed(c) THEN "correct"
     ELSE IF x <= Smoothed(c) + Smoothed(m) THEN "mode" ELSE "other"]

(* There are as many of a kind as its smoothed count says.                  *)
LEMMA BallotsCount ==
  ASSUME NEW size \in Nat, NEW c \in Nat, NEW m \in Nat, c + m <= size
  PROVE  /\ IsFiniteSet(BallotBox(size)) /\ Cardinality(BallotBox(size)) = Total(size)
         /\ Total(size) \in Nat
         /\ BallotKind(c, m, size) \in [BallotBox(size) -> Kinds]
         /\ Cardinality(Ballots(BallotKind(c, m, size), BallotBox(size), "correct")) = Smoothed(c)
         /\ Cardinality(Ballots(BallotKind(c, m, size), BallotBox(size), "mode")) = Smoothed(m)
         /\ Cardinality(Ballots(BallotKind(c, m, size), BallotBox(size), "other"))
              = Smoothed(size - c - m)
<1> DEFINE S == BallotBox(size)
           label == BallotKind(c, m, size)
           x == Smoothed(c)
           y == Smoothed(m)
           z == Smoothed(size - c - m)
           n == Total(size)
<1>1. x \in Nat /\ y \in Nat /\ z \in Nat /\ n = x + y + z /\ n \in Nat
  BY VoteThreatAssumption DEF Smoothed, Total
<1>2. S = 1 .. n /\ \A b \in S : label[b] = IF b <= x THEN "correct" ELSE IF b <= x + y THEN "mode" ELSE "other"
  BY DEF BallotBox, BallotKind
<1>3. label \in [S -> Kinds]
  BY DEF BallotKind, Kinds
<1> HIDE DEF S, label, x, y, z, n
<1>4. /\ Ballots(label, S, "correct") = 1 .. x
      /\ Ballots(label, S, "mode") = x + 1 .. x + y
      /\ Ballots(label, S, "other") = x + y + 1 .. n
  <2>1. \A b \in Int : b \in Ballots(label, S, "correct") <=> b \in 1 .. x
    BY <1>1, <1>2 DEF Ballots
  <2>2. \A b \in Int : b \in Ballots(label, S, "mode") <=> b \in x + 1 .. x + y
    BY <1>1, <1>2 DEF Ballots
  <2>3. \A b \in Int : b \in Ballots(label, S, "other") <=> b \in x + y + 1 .. n
    BY <1>1, <1>2 DEF Ballots
  <2>4. \A kind : Ballots(label, S, kind) \subseteq Int
    BY <1>1, <1>2 DEF Ballots
  <2>5. 1 .. x \subseteq Int /\ x + 1 .. x + y \subseteq Int /\ x + y + 1 .. n \subseteq Int
    BY <1>1
  <2>6. \A A, B : A \subseteq Int /\ B \subseteq Int /\ (\A b \in Int : b \in A <=> b \in B) => A = B
    OBVIOUS
  <2>7. Ballots(label, S, "correct") = 1 .. x
    BY <2>1, <2>4, <2>5, <2>6, Zenon
  <2>8. Ballots(label, S, "mode") = x + 1 .. x + y
    BY <2>2, <2>4, <2>5, <2>6, Zenon
  <2>9. Ballots(label, S, "other") = x + y + 1 .. n
    BY <2>3, <2>4, <2>5, <2>6, Zenon
  <2> QED BY <2>7, <2>8, <2>9
<1>5. /\ IsFiniteSet(1 .. n) /\ Cardinality(1 .. n) = n
      /\ Cardinality(1 .. x) = x
      /\ Cardinality(x + 1 .. x + y) = y
      /\ Cardinality(x + y + 1 .. n) = z
  <2>0. \A i, e \in Int : Cardinality(i .. e) = IF i > e THEN 0 ELSE e - i + 1
    BY FS_Interval
  <2>1. /\ 1 \in Int /\ x \in Int /\ n \in Int
        /\ x + 1 \in Int /\ x + y \in Int /\ x + y + 1 \in Int
    BY <1>1
  <2>2. IsFiniteSet(1 .. n) /\ Cardinality(1 .. n) = IF 1 > n THEN 0 ELSE n - 1 + 1
    BY <2>1, FS_Interval
  <2>3. Cardinality(1 .. x) = IF 1 > x THEN 0 ELSE x - 1 + 1
    BY <2>0, <2>1, Zenon
  <2>4. Cardinality(x + 1 .. x + y) = y
    <3> DEFINE i == x + 1
               e == x + y
               w == Cardinality(i .. e)
    <3>1. i \in Int /\ e \in Int /\ i = x + 1 /\ e = x + y
      BY <2>1
    <3> HIDE DEF i, e
    <3>2. w = IF i > e THEN 0 ELSE e - i + 1
      BY <2>0, <3>1
    <3> HIDE DEF w
    <3>3. w = y
      BY <1>1, <3>1, <3>2
    <3> QED BY <3>3, Zenon DEF w, i, e
  <2>5. Cardinality(x + y + 1 .. n) = IF x + y + 1 > n THEN 0 ELSE n - (x + y + 1) + 1
    BY <2>0, <2>1, Zenon
  <2> DEFINE j == Cardinality(1 .. n)
             k == Cardinality(1 .. x)
             r == Cardinality(x + y + 1 .. n)
  <2> HIDE DEF j, k, r
  <2>6. j = n /\ k = x /\ r = z
    BY <1>1, <2>2, <2>3, <2>5 DEF j, k, r
  <2> QED BY <2>2, <2>4, <2>6 DEF j, k, r
<1>6. /\ IsFiniteSet(S) /\ Cardinality(S) = n
      /\ Cardinality(Ballots(label, S, "correct")) = x
      /\ Cardinality(Ballots(label, S, "mode")) = y
      /\ Cardinality(Ballots(label, S, "other")) = z
  BY <1>2, <1>4, <1>5
<1> QED BY <1>1, <1>3, <1>6 DEF S, label, x, y, z, n

(* The closed form counts the draws of K ballots, with replacement, in      *)
(* which the mode ties or beats the correct answer.                         *)
LEMMA ThreatBallots ==
  ASSUME NEW size, NEW c, NEW m, size \in Nat, c \in Nat, m \in Nat, c + m <= size
  PROVE  Threat(c, m, size) = Cardinality(Wins(BallotKind(c, m, size), BallotBox(size)))
<1> DEFINE S == BallotBox(size)
           label == BallotKind(c, m, size)
<1>1. c \in Int /\ m \in Int /\ size \in Int
  OBVIOUS
<1>2. /\ IsFiniteSet(S) /\ label \in [S -> Kinds]
      /\ Cardinality(Ballots(label, S, "correct")) = Smoothed(c)
      /\ Cardinality(Ballots(label, S, "mode")) = Smoothed(m)
      /\ Cardinality(Ballots(label, S, "other")) = Smoothed(size - c - m)
  BY BallotsCount
<1> HIDE DEF S, label
<1>3. Threat(c, m, size) = Cardinality(Wins(label, S))
  BY <1>1, <1>2, ThreatCounts
<1> QED BY <1>3 DEF S, label

(* The closed form of vote_risk_single_mode is the probability it stands    *)
(* for: for every number K of draws, every smoothing and all counts, it is  *)
(* the weight of the draws in which the mode gets as many votes as the      *)
(* correct answer or more, and at most that of all draws.                   *)
THEOREM ThreatIsProbability ==
  ASSUME NEW size, NEW c, NEW m, size \in Nat, c \in Nat, m \in Nat, c + m <= size
  PROVE  /\ Threat(c, m, size) = DrawnThreat(c, m, size)
         /\ Threat(c, m, size) \in 0 .. ThreatDen(size)
<1> DEFINE S == BallotBox(size)
           W == Wins(BallotKind(c, m, size), S)
           D == [1 .. K -> S]
<1>0. K \in Nat
  BY VoteThreatAssumption
<1>1. Threat(c, m, size) = DrawnThreat(c, m, size)
  <2>1. c \in Int /\ m \in Int /\ size \in Int
    OBVIOUS
  <2> QED BY <2>1, ThreatDrawn
<1>2. Threat(c, m, size) = Cardinality(W)
  BY ThreatBallots
<1>3. IsFiniteSet(S) /\ Cardinality(S) = Total(size)
  BY BallotsCount
<1>4. W \in SUBSET D
  BY DEF Wins
<1> HIDE DEF S, W
<1>5. IsFiniteSet(D) /\ Cardinality(D) = ThreatDen(size)
  BY <1>0, <1>3, DrawsCount DEF ThreatDen
<1> HIDE DEF D
<1>6. IsFiniteSet(W) /\ Cardinality(W) \in Nat /\ Cardinality(D) \in Nat /\ Cardinality(W) <= Cardinality(D)
  BY <1>4, <1>5, FS_Subset, FS_CardinalityType
<1> QED BY <1>1, <1>2, <1>5, <1>6

(* More votes are more risk: a vote that goes over from the others to the   *)
(* mode loses it no draw and wins it one, in which the correct answer has   *)
(* one vote and the mode, but for the vote that went over, none.            *)
THEOREM MoreVotesMoreRisk ==
  ASSUME K > 1, NEW size, NEW c, NEW m, NEW n,
         size \in Nat, c \in Nat \ {0}, m \in Nat, n \in Nat, m < n, c + n <= size
  PROVE  Threat(c, m, size) < Threat(c, n, size)
<1> DEFINE S == BallotBox(size)
           few == BallotKind(c, m, size)
           many == BallotKind(c, n, size)
           F == Wins(few, S)
           M == Wins(many, S)
           x == Smoothed(c)
           p == Smoothed(m)
           q == Smoothed(n)
           last == x + p + 1
           s == [t \in 1 .. K |-> IF t = 1 THEN 1 ELSE last]
<1>0. K \in Nat /\ 1 \in 1 .. K /\ 2 \in 1 .. K
  BY VoteThreatAssumption
<1>1. /\ x \in Nat /\ p \in Nat /\ q \in Nat /\ x > 0 /\ p < q /\ x + q <= Total(size)
      /\ Total(size) \in Nat
  BY VoteThreatAssumption DEF Smoothed, Total
<1>2. /\ \A b \in S : few[b] = IF b <= x THEN "correct" ELSE IF b <= x + p THEN "mode" ELSE "other"
      /\ \A b \in S : many[b] = IF b <= x THEN "correct" ELSE IF b <= x + q THEN "mode" ELSE "other"
      /\ S = 1 .. Total(size)
  BY DEF BallotBox, BallotKind
<1>3. /\ Threat(c, m, size) = Cardinality(F) /\ Threat(c, n, size) = Cardinality(M)
      /\ IsFiniteSet(F) /\ IsFiniteSet(M)
  <2>1. c \in Nat /\ c + m <= size
    OBVIOUS
  <2>2. Threat(c, m, size) = Cardinality(F) /\ Threat(c, n, size) = Cardinality(M)
    BY <2>1, ThreatBallots
  <2>3. IsFiniteSet(S)
    BY <2>1, BallotsCount
  <2>4. IsFiniteSet(F) /\ IsFiniteSet(M)
    BY <2>3, WinsFinite
  <2> QED BY <2>2, <2>4
<1>4. 1 \in S /\ last \in S /\ last # 1
  <2> HIDE DEF x, p, q, S
  <2> QED BY <1>1, <1>2
<1>5. /\ few[1] = "correct" /\ many[1] = "correct"
      /\ few[last] = "other" /\ many[last] = "mode"
  <2> HIDE DEF x, p, q, S, few, many
  <2> QED BY <1>1, <1>2, <1>4
<1>6. /\ \A b \in S : few[b] = "correct" <=> many[b] = "correct"
      /\ \A b \in S : few[b] = "mode" => many[b] = "mode"
  <2>1. \A b \in S : b \in Nat
    BY <1>2
  <2> HIDE DEF x, p, q, S, few, many
  <2> QED BY <1>1, <1>2, <2>1
<1> DEFINE At(label, r, kind) == {t \in 1 .. K : label[r[t]] = kind}
<1>7. \A label, r, kind : /\ Hits(label, r, K, kind) = Cardinality(At(label, r, kind))
                          /\ IsFiniteSet(At(label, r, kind))
                          /\ Cardinality(At(label, r, kind)) \in Nat
  <2> SUFFICES ASSUME NEW label, NEW r, NEW kind
               PROVE  /\ Hits(label, r, K, kind) = Cardinality(At(label, r, kind))
                      /\ IsFiniteSet(At(label, r, kind))
                      /\ Cardinality(At(label, r, kind)) \in Nat
    OBVIOUS
  <2>1. Hits(label, r, K, kind) = Cardinality(At(label, r, kind))
    BY DEF Hits
  <2>2. At(label, r, kind) \in SUBSET (1 .. K) /\ IsFiniteSet(1 .. K)
    BY <1>0, FS_Interval
  <2> HIDE DEF At
  <2> QED BY <2>1, <2>2, FS_Subset, FS_CardinalityType
<1>8. F \subseteq M
  <2> SUFFICES ASSUME NEW r \in F PROVE r \in M
    OBVIOUS
  <2>1. r \in [1 .. K -> S] /\ Hits(few, r, K, "mode") >= Hits(few, r, K, "correct")
    BY DEF Wins
  <2>2. At(many, r, "correct") = At(few, r, "correct") /\ At(few, r, "mode") \in SUBSET At(many, r, "mode")
    <3>1. \A t \in 1 .. K : r[t] \in S
      BY <2>1
    <3> HIDE DEF few, many, S
    <3> QED BY <1>6, <3>1
  <2> HIDE DEF few, many, S, At
  <2>3. Cardinality(At(few, r, "mode")) <= Cardinality(At(many, r, "mode"))
    BY <1>7, <2>2, FS_Subset
  <2>4. Hits(many, r, K, "mode") >= Hits(many, r, K, "correct")
    <3>1. /\ Hits(few, r, K, "mode") \in Nat /\ Hits(few, r, K, "correct") \in Nat
          /\ Hits(many, r, K, "mode") \in Nat
          /\ Hits(many, r, K, "correct") = Hits(few, r, K, "correct")
          /\ Hits(few, r, K, "mode") <= Hits(many, r, K, "mode")
      BY <1>7, <2>2, <2>3
    <3> QED BY <2>1, <3>1
  <2> QED BY <2>1, <2>4 DEF Wins
<1>9. s \in M /\ s \notin F
  <2>1. s \in [1 .. K -> S] /\ s[1] = 1 /\ s[2] = last /\ \A t \in 1 .. K : t # 1 => s[t] = last
    BY <1>0, <1>4
  <2> HIDE DEF s, last, few, many, S, F, M
  <2>2. /\ At(few, s, "correct") = {1} /\ At(many, s, "correct") = {1}
        /\ At(few, s, "mode") = {} /\ 2 \in At(many, s, "mode")
    BY <1>0, <1>5, <2>1
  <2> HIDE DEF At
  <2>3. /\ Hits(few, s, K, "correct") = 1 /\ Hits(many, s, K, "correct") = 1
        /\ Hits(few, s, K, "mode") = 0
    BY <1>7, <2>2, FS_Singleton, FS_EmptySet
  <2>4. Hits(many, s, K, "mode") \in Nat /\ Hits(many, s, K, "mode") # 0
    BY <1>7, <2>2, FS_EmptySet
  <2>5. Hits(many, s, K, "mode") >= 1
    BY <2>4
  <2> QED BY <2>1, <2>3, <2>5 DEF Wins, F, M
<1> HIDE DEF F, M, s
<1>10. Cardinality(F) <= Cardinality(M) /\ Cardinality(F) # Cardinality(M)
  <2>1. F \in SUBSET M /\ F # M
    BY <1>8, <1>9
  <2> QED BY <1>3, <2>1, FS_Subset
<1>11. Cardinality(F) \in Nat /\ Cardinality(M) \in Nat
  BY <1>3, FS_CardinalityType
<1> QED BY <1>3, <1>10, <1>11

(* With a single draw the mode wins where the correct answer gets no vote,  *)
(* however many votes the mode has.                                         *)
LEMMA SingleDraw ==
  ASSUME K = 1, NEW size, NEW c, NEW m, NEW n,
         size \in Nat, c \in Nat, m \in Nat, n \in Nat, c + m <= size, c + n <= size
  PROVE  Threat(c, m, size) = Threat(c, n, size)
<1> DEFINE S == BallotBox(size)
           few == BallotKind(c, m, size)
           many == BallotKind(c, n, size)
<1>1. Threat(c, m, size) = Cardinality(Wins(few, S)) /\ Threat(c, n, size) = Cardinality(Wins(many, S))
  BY ThreatBallots
<1>2. /\ \A b \in S : few[b] = "correct" <=> many[b] = "correct"
  BY DEF BallotKind
<1> HIDE DEF S, few, many
<1>3. \A label : \A r \in [1 .. K -> S] :
        r \in Wins(label, S) <=> label[r[1]] # "correct"
  <2> SUFFICES ASSUME NEW label, NEW r \in [1 .. K -> S]
               PROVE  r \in Wins(label, S) <=> label[r[1]] # "correct"
    OBVIOUS
  <2> DEFINE C == {t \in 1 .. K : label[r[t]] = "correct"}
             M == {t \in 1 .. K : label[r[t]] = "mode"}
  <2>1. r \in Wins(label, S) <=> Cardinality(M) >= Cardinality(C)
    BY DEF Wins, Hits
  <2>2. /\ label[r[1]] = "correct" => C = {1} /\ M = {}
        /\ label[r[1]] # "correct" => C = {} /\ M \in {{}, {1}}
    <3>1. \A t : t \in 1 .. K <=> t = 1
      OBVIOUS
    <3> QED BY <3>1
  <2> HIDE DEF C, M
  <2>3. Cardinality({}) = 0 /\ Cardinality({1}) = 1
    BY FS_EmptySet, FS_Singleton
  <2> QED BY <2>1, <2>2, <2>3
<1>4. Wins(few, S) = Wins(many, S)
  <2>1. \A r \in [1 .. K -> S] : r[1] \in S
    OBVIOUS
  <2>2. \A r \in [1 .. K -> S] : r \in Wins(few, S) <=> r \in Wins(many, S)
    BY <1>2, <1>3, <2>1
  <2> QED BY <2>2 DEF Wins
<1> QED BY <1>1, <1>4

-----------------------------------------------------------------------------
(* What a behaviour keeps: only wrong responses are clustered, and a shaped *)
(* group is one that Shape has shaped.                                      *)
Shaped ==
  /\ Identifiable
  /\ Redistributes
  /\ DOMAIN rep = Wrong
  /\ scores = [i \in 1 .. G |->
                 group[i].adv * Scale + IF i \in Wrong THEN Delta(i) ELSE 0]

VoteInv ==
  /\ group \in Groups
  /\ rep = [i \in DOMAIN rep |-> rep[i]]
  /\ DOMAIN rep \subseteq Wrong
  /\ phase = "shaped" => Shaped

(* Nothing but group and launcher decides who votes.                        *)
LEMMA VotersKept ==
  ASSUME UNCHANGED <<launcher, group>>
  PROVE  /\ G' = G /\ Wrong' = Wrong /\ NumWrong' = NumWrong
         /\ NumCorrect' = NumCorrect /\ Identifiable' = Identifiable
         /\ GroupSize' = GroupSize /\ Reviewed' = Reviewed
<1>1. G' = G /\ Reviewed' = Reviewed
  BY DEF G, Reviewed
<1>2. \A i : Votes(i)' = Votes(i)
  BY DEF Votes, Reviewed
<1>3. Wrong' = Wrong
  BY <1>1, <1>2 DEF Wrong
<1>4. NumCorrect' = NumCorrect
  BY <1>1 DEF NumCorrect
<1> QED BY <1>1, <1>3, <1>4 DEF NumWrong, Identifiable, GroupSize

(* What Shape computes depends on launcher, group and the modes alone.      *)
LEMMA DeltasKept ==
  ASSUME UNCHANGED <<launcher, group, rep>>
  PROVE  /\ Scale' = Scale /\ Redistributes' = Redistributes
         /\ \A i : Delta(i)' = Delta(i)
<1>1. /\ G' = G /\ Wrong' = Wrong /\ NumWrong' = NumWrong
      /\ NumCorrect' = NumCorrect /\ GroupSize' = GroupSize /\ Reviewed' = Reviewed
  BY VotersKept
<1>2. Modes' = Modes
  BY DEF Modes, Range
<1>3. \A m : Count(m)' = Count(m)
  BY DEF Count
<1>4. \A m : Risk(m)' = Risk(m)
  BY <1>1, <1>3 DEF Risk
<1>5. \A m : Deviation(m)' = Deviation(m)
  BY <1>1, <1>2, <1>3, <1>4 DEF Deviation, DeviationByMode
<1>6. LargestDeviation' = LargestDeviation
  BY <1>2, <1>5 DEF LargestDeviation
<1>7. Weight' = Weight /\ SignalDen' = SignalDen
  BY <1>1, <1>2, <1>6 DEF Weight, SignalDen, RiskDen
<1>8. Scale' = Scale /\ SumAbs' = SumAbs
  BY <1>1, <1>7 DEF Scale, SumAbs
<1>9. \A m : Desired(m)' = Desired(m)
  BY <1>1, <1>5, <1>8 DEF Desired
<1>10. \A i : MaxDelta(i)' = MaxDelta(i)
  BY <1>8 DEF MaxDelta
<1>11. \A i : Delta(i)' = Delta(i)
  BY <1>9, <1>10 DEF Delta
<1> QED BY <1>2, <1>6, <1>8, <1>11 DEF Redistributes

LEMMA ShapedKept ==
  ASSUME UNCHANGED <<launcher, group, rep, scores>>
  PROVE  Shaped' = Shaped
BY VotersKept, DeltasKept DEF Shaped

(* Clustering adds a wrong response; shaping waits until all are there.     *)
LEMMA VoteInvariant == Spec => []VoteInv
<1>1. Init => VoteInv
  BY DEF Init, VoteInv
<1>2. VoteInv /\ [Next]_vars => VoteInv'
  <2> SUFFICES ASSUME VoteInv, [Next]_vars PROVE VoteInv'
    OBVIOUS
  <2>1. CASE Cluster
    <3>1. PICK i \in Unclustered :
            \E r : rep' = [j \in DOMAIN rep \cup {i} |-> IF j = i THEN r ELSE rep[j]]
      BY <2>1 DEF Cluster, Joins
    <3>2. i \in Wrong /\ DOMAIN rep' = DOMAIN rep \cup {i}
      BY <3>1 DEF Unclustered
    <3>3. rep' = [j \in DOMAIN rep' |-> rep'[j]]
      BY <3>1
    <3>4. Wrong' = Wrong /\ group' = group /\ phase' = "cluster"
      BY <2>1, VotersKept DEF Cluster
    <3> QED BY <3>2, <3>3, <3>4 DEF VoteInv
  <2>2. CASE Shape
    <3>1. UNCHANGED <<launcher, group, rep>>
      BY <2>2 DEF Shape
    <3>2. Wrong' = Wrong /\ G' = G /\ Identifiable' = Identifiable
      BY <3>1, VotersKept
    <3>3. Scale' = Scale /\ Redistributes' = Redistributes /\ \A i : Delta(i)' = Delta(i)
      BY <3>1, DeltasKept
    <3>4. CASE Identifiable /\ Redistributes
      <4>1. scores' = [i \in 1 .. G |->
                         group[i].adv * Scale + IF i \in Wrong THEN Delta(i) ELSE 0]
        BY <2>2, <3>4 DEF Shape
      <4>2. DOMAIN rep = Wrong
        BY <2>2, <3>4 DEF Shape, Unclustered, VoteInv
      <4>3. Shaped'
        BY <3>1, <3>2, <3>3, <3>4, <4>1, <4>2 DEF Shaped
      <4> QED BY <3>1, <3>2, <4>3 DEF VoteInv
    <3>5. CASE ~ (Identifiable /\ Redistributes)
      <4>1. phase' # "shaped"
        BY <2>2, <3>5 DEF Shape
      <4> QED BY <3>1, <3>2, <4>1 DEF VoteInv
    <3> QED BY <3>4, <3>5
  <2>3. CASE UNCHANGED vars
    <3>1. Wrong' = Wrong /\ Shaped' = Shaped
      BY <2>3, VotersKept, ShapedKept DEF vars
    <3> QED BY <2>3, <3>1 DEF VoteInv, vars
  <2> QED BY <2>1, <2>2, <2>3 DEF Next
<1> QED BY <1>1, <1>2, PTL DEF Spec

-----------------------------------------------------------------------------
(* The numbers of a group.                                                  *)
LEMMA GroupNumbers ==
  ASSUME group \in Groups
  PROVE  /\ G \in Nat
         /\ \A i \in 1 .. G : group[i].adv \in Int
         /\ IsFiniteSet(Wrong) /\ Wrong \subseteq 1 .. G /\ NumWrong \in Nat
         /\ NumCorrect \in Nat /\ NumCorrect + NumWrong <= G
         /\ GroupSize \in {Len(group), ConfiguredG}
<1> DEFINE Correct == {i \in 1 .. G : group[i].acc = 1}
<1>1. G \in Nat /\ \A i \in 1 .. G : group[i] \in Response
  BY VoteRiskAssumption, ElementOfSeq DEF G
<1>2. /\ IsFiniteSet(1 .. G) /\ Cardinality(1 .. G) = G
  BY <1>1, FS_Interval
<1>3. Wrong \subseteq 1 .. G /\ Correct \subseteq 1 .. G /\ Wrong \cap Correct = {}
  BY DEF Wrong, Votes
<1>4. IsFiniteSet(Wrong) /\ IsFiniteSet(Correct) /\ IsFiniteSet(Wrong \cup Correct)
  BY <1>2, <1>3, FS_Subset
<1>5. NumWrong \in Nat /\ NumCorrect \in Nat
  BY <1>4, FS_CardinalityType DEF NumWrong, NumCorrect
<1>6. Cardinality(Wrong \cup Correct) = NumWrong + NumCorrect
  <2> DEFINE C == Correct
  <2>1. Cardinality(Wrong) \in Nat /\ Cardinality(C) \in Nat
    BY <1>4, FS_CardinalityType
  <2>2. Wrong \cap C = {} /\ IsFiniteSet(Wrong) /\ IsFiniteSet(C)
    BY <1>3, <1>4
  <2>3. NumWrong = Cardinality(Wrong) /\ NumCorrect = Cardinality(C)
    BY DEF NumWrong, NumCorrect
  <2> HIDE DEF C
  <2>4. Cardinality(Wrong \cup C) = Cardinality(Wrong) + Cardinality(C) - Cardinality(Wrong \cap C)
    BY <2>2, FS_Union
  <2>5. Cardinality(Wrong \cap C) = 0
    BY <2>2, FS_EmptySet
  <2>6. Cardinality(Wrong \cup C) = NumWrong + NumCorrect
    BY <2>1, <2>3, <2>4, <2>5
  <2> QED BY <2>6 DEF C
<1>7. Cardinality(Wrong \cup Correct) <= G
  BY <1>2, <1>3, FS_Subset
<1>8. \A i \in 1 .. G : group[i].adv \in Int
  BY <1>1 DEF Response
<1> HIDE DEF Correct
<1> QED BY <1>1, <1>3, <1>4, <1>5, <1>6, <1>7, <1>8 DEF GroupSize, G

(* The modes of a shaped group: each has a vote, none more than there are   *)
(* wrong responses.                                                         *)
LEMMA ModeNumbers ==
  ASSUME VoteInv, phase = "shaped"
  PROVE  /\ rep \in [Wrong -> Modes] /\ IsFiniteSet(Modes)
         /\ Cardinality(Modes) \in Nat /\ Cardinality(Modes) > 1
         /\ NumWrong > 1 /\ NumCorrect > 0
         /\ \A m \in Modes : Count(m) \in 1 .. NumWrong
<1>1. IsFiniteSet(Wrong) /\ NumWrong \in Nat /\ NumCorrect \in Nat
  BY GroupNumbers DEF VoteInv
<1>2. Shaped /\ rep = [i \in Wrong |-> rep[i]] /\ DOMAIN rep = Wrong
  BY DEF VoteInv, Shaped
<1>3. Modes = {rep[i] : i \in Wrong}
  BY <1>2 DEF Modes, Range
<1>4. rep \in [Wrong -> Modes]
  BY <1>2, <1>3
<1>5. IsFiniteSet(Modes)
  <2>1. rep \in Surjection(Wrong, Modes)
    BY <1>3, <1>4 DEF Surjection
  <2> QED BY <1>1, <2>1, FS_Surjection
<1>6. Cardinality(Modes) \in Nat /\ Cardinality(Modes) > 1
  BY <1>2, <1>5, FS_CardinalityType DEF Shaped, Redistributes
<1>7. NumWrong > 1 /\ NumCorrect > 0
  BY <1>1, <1>2 DEF Shaped, Identifiable
<1>8. ASSUME NEW m \in Modes PROVE Count(m) \in 1 .. NumWrong
  <2> DEFINE T == {i \in DOMAIN rep : rep[i] = m}
  <2>1. T \subseteq Wrong /\ T # {}
    BY <1>2, <1>3
  <2> HIDE DEF T
  <2>2. IsFiniteSet(T) /\ Cardinality(T) \in Nat /\ Cardinality(T) # 0 /\ Cardinality(T) <= NumWrong
    BY <1>1, <2>1, FS_Subset, FS_CardinalityType, FS_EmptySet DEF NumWrong
  <2>3. Count(m) = Cardinality(T)
    BY DEF Count, T
  <2> QED BY <1>1, <2>2, <2>3
<1> QED BY <1>4, <1>5, <1>6, <1>7, <1>8

(* Their risks are numbers, over a positive one.                            *)
LEMMA RiskNumbers ==
  ASSUME VoteInv, phase = "shaped"
  PROVE  /\ RiskDen \in Nat \ {0}
         /\ \A m \in Modes : Risk(m) \in Int
         /\ GroupSize \in Nat
<1>1. /\ G \in Nat /\ NumWrong \in Nat /\ NumCorrect \in Nat
      /\ NumCorrect + NumWrong <= G
      /\ GroupSize \in {G, ConfiguredG}
  BY GroupNumbers DEF VoteInv, G
<1>2. NumWrong > 1 /\ \A m \in Modes : Count(m) \in 1 .. NumWrong
  BY ModeNumbers
<1>3. GroupSize \in Nat \ {0}
  BY <1>1, <1>2, VoteRiskAssumption
<1>4. RiskDen \in Nat \ {0}
  <2> DEFINE x == Total(GroupSize)
  <2>1. x \in Nat /\ x > 0 /\ K \in Nat
    BY <1>3, VoteThreatAssumption DEF Total
  <2> HIDE DEF x
  <2>2. Power(x, K) \in Int /\ Power(x, K) > 0
    BY <2>1, PowerIs
  <2> QED BY <2>2 DEF RiskDen, ThreatDen, x
<1>5. ASSUME NEW m \in Modes PROVE Risk(m) \in Int
  <2> DEFINE c == NumCorrect
             n == Count(m)
             size == GroupSize
  <2>1. c \in Int /\ n \in Int /\ size \in Int
    BY <1>1, <1>2, <1>3
  <2> HIDE DEF c, n, size
  <2>2. Threat(c, n, size) \in Int
    BY <2>1, ThreatType
  <2> QED BY <2>2 DEF Risk, c, n, size
<1> QED BY <1>3, <1>4, <1>5

(* The absolute value is the larger of a number and its opposite.           *)
LEMMA AbsIs ==
  \A x \in Int :
    /\ Abs(x) \in Nat /\ (Abs(x) = x \/ Abs(x) = -x)
    /\ Abs(x) >= x /\ Abs(x) >= -x
    /\ Abs(x) = 0 <=> x = 0
BY DEF Abs

(* So are the deviations, and the largest of them is not zero.              *)
LEMMA DeviationNumbers ==
  ASSUME VoteInv, phase = "shaped"
  PROVE  /\ Weight \in Nat \ {0}
         /\ \E mean \in Int : \A m \in Modes : Deviation(m) = Weight * Risk(m) - mean
         /\ \A m \in Modes : Deviation(m) \in Int
         /\ LargestDeviation \in Nat \ {0}
<1>1. /\ IsFiniteSet(Modes) /\ Cardinality(Modes) \in Nat /\ Cardinality(Modes) > 1
      /\ NumWrong > 1
      /\ \A m \in Modes : Count(m) \in 1 .. NumWrong
  BY ModeNumbers
<1>2. NumWrong \in Nat
  BY GroupNumbers DEF VoteInv
<1>3. \A m \in Modes : Risk(m) \in Int
  BY RiskNumbers
<1>4. Weight \in Nat \ {0}
  BY <1>1, <1>2 DEF Weight
<1>5. \E mean \in Int : \A m \in Modes : Deviation(m) = Weight * Risk(m) - mean
  <2>1. CASE Reviewed
    <3> DEFINE f == [j \in Modes |-> Count(j) * Risk(j)]
    <3>1. \A m \in Modes : Count(m) \in Int
      BY <1>1, <1>2
    <3>2. \A m \in Modes : f[m] \in Int
      BY <1>3, <3>1
    <3>3. DOMAIN f = Modes
      OBVIOUS
    <3>4. \A m \in Modes : Deviation(m) = Weight * Risk(m) - SumFunction(f)
      BY <2>1 DEF Deviation, Weight
    <3> HIDE DEF f
    <3>5. SumFunction(f) \in Int
      BY <1>1, <3>2, <3>3, SumType DEF SumFunction
    <3> QED BY <3>4, <3>5
  <2>2. CASE ~ Reviewed
    <3> DEFINE f == [j \in Modes |-> Risk(j)]
    <3>1. \A m \in Modes : f[m] \in Int
      BY <1>3
    <3>2. DOMAIN f = Modes
      OBVIOUS
    <3>3. \A m \in Modes : Deviation(m) = Weight * Risk(m) - SumFunction(f)
      BY <2>2 DEF Deviation, DeviationByMode, Weight
    <3> HIDE DEF f
    <3>4. SumFunction(f) \in Int
      BY <1>1, <3>1, <3>2, SumType DEF SumFunction
    <3> QED BY <3>3, <3>4
  <2> QED BY <2>1, <2>2
<1>6. \A m \in Modes : Deviation(m) \in Int
  BY <1>3, <1>4, <1>5
<1>7. LargestDeviation \in Nat \ {0}
  <2> DEFINE f == [m \in Modes |-> Abs(Deviation(m))]
             S == {Abs(Deviation(m)) : m \in Modes}
  <2>1. S \subseteq Nat
    BY <1>6, AbsIs
  <2>2. f \in Surjection(Modes, S)
    BY DEF Surjection
  <2>3. Modes # {}
    BY <1>1, FS_EmptySet
  <2>4. S # {}
    BY <2>3
  <2>5. LargestDeviation = Max(S)
    BY DEF LargestDeviation
  <2>6. LargestDeviation # 0
    BY DEF VoteInv, Shaped, Redistributes
  <2> HIDE DEF S, f
  <2>7. IsFiniteSet(S)
    BY <1>1, <2>2, FS_Surjection
  <2>8. \E x \in S : \A y \in S : x >= y
    <3>1. S \subseteq Int
      BY <2>1
    <3> QED BY <2>4, <2>7, <3>1, Largest
  <2>9. Max(S) \in S
    BY <2>8 DEF Max
  <2> QED BY <2>1, <2>5, <2>6, <2>9
<1> QED BY <1>4, <1>5, <1>6, <1>7

(* The deltas' denominator is positive and a multiple of kappa.             *)
LEMMA ScaleNumbers ==
  ASSUME VoteInv, phase = "shaped"
  PROVE  \E q \in Nat \ {0} : Scale = Kappa * q /\ Scale \div Kappa = q /\ Scale \in Nat \ {0}
<1>1. /\ Weight \in Nat \ {0} /\ LargestDeviation \in Nat \ {0}
      /\ RiskDen \in Nat \ {0}
  BY DeviationNumbers, RiskNumbers
<1>2. \A x, y \in Nat \ {0} : x * y \in Nat \ {0}
  OBVIOUS
<1>3. SignalDen \in Nat \ {0}
  BY <1>1, <1>2 DEF SignalDen
<1>4. NumWrong \in Nat \ {0}
  <2>1. NumWrong \in Nat /\ NumWrong > 1
    BY ModeNumbers, GroupNumbers DEF VoteInv
  <2> QED BY <2>1
<1>5. Kappa \in Nat \ {0} /\ LambdaDen \in Nat \ {0}
  BY VoteRiskAssumption
<1> DEFINE q == LambdaDen * NumWrong * SignalDen
<1>6. q \in Nat \ {0}
  <2>1. LambdaDen * NumWrong \in Nat \ {0}
    BY <1>2, <1>4, <1>5
  <2> QED BY <1>2, <1>3, <2>1
<1>7. Scale = Kappa * q
  <2>1. \A k, l, n, s \in Nat : k * l * n * s = k * (l * n * s)
    OBVIOUS
  <2> QED BY <1>3, <1>4, <1>5, <2>1 DEF Scale
<1> HIDE DEF q
<1>8. (Kappa * q) \div Kappa = q
  <2>1. \A k, p \in Nat \ {0} : (k * p) \div k = p
    OBVIOUS
  <2> QED BY <1>5, <1>6, <2>1
<1>9. Kappa * q \in Nat \ {0}
  BY <1>2, <1>5, <1>6
<1> QED BY <1>6, <1>7, <1>8, <1>9

(* A clipped number is one, and no larger than the clip.                    *)
LEMMA ClippedIs ==
  \A d \in Int, max \in Nat :
    /\ Clipped(d, max) \in Int
    /\ -max <= Clipped(d, max) /\ Clipped(d, max) <= max
    /\ Abs(d) <= max => Clipped(d, max) = d
BY DEF Clipped, Abs

(* Clipping keeps the order of two numbers, unless both are clipped alike.  *)
LEMMA ClippedOrder ==
  \A d, e \in Int, max \in Nat :
    d < e =>
      \/ Clipped(d, max) < Clipped(e, max)
      \/ /\ Clipped(d, max) = Clipped(e, max)
         /\ Abs(Clipped(d, max)) = max
BY DEF Clipped, Abs

(* The numbers of a response that votes.                                    *)
LEMMA DeltaNumbers ==
  ASSUME VoteInv, phase = "shaped", NEW i \in Wrong
  PROVE  /\ rep[i] \in Modes /\ SumAbs \in Nat /\ group[i].adv \in Int
         /\ Abs(group[i].adv) <= SumAbs
         /\ Desired(rep[i]) \in Int /\ MaxDelta(i) \in Nat /\ Delta(i) \in Int
         /\ -MaxDelta(i) <= Delta(i) /\ Delta(i) <= MaxDelta(i)
<1>1. rep[i] \in Modes
  BY ModeNumbers
<1>2. IsFiniteSet(Wrong) /\ \A j \in Wrong : group[j].adv \in Int
  BY GroupNumbers DEF VoteInv
<1>3. SumAbs \in Nat /\ Abs(group[i].adv) <= SumAbs
  <2> DEFINE f == [j \in Wrong |-> Abs(group[j].adv)]
  <2>1. \A j \in Wrong : f[j] \in Nat
    BY <1>2, AbsIs
  <2>2. DOMAIN f = Wrong /\ f[i] = Abs(group[i].adv) /\ SumAbs = SumFunction(f)
    BY DEF SumAbs
  <2> HIDE DEF f
  <2> QED BY <1>2, <2>1, <2>2, SumAtLeast DEF SumFunction
<1>4. Deviation(rep[i]) \in Int
  BY <1>1, DeviationNumbers
<1>5. Desired(rep[i]) \in Int
  <2>1. Kappa \in Int /\ LambdaNum \in Int
    BY VoteRiskAssumption
  <2>2. Kappa * LambdaNum * SumAbs * Deviation(rep[i]) \in Int
    BY <1>3, <1>4, <2>1
  <2> QED BY <2>2 DEF Desired
<1>6. MaxDelta(i) \in Nat
  <2>1. Scale \div Kappa \in Nat
    BY ScaleNumbers
  <2>2. Abs(group[i].adv) \in Nat
    BY <1>2, AbsIs
  <2>3. \A x, y \in Nat : x * y \in Nat
    OBVIOUS
  <2> QED BY <2>1, <2>2, <2>3 DEF MaxDelta
<1> QED BY <1>1, <1>2, <1>3, <1>5, <1>6, ClippedIs DEF Delta

-----------------------------------------------------------------------------
(* Less than half of a multiple cannot turn it round.                       *)
LEMMA KeepsSign ==
  ASSUME NEW k \in Nat, k > 1, NEW q \in Nat \ {0}, NEW a \in Int, NEW d \in Int,
         -(Abs(a) * q) <= d, d <= Abs(a) * q
  PROVE  Sign(a * (k * q) + d) = Sign(a)
<1> DEFINE p == a * q
<1>1. p \in Int /\ a * (k * q) = k * p
  OBVIOUS
<1>2. (a > 0 => p > 0) /\ (a < 0 => p < 0) /\ (a = 0 => p = 0)
  OBVIOUS
<1>3. (a >= 0 => Abs(a) * q = p) /\ (a < 0 => Abs(a) * q = -p)
  BY DEF Abs
<1> HIDE DEF p
<1>4. /\ k * p \in Int
      /\ (p > 0 => k * p >= 2 * p) /\ (p < 0 => k * p <= 2 * p) /\ (p = 0 => k * p = 0)
  <2>1. \A x \in Int : /\ x > 0 => k * x >= 2 * x
                       /\ x < 0 => k * x <= 2 * x
                       /\ x = 0 => k * x = 0
                       /\ k * x \in Int
    <3> SUFFICES ASSUME NEW x \in Int
                 PROVE  /\ x > 0 => k * x >= 2 * x
                        /\ x < 0 => k * x <= 2 * x
                        /\ x = 0 => k * x = 0
                        /\ k * x \in Int
      OBVIOUS
    <3>1. k * x = 2 * x + (k - 2) * x /\ k - 2 \in Nat
      OBVIOUS
    <3>2. \A n \in Nat : (x > 0 => n * x >= 0) /\ (x < 0 => n * x <= 0)
      OBVIOUS
    <3>3. (k - 2) * x \in Int /\ (x > 0 => (k - 2) * x >= 0) /\ (x < 0 => (k - 2) * x <= 0)
      BY <3>1, <3>2
    <3> QED BY <3>1, <3>3
  <2> QED BY <1>1, <2>1
<1> DEFINE b == Abs(a) * q
           s == k * p
<1>5. /\ a > 0 => p > 0 /\ -p <= d /\ s >= 2 * p
      /\ a < 0 => p < 0 /\ d <= -p /\ s <= 2 * p
      /\ a = 0 => d = 0 /\ s = 0
      /\ s \in Int
      /\ a * (k * q) + d = s + d
  <2>1. -b <= d /\ d <= b /\ (a >= 0 => b = p) /\ (a < 0 => b = -p)
    BY <1>3
  <2> HIDE DEF b
  <2>2. (a > 0 => -p <= d) /\ (a < 0 => d <= -p) /\ (a = 0 => d = 0)
    BY <1>1, <1>2, <2>1
  <2> QED BY <1>1, <1>2, <1>4, <2>2
<1> HIDE DEF s
<1>6. (a > 0 => s + d > 0) /\ (a < 0 => s + d < 0) /\ (a = 0 => s + d = 0) /\ s + d \in Int
  BY <1>1, <1>5
<1> QED BY <1>5, <1>6 DEF Sign

(* The correction of a group never turns an advantage round, whatever the   *)
(* risks are, and leaves those who do not vote as they were (SignsKept).    *)
THEOREM ShapingKeepsSigns == Spec => []SignsKept
<1>1. VoteInv => SignsKept
  <2> SUFFICES ASSUME VoteInv, phase = "shaped", NEW i \in 1 .. G
               PROVE  /\ Sign(scores[i]) = Sign(group[i].adv)
                      /\ ~ Votes(i) => scores[i] = group[i].adv * Scale
    BY DEF SignsKept
  <2>1. scores[i] = group[i].adv * Scale + IF i \in Wrong THEN Delta(i) ELSE 0
    BY DEF VoteInv, Shaped
  <2>2. PICK q \in Nat \ {0} : Scale = Kappa * q /\ Scale \div Kappa = q /\ Scale \in Nat \ {0}
    BY ScaleNumbers
  <2>3. group[i].adv \in Int /\ Kappa \in Nat /\ Kappa > 1
    BY GroupNumbers, VoteRiskAssumption DEF VoteInv
  <2>4. \A a \in Int : \A s \in Nat : a * s \in Int /\ a * s + 0 = a * s
    OBVIOUS
  <2>5. group[i].adv * Scale \in Int /\ group[i].adv * Scale + 0 = group[i].adv * Scale
    BY <2>2, <2>3, <2>4
  <2>6. ~ Votes(i) => scores[i] = group[i].adv * Scale
    BY <2>1, <2>5 DEF Wrong
  <2>7. CASE i \in Wrong
    <3> DEFINE d == Delta(i)
               a == group[i].adv
    <3>1. MaxDelta(i) = Abs(a) * q
      BY <2>2 DEF MaxDelta
    <3>2. d \in Int /\ -(Abs(a) * q) <= d /\ d <= Abs(a) * q
      BY <2>7, <3>1, DeltaNumbers
    <3>3. scores[i] = a * (Kappa * q) + d
      BY <2>1, <2>2, <2>7
    <3>4. a \in Int
      BY <2>3
    <3> HIDE DEF d, a
    <3>5. Sign(a * (Kappa * q) + d) = Sign(a)
      BY <2>3, <3>2, <3>4, KeepsSign
    <3> QED BY <2>6, <3>3, <3>5 DEF a
  <2>8. CASE i \notin Wrong
    <3> DEFINE a == group[i].adv
    <3>1. scores[i] = a * Scale
      BY <2>1, <2>5, <2>8
    <3>2. a \in Int /\ Scale \in Nat \ {0}
      BY <2>2, <2>3
    <3> HIDE DEF a
    <3>3. \A n \in Nat \ {0} : (a > 0 => a * n > 0) /\ (a < 0 => a * n < 0) /\ (a = 0 => a * n = 0)
      BY <3>2
    <3>4. Sign(a * Scale) = Sign(a)
      BY <3>2, <3>3 DEF Sign
    <3> QED BY <2>6, <3>1, <3>4 DEF a
  <2> QED BY <2>7, <2>8
<1> QED BY <1>1, VoteInvariant, PTL

(* Where none is clipped, the corrections of the reviewed version sum to    *)
(* zero: they are proportional to the deviations from the mean over the     *)
(* responses, however these are spread over modes (ZeroSum).                *)
THEOREM CorrectionsSumToZero == Spec => []ZeroSum
<1>1. VoteInv => ZeroSum
  <2> SUFFICES ASSUME VoteInv, Reviewed, phase = "shaped",
                      \A i \in DOMAIN rep : Abs(Desired(rep[i])) <= MaxDelta(i)
               PROVE  SumFunction([i \in 1 .. G |-> scores[i] - group[i].adv * Scale]) = 0
    BY DEF ZeroSum
  <2> DEFINE r == [m \in Modes |-> Risk(m)]
             each == [i \in Wrong |-> r[rep[i]]]
             total == SumFunction([m \in Modes |-> Count(m) * Risk(m)])
             c == Kappa * LambdaNum * SumAbs
             change == [i \in 1 .. G |-> scores[i] - group[i].adv * Scale]
  <2>1. /\ IsFiniteSet(Wrong) /\ Wrong \subseteq 1 .. G /\ NumWrong \in Nat
        /\ IsFiniteSet(1 .. G) /\ \A i \in 1 .. G : group[i].adv \in Int
    <3>1. G \in Int
      BY GroupNumbers DEF VoteInv
    <3>2. IsFiniteSet(1 .. G)
      BY <3>1, FS_Interval
    <3> QED BY <3>2, GroupNumbers DEF VoteInv
  <2>2. rep \in [Wrong -> Modes] /\ IsFiniteSet(Modes) /\ NumWrong > 1 /\ DOMAIN rep = Wrong
    BY ModeNumbers DEF VoteInv, Shaped
  <2>3. \A m \in Modes : r[m] \in Int
    BY RiskNumbers
  <2>4. SumFunctionOnSet(each, Wrong) = total
    <3>1. \A m : Times(rep, Wrong, m) = Count(m)
      BY <2>2 DEF Times, Count
    <3>2. [m \in Modes |-> Times(rep, Wrong, m) * r[m]] = [m \in Modes |-> Count(m) * Risk(m)]
      BY <3>1
    <3>3. SumFunctionOnSet(each, Wrong)
            = SumFunctionOnSet([m \in Modes |-> Times(rep, Wrong, m) * r[m]], Modes)
      <4> HIDE DEF r
      <4>1. IntegerOn(r, Modes) /\ Maps(rep, Wrong, Modes)
        BY <2>2, <2>3 DEF IntegerOn, Maps
      <4>2. SumFunctionOnSet(Along(r, rep, Wrong), Wrong)
              = SumFunctionOnSet(Weighted(r, rep, Wrong, Modes), Modes)
        BY <2>1, <2>2, <4>1, RegroupedSums
      <4> QED BY <4>2 DEF Along, Weighted
    <3>4. total = SumFunctionOnSet([m \in Modes |-> Count(m) * Risk(m)], Modes)
      BY Zenon DEF SumFunction
    <3> QED BY <3>2, <3>3, <3>4
  <2>5. \A i \in Wrong : each[i] \in Int /\ each[i] = Risk(rep[i])
    BY <2>2, <2>3
  <2>6. total \in Int
    <3> HIDE DEF total, each
    <3> QED BY <2>1, <2>4, <2>5, SumType
  <2>7. \A i \in Wrong : Delta(i) = Desired(rep[i])
    BY <2>2, DeltaNumbers, ClippedIs DEF Delta
  <2>8. \A i \in Wrong : Desired(rep[i]) = -(c * (NumWrong * each[i] - total))
    BY <2>5 DEF Desired, Deviation
  <2>9. \A i \in 1 .. G : change[i] \in Int /\ change[i] = IF i \in Wrong THEN Delta(i) ELSE 0
    <3> SUFFICES ASSUME NEW i \in 1 .. G
                 PROVE  change[i] \in Int /\ change[i] = IF i \in Wrong THEN Delta(i) ELSE 0
      OBVIOUS
    <3> DEFINE a == group[i].adv * Scale
               d == IF i \in Wrong THEN Delta(i) ELSE 0
    <3>1. a \in Int
      BY <2>1, ScaleNumbers
    <3>2. d \in Int
      BY DeltaNumbers
    <3>3. change[i] = scores[i] - a /\ scores[i] = a + d
      BY DEF VoteInv, Shaped
    <3> HIDE DEF a
    <3>4. change[i] = d
      BY <3>1, <3>2, <3>3
    <3> QED BY <3>2, <3>4
  <2>10. c \in Int
    <3>1. Kappa \in Nat /\ LambdaNum \in Nat
      BY VoteRiskAssumption
    <3>2. SumAbs \in Nat
      BY <2>2, DeltaNumbers, FS_EmptySet DEF NumWrong
    <3> QED BY <3>1, <3>2
  <2>11. \A i \in Wrong : each[i] \in Int /\ change[i] = (-(c * NumWrong)) * each[i] + c * total
    <3> HIDE DEF each, total, c, change
    <3>1. \A x, n, k, t \in Int : -(k * (n * x - t)) = (-(k * n)) * x + k * t
      OBVIOUS
    <3> QED BY <2>1, <2>5, <2>6, <2>7, <2>8, <2>9, <2>10, <3>1
  <2> DEFINE m == -(c * NumWrong)
             o == c * total
  <2> HIDE DEF each, total, c, change
  <2>12. m \in Int /\ o \in Int
    BY <2>1, <2>6, <2>10
  <2>13. SumFunctionOnSet(change, Wrong) = m * SumFunctionOnSet(each, Wrong) + o * Cardinality(Wrong)
    <3> HIDE DEF m, o
    <3>1. \A i \in Wrong : each[i] \in Int /\ change[i] = m * each[i] + o
      BY <2>11 DEF m, o
    <3>2. Affine(Wrong, m, each, o, change)
      BY <3>1 DEF Affine
    <3> QED BY <2>1, <2>12, <3>2, AffineSums
  <2>14. m * total + o * NumWrong = 0
    <3>1. \A k, n, t \in Int : (-(k * n)) * t + (k * t) * n = 0
      OBVIOUS
    <3> QED BY <2>1, <2>6, <2>10, <3>1
  <2>15. SumFunctionOnSet(change, Wrong) = 0
    BY <2>4, <2>13, <2>14 DEF NumWrong
  <2>16. SumFunctionOnSet(change, 1 .. G) = SumFunctionOnSet(change, Wrong)
    <3>1. \A i \in (1 .. G) \ Wrong : change[i] = 0
      BY <2>9
    <3> QED BY <2>1, <2>9, <3>1, SumZeros
  <2>17. DOMAIN change = 1 .. G
    BY DEF change
  <2>18. SumFunction(change) = 0
    BY <2>15, <2>16, <2>17 DEF SumFunction
  <2> QED BY <2>18 DEF change
<1> QED BY <1>1, VoteInvariant, PTL

(* The risk of every mode of every group the reviewed version shapes is the *)
(* probability it stands for (RiskIsProbability).                           *)
THEOREM RiskIsProbable == Spec => []RiskIsProbability
<1>1. VoteInv => RiskIsProbability
  <2> SUFFICES ASSUME VoteInv, phase = "shaped", Reviewed, NEW m \in Modes
               PROVE  /\ Risk(m) = DrawnThreat(NumCorrect, Count(m), GroupSize)
                      /\ Risk(m) \in 0 .. RiskDen
    BY DEF RiskIsProbability
  <2> DEFINE c == NumCorrect
             n == Count(m)
             size == GroupSize
  <2>1. c \in Nat /\ n \in Nat /\ size \in Nat /\ c + n <= size
    <3>1. /\ G \in Nat /\ NumWrong \in Nat /\ NumCorrect \in Nat
          /\ NumCorrect + NumWrong <= G /\ GroupSize = G
      BY GroupNumbers DEF VoteInv, GroupSize
    <3>2. Count(m) \in 1 .. NumWrong
      BY ModeNumbers
    <3> QED BY <3>1, <3>2
  <2> HIDE DEF c, n, size
  <2>2. Threat(c, n, size) = DrawnThreat(c, n, size) /\ Threat(c, n, size) \in 0 .. ThreatDen(size)
    BY <2>1, ThreatIsProbability
  <2> QED BY <2>2 DEF Risk, RiskDen, c, n, size
<1> QED BY <1>1, VoteInvariant, PTL

(* The counts of a mode and of the correct answers fit into the group.      *)
LEMMA ModesFit ==
  ASSUME VoteInv, phase = "shaped", Reviewed \/ Len(group) <= ConfiguredG
  PROVE  /\ NumCorrect \in Nat \ {0} /\ GroupSize \in Nat
         /\ \A m \in Modes : Count(m) \in Nat /\ NumCorrect + Count(m) <= GroupSize
<1>1. /\ group \in Groups /\ G \in Nat /\ NumWrong \in Nat /\ NumCorrect \in Nat
      /\ NumCorrect + NumWrong <= G /\ GroupSize \in {G, ConfiguredG}
  BY GroupNumbers DEF VoteInv, G
<1>2. GroupSize = G \/ (G <= ConfiguredG /\ GroupSize = ConfiguredG)
  BY DEF G, GroupSize
<1>3. NumCorrect > 0 /\ \A m \in Modes : Count(m) \in 1 .. NumWrong
  BY ModeNumbers
<1>4. GroupSize \in Nat /\ G <= GroupSize
  BY <1>1, <1>2, VoteRiskAssumption
<1> QED BY <1>1, <1>3, <1>4

(* Modes of the same risk deviate from no mean.                             *)
LEMMA EqualRisksDeviateNot ==
  ASSUME VoteInv, phase = "shaped", NEW r \in Int, \A m \in Modes : Risk(m) = r
  PROVE  \A m \in Modes : Deviation(m) = 0
<1>1. /\ rep \in [Wrong -> Modes] /\ IsFiniteSet(Modes) /\ Cardinality(Modes) \in Nat
      /\ IsFiniteSet(Wrong) /\ NumWrong \in Nat /\ DOMAIN rep = Wrong
  BY ModeNumbers, GroupNumbers DEF VoteInv, Shaped
<1> DEFINE f == [m \in Modes |-> r]
           each == Along(f, rep, Wrong)
<1>2. \A m \in Modes : f[m] \in Int /\ f[m] = 0 * f[m] + r
  OBVIOUS
<1>3. \A i \in Wrong : each[i] \in Int /\ each[i] = 0 * each[i] + r
  BY <1>1 DEF Along
<1>4. \A x, y \in Int : 0 * x + r * y = y * r /\ y * r - y * r = 0
  OBVIOUS
<1>5. SumFunctionOnSet(f, Modes) = Cardinality(Modes) * r
  <2> HIDE DEF f
  <2>1. Affine(Modes, 0, f, r, f)
    BY <1>2 DEF Affine
  <2>2. 0 \in Int /\ SumFunctionOnSet(f, Modes) \in Int
    BY <1>1, <1>2, SumType
  <2>3. SumFunctionOnSet(f, Modes) = 0 * SumFunctionOnSet(f, Modes) + r * Cardinality(Modes)
    BY <1>1, <2>1, <2>2, AffineSums
  <2> QED BY <1>1, <1>4, <2>2, <2>3
<1>6. SumFunctionOnSet(each, Wrong) = NumWrong * r
  <2> HIDE DEF each
  <2>1. Affine(Wrong, 0, each, r, each)
    BY <1>3 DEF Affine
  <2>2. 0 \in Int /\ SumFunctionOnSet(each, Wrong) \in Int
    BY <1>1, <1>3, SumType
  <2>3. SumFunctionOnSet(each, Wrong) = 0 * SumFunctionOnSet(each, Wrong) + r * NumWrong
    BY <1>1, <2>1, <2>2, AffineSums DEF NumWrong
  <2> QED BY <1>1, <1>4, <2>2, <2>3
<1>7. [m \in Modes |-> Count(m) * Risk(m)] = Weighted(f, rep, Wrong, Modes)
  <2>1. \A m : Times(rep, Wrong, m) = Count(m)
    BY <1>1 DEF Times, Count
  <2> QED BY <2>1 DEF Weighted
<1>8. SumFunctionOnSet(Weighted(f, rep, Wrong, Modes), Modes) = NumWrong * r
  <2> HIDE DEF f
  <2>1. IntegerOn(f, Modes) /\ Maps(rep, Wrong, Modes)
    BY <1>1, <1>2 DEF IntegerOn, Maps
  <2>2. SumFunctionOnSet(Along(f, rep, Wrong), Wrong)
          = SumFunctionOnSet(Weighted(f, rep, Wrong, Modes), Modes)
    BY <1>1, <2>1, RegroupedSums
  <2> QED BY <1>6, <2>2
<1>9. ASSUME NEW m \in Modes PROVE Deviation(m) = 0
  <2>1. CASE Reviewed
    <3> DEFINE g == [j \in Modes |-> Count(j) * Risk(j)]
    <3>1. DOMAIN g = Modes /\ Deviation(m) = NumWrong * Risk(m) - SumFunction(g)
      BY <2>1 DEF Deviation
    <3>2. SumFunctionOnSet(g, Modes) = NumWrong * r
      BY <1>7, <1>8
    <3> HIDE DEF g
    <3>3. SumFunction(g) = NumWrong * r
      BY <3>1, <3>2 DEF SumFunction
    <3>4. Deviation(m) = NumWrong * r - NumWrong * r
      BY <3>1, <3>3
    <3> QED BY <1>1, <1>4, <3>4
  <2>2. CASE ~ Reviewed
    <3>1. [j \in Modes |-> Risk(j)] = f
      OBVIOUS
    <3>2. Deviation(m) = Cardinality(Modes) * Risk(m) - SumFunction(f) /\ DOMAIN f = Modes
      BY <2>2, <3>1 DEF Deviation, DeviationByMode
    <3> HIDE DEF f
    <3>3. SumFunction(f) = Cardinality(Modes) * r
      BY <1>5, <3>2 DEF SumFunction
    <3>4. Deviation(m) = Cardinality(Modes) * r - Cardinality(Modes) * r
      BY <3>2, <3>3
    <3> QED BY <1>1, <1>4, <3>4
  <2> QED BY <2>1, <2>2
<1> QED BY <1>9

(* So no group is shaped with a single draw.                                *)
LEMMA ShapedDraws ==
  ASSUME VoteInv, phase = "shaped", Reviewed \/ Len(group) <= ConfiguredG
  PROVE  K > 1
<1> SUFFICES ASSUME K = 1 PROVE FALSE
  BY VoteThreatAssumption
<1>1. /\ Modes # {} /\ IsFiniteSet(Modes)
      /\ \A m \in Modes : Count(m) \in Nat /\ NumCorrect + Count(m) <= GroupSize
      /\ NumCorrect \in Nat /\ GroupSize \in Nat
  BY ModesFit, ModeNumbers, RiskNumbers, FS_EmptySet
<1>2. \A m, n \in Modes : Risk(m) = Risk(n)
  <2> SUFFICES ASSUME NEW m \in Modes, NEW n \in Modes PROVE Risk(m) = Risk(n)
    OBVIOUS
  <2> DEFINE c == NumCorrect
             p == Count(m)
             q == Count(n)
             size == GroupSize
  <2>1. c \in Nat /\ p \in Nat /\ q \in Nat /\ size \in Nat /\ c + p <= size /\ c + q <= size
    BY <1>1
  <2> HIDE DEF c, p, q, size
  <2>2. Threat(c, p, size) = Threat(c, q, size)
    BY <2>1, SingleDraw
  <2> QED BY <2>2 DEF Risk, c, p, q, size
<1>3. PICK m \in Modes : TRUE
  BY <1>1
<1>4. \A n \in Modes : Deviation(n) = 0
  <2> DEFINE r == Risk(m)
  <2>1. r \in Int /\ \A n \in Modes : Risk(n) = r
    BY <1>2, RiskNumbers
  <2> HIDE DEF r
  <2> QED BY <2>1, EqualRisksDeviateNot
<1>5. {Abs(Deviation(n)) : n \in Modes} = {0}
  BY <1>1, <1>4 DEF Abs
<1>6. LargestDeviation = 0
  <2>1. Max({0}) = 0
    BY DEF Max
  <2> QED BY <1>5, <2>1 DEF LargestDeviation
<1> QED BY <1>6, DeviationNumbers

(* Of two wrong responses with the same advantage, the one whose answer has *)
(* more votes ends lower in the reviewed version and higher in the other,   *)
(* unless both are clipped alike.                                           *)
LEMMA VotesOrder ==
  ASSUME VoteInv, LambdaNum > 0, Reviewed \/ Len(group) <= ConfiguredG
  PROVE  RiskDecidesOrder
<1> SUFFICES ASSUME phase = "shaped", NEW i \in DOMAIN rep, NEW j \in DOMAIN rep,
                    LessVotes(j, i), ~ ClippedAlike(i, j)
             PROVE  IF Reviewed THEN scores[i] < scores[j] ELSE scores[i] > scores[j]
  BY DEF RiskDecidesOrder
<1> DEFINE adv == group[i].adv
           c == Kappa * LambdaNum * SumAbs
           di == Deviation(rep[i])
           dj == Deviation(rep[j])
           max == MaxDelta(i)
<1>1. i \in Wrong /\ j \in Wrong /\ Wrong \subseteq 1 .. G
  BY GroupNumbers DEF VoteInv
<1>2. /\ rep[i] \in Modes /\ rep[j] \in Modes
      /\ adv \in Int /\ group[j].adv = adv
      /\ Desired(rep[i]) \in Int /\ Desired(rep[j]) \in Int
      /\ Delta(i) \in Int /\ Delta(j) \in Int
      /\ max \in Nat /\ MaxDelta(j) = max
      /\ SumAbs \in Nat /\ Abs(adv) <= SumAbs
  <2>1. group[j].adv = group[i].adv
    BY DEF LessVotes
  <2>2. MaxDelta(j) = MaxDelta(i)
    BY <2>1 DEF MaxDelta
  <2> QED BY <1>1, <2>1, <2>2, DeltaNumbers
<1>3. Risk(rep[j]) < Risk(rep[i])
  <2> DEFINE p == Count(rep[j])
             q == Count(rep[i])
             n == NumCorrect
             size == GroupSize
  <2>1. /\ n \in Nat \ {0} /\ p \in Nat /\ q \in Nat /\ size \in Nat
        /\ n + q <= size /\ p < q
    <3>1. q > p
      BY DEF LessVotes
    <3> QED BY <1>2, <3>1, ModesFit
  <2>2. K > 1
    BY ShapedDraws
  <2> HIDE DEF p, q, n, size
  <2>3. Threat(n, p, size) < Threat(n, q, size)
    BY <2>1, <2>2, MoreVotesMoreRisk
  <2> QED BY <2>3 DEF Risk, p, q, n, size
<1>4. di \in Int /\ dj \in Int /\ dj < di
  <2>1. PICK mean \in Int : \A m \in Modes : Deviation(m) = Weight * Risk(m) - mean
    BY DeviationNumbers
  <2>2. Weight \in Nat \ {0} /\ Risk(rep[i]) \in Int /\ Risk(rep[j]) \in Int
    BY <1>2, DeviationNumbers, RiskNumbers
  <2>3. \A w \in Nat \ {0} : \A x, y \in Int : x < y => w * x < w * y /\ w * x \in Int /\ w * y \in Int
    OBVIOUS
  <2>4. /\ Weight * Risk(rep[j]) < Weight * Risk(rep[i])
        /\ Weight * Risk(rep[j]) \in Int /\ Weight * Risk(rep[i]) \in Int
    BY <1>3, <2>2, <2>3
  <2>5. di = Weight * Risk(rep[i]) - mean /\ dj = Weight * Risk(rep[j]) - mean
    BY <1>2, <2>1
  <2> HIDE DEF di, dj
  <2> QED BY <2>4, <2>5
<1>5. /\ Desired(rep[i]) = IF Reviewed THEN -(c * di) ELSE c * di
      /\ Desired(rep[j]) = IF Reviewed THEN -(c * dj) ELSE c * dj
      /\ Delta(i) = Clipped(Desired(rep[i]), max)
      /\ Delta(j) = Clipped(Desired(rep[j]), max)
  BY <1>2 DEF Desired, Delta
<1>6. adv # 0
  <2> SUFFICES ASSUME adv = 0 PROVE FALSE
    OBVIOUS
  <2>1. PICK q \in Nat \ {0} : Scale \div Kappa = q
    BY ScaleNumbers
  <2>2. Abs(adv) = 0
    BY DEF Abs
  <2>3. max = 0
    <3>1. max = Abs(adv) * q
      BY <2>1 DEF MaxDelta
    <3> QED BY <2>1, <2>2, <3>1
  <2>4. Delta(i) = 0 /\ Delta(j) = 0
    <3>1. \A d \in Int : Clipped(d, 0) = 0
      BY ClippedIs
    <3> QED BY <1>2, <1>5, <2>3, <3>1
  <2>5. Abs(Delta(i)) = max
    BY <2>3, <2>4 DEF Abs
  <2> QED BY <2>4, <2>5 DEF ClippedAlike
<1>7. c \in Nat \ {0}
  <2>1. Abs(adv) \in Nat \ {0}
    BY <1>2, <1>6, AbsIs
  <2>2. SumAbs \in Nat \ {0} /\ Kappa \in Nat \ {0} /\ LambdaNum \in Nat \ {0}
    BY <1>2, <2>1, VoteRiskAssumption
  <2>3. \A x, y, z \in Nat \ {0} : x * y * z \in Nat \ {0}
    <3>1. \A x, y \in Nat \ {0} : x * y \in Nat \ {0}
      OBVIOUS
    <3> QED BY <3>1
  <2> QED BY <2>2, <2>3
<1> HIDE DEF c, di, dj, adv, max
<1>8. c * di \in Int /\ c * dj \in Int /\ c * dj < c * di
  <2>1. \A n \in Nat \ {0} : \A x, y \in Int : x < y => n * x < n * y /\ n * x \in Int /\ n * y \in Int
    OBVIOUS
  <2> QED BY <1>4, <1>7, <2>1
<1>9. IF Reviewed THEN Desired(rep[i]) < Desired(rep[j]) ELSE Desired(rep[i]) > Desired(rep[j])
  BY <1>5, <1>8
<1>10. /\ ~ (Delta(i) = Delta(j) /\ Abs(Delta(i)) = max)
       /\ ~ (Delta(j) = Delta(i) /\ Abs(Delta(j)) = max)
  BY DEF ClippedAlike, max
<1>11. IF Reviewed THEN Delta(i) < Delta(j) ELSE Delta(i) > Delta(j)
  <2>1. CASE Reviewed
    <3>1. Desired(rep[i]) < Desired(rep[j])
      BY <1>9, <2>1
    <3> QED BY <1>2, <1>5, <1>10, <2>1, <3>1, ClippedOrder
  <2>2. CASE ~ Reviewed
    <3>1. Desired(rep[j]) < Desired(rep[i])
      BY <1>2, <1>9, <2>2
    <3>2. Delta(j) < Delta(i)
      BY <1>2, <1>5, <1>10, <3>1, ClippedOrder
    <3> QED BY <1>2, <2>2, <3>2
  <2> QED BY <2>1, <2>2
<1> DEFINE base == adv * Scale
<1>12. scores[i] = base + Delta(i) /\ scores[j] = base + Delta(j)
  BY <1>1, <1>2 DEF VoteInv, Shaped, adv
<1>13. base \in Int
  BY <1>2, ScaleNumbers
<1> HIDE DEF base
<1> QED BY <1>2, <1>11, <1>12, <1>13

(* So it is in every behaviour, for every number of draws, if lambda is not *)
(* 0, which turns the method off, and no group is larger than the           *)
(* configured size, over which the version of core_algos takes the          *)
(* probabilities (RiskDecidesOrder).                                        *)
THEOREM MoreVotesMoreNegative ==
  ASSUME LambdaNum > 0, \A g \in Groups : Len(g) <= ConfiguredG
  PROVE  Spec => []RiskDecidesOrder
<1>1. VoteInv => RiskDecidesOrder
  BY VotesOrder DEF VoteInv
<1> QED BY <1>1, VoteInvariant, PTL

(* The reviewed version takes them over the group: there, no bound on the   *)
(* groups is needed.                                                        *)
THEOREM ReviewedMoreNegative ==
  ASSUME LambdaNum > 0
  PROVE  Spec => [](Reviewed => RiskDecidesOrder)
<1>1. VoteInv => (Reviewed => RiskDecidesOrder)
  BY VotesOrder
<1> QED BY <1>1, VoteInvariant, PTL
=============================================================================
