--------------------------- MODULE ServingProofs ---------------------------
(***************************************************************************)
(* First the load balancer, for any number of servers, requests and cached *)
(* sessions: its counts of requests in flight; what its cache holds; and   *)
(* that sessions stick, from the cache being the newest part of the        *)
(* history of acquisitions.                                                *)
(*                                                                         *)
(* Then serving: it uses the load balancer by its methods, so the counts   *)
(* are right there too; where the trainer is in its calls determines what  *)
(* each server runs, computes with and answers with, from which the order  *)
(* of the versions that a conversation reports follows, and that serving   *)
(* implements plain generation; and interruptions never use up the tokens  *)
(* of a conversation.                                                      *)
(***************************************************************************)
EXTENDS Serving, MCLoadBalancer, FiniteSetTheorems, SequenceTheorems, TLAPS

(* What the counts depend on; the sticky sessions only choose among servers *)
(* of the pool.                                                             *)
CountTypes ==
  /\ pool \in SUBSET Server /\ Standalone \subseteq pool
  /\ inflight \in [Server -> Nat]
  /\ ticket \in [Request -> Server \cup {NoServer}]

(* NeverOvercounts speaks of the pool only: outside it, counts are 0. *)
Counts(s) ==
  /\ inflight[s] <= Cardinality(Holders(s))
  /\ s \in Standalone => inflight[s] = Cardinality(Holders(s))

CountInv ==
  /\ CountTypes
  /\ \A s \in Server : Counts(s)
  /\ \A s \in Server \ pool : inflight[s] = 0

(* A server is not NoServer, and the two kinds are disjoint. *)
LEMMA ServerFacts ==
  /\ NoServer \notin Server
  /\ \A s \in Server : s \in Int /\ (s \in Hybrid <=> s \notin Standalone)
BY LBAssumption DEF Server, Hybrid, Standalone, NoServer

(* The requests that hold a server are finitely many. *)
LEMMA HoldersFinite ==
  \A s : IsFiniteSet(Holders(s)) /\ Cardinality(Holders(s)) \in Nat
<1>1. \A s : Holders(s) \subseteq Request
  BY DEF Holders
<1> QED
  BY <1>1, LBAssumption, FS_Subset, FS_CardinalityType

(* A request that acquires a server becomes one more holder of it. *)
LEMMA AcquireAddsHolder ==
  ASSUME CountTypes, NEW r \in Request, NEW s \in Server,
         ticket[r] = NoServer, ticket' = [ticket EXCEPT ![r] = s]
  PROVE  /\ Cardinality(Holders(s)') = Cardinality(Holders(s)) + 1
         /\ \A t \in Server \ {s} : Holders(t)' = Holders(t)
<1>1. Holders(s)' = Holders(s) \cup {r} /\ r \notin Holders(s)
  BY ServerFacts DEF Holders, CountTypes
<1>2. \A t \in Server \ {s} : Holders(t)' = Holders(t)
  BY ServerFacts DEF Holders, CountTypes
<1> QED
  BY <1>1, <1>2, HoldersFinite, FS_AddElement

(* A request that releases a server is a holder of it no more. *)
LEMMA ReleaseRemovesHolder ==
  ASSUME CountTypes, NEW r \in Request, ticket[r] # NoServer,
         ticket' = [ticket EXCEPT ![r] = NoServer]
  PROVE  /\ Cardinality(Holders(ticket[r])) > 0
         /\ Cardinality({x \in Request : ticket'[x] = ticket[r]})
              = Cardinality(Holders(ticket[r])) - 1
         /\ \A t \in Server \ {ticket[r]} : Holders(t)' = Holders(t)
<1> DEFINE s == ticket[r]
           left == {x \in Request : ticket'[x] = s}
<1>1. left = Holders(s) \ {r} /\ r \in Holders(s)
  BY ServerFacts DEF Holders, CountTypes
<1>2. \A t \in Server \ {s} : Holders(t)' = Holders(t)
  BY ServerFacts DEF Holders, CountTypes
<1>3. Cardinality(left) = Cardinality(Holders(s)) - 1
  BY <1>1, HoldersFinite, FS_RemoveElement
<1>4. IsFiniteSet(left) /\ Cardinality(left) \in Nat
  BY <1>1, HoldersFinite, FS_RemoveElement, FS_CardinalityType
<1> QED
  BY <1>2, <1>3, <1>4, HoldersFinite

(* Initially nobody holds anything. *)
LEMMA InitCounts == LBInit => CountInv
<1> SUFFICES ASSUME LBInit PROVE CountInv
  OBVIOUS
<1>1. CountTypes
  BY DEF LBInit, CountTypes, Server
<1>2. \A s \in Server : Holders(s) = {}
  BY ServerFacts DEF LBInit, Holders
<1>3. \A s \in Server : Cardinality(Holders(s)) = 0 /\ inflight[s] = 0
  BY <1>2, FS_EmptySet DEF LBInit
<1>4. \A s \in Server : inflight[s] = 0
  BY DEF LBInit
<1> QED
  BY <1>1, <1>3, <1>4 DEF CountInv, Counts

(* An acquisition counts the new holder. *)
LEMMA AcquireCounts ==
  ASSUME CountInv, NEW r \in Request, NEW s \in Server, AcquireServer(r, s)
  PROVE  CountInv'
<1>1. CountTypes'
  BY DEF CountInv, CountTypes, AcquireServer
<1>2. /\ Cardinality(Holders(s)') = Cardinality(Holders(s)) + 1
      /\ \A t \in Server \ {s} : Holders(t)' = Holders(t)
  BY AcquireAddsHolder DEF CountInv, AcquireServer
<1>3. ASSUME NEW t \in Server
      PROVE  Counts(t)'
  <2>1. CASE t = s
    BY <2>1, <1>2, HoldersFinite
       DEF CountInv, CountTypes, Counts, AcquireServer
  <2>2. CASE t # s
    <3>1. inflight'[t] = inflight[t] /\ Holders(t)' = Holders(t)
      BY <2>2, <1>2 DEF CountInv, CountTypes, AcquireServer
    <3> QED
      BY <3>1 DEF CountInv, Counts
  <2> QED
    BY <2>1, <2>2
<1>4. s \in pool /\ \A t \in Server \ pool' : inflight'[t] = 0
  BY DEF CountInv, CountTypes, AcquireServer, Selected
<1> QED
  BY <1>1, <1>3, <1>4 DEF CountInv

(* A release never takes a count below zero nor above the holders left; for *)
(* a standalone server it is never ignored.                                 *)
LEMMA ReleaseCounts ==
  ASSUME CountInv, NEW r \in Request, ReleaseServer(r)
  PROVE  CountInv'
<1> DEFINE s == ticket[r]
<1>1. s \in Server
  BY DEF CountInv, CountTypes, ReleaseServer
<1>2. /\ Cardinality(Holders(s)) > 0
      /\ Cardinality({x \in Request : ticket'[x] = s})
           = Cardinality(Holders(s)) - 1
      /\ \A t \in Server \ {s} : Holders(t)' = Holders(t)
  BY ReleaseRemovesHolder DEF CountInv, ReleaseServer
<1>3. CountTypes'
  BY <1>1 DEF CountInv, CountTypes, ReleaseServer
<1>4. ASSUME NEW t \in Server
      PROVE  Counts(t)'
  <2>1. CASE t = s
    <3>1. Holders(t)' = {x \in Request : ticket'[x] = s}
      BY <2>1 DEF Holders
    <3>2. t \in Standalone => t \in pool
      BY DEF CountInv, CountTypes
    <3>3. inflight'[t] = IF t \in pool /\ inflight[t] > 0
                         THEN inflight[t] - 1 ELSE inflight[t]
      BY <2>1, <1>1 DEF ReleaseServer, CountInv, CountTypes
    <3>4. Counts(t) /\ inflight[t] \in Nat /\ Cardinality(Holders(t)) \in Nat
      BY HoldersFinite DEF CountInv, CountTypes
    <3>5. t \notin pool => inflight[t] = 0
      BY DEF CountInv
    <3> QED
      BY <2>1, <1>2, <3>1, <3>2, <3>3, <3>4, <3>5 DEF Counts
  <2>2. CASE t # s
    <3>1. inflight'[t] = inflight[t] /\ Holders(t)' = Holders(t)
      BY <2>2, <1>1, <1>2 DEF CountInv, CountTypes, ReleaseServer
    <3> QED
      BY <3>1 DEF CountInv, Counts
  <2> QED
    BY <2>1, <2>2
<1>5. \A t \in Server \ pool' : inflight'[t] = 0
  BY <1>1 DEF CountInv, CountTypes, ReleaseServer
<1> QED
  BY <1>3, <1>4, <1>5 DEF CountInv

(* Adding and removing hybrid servers resets their counts, below whatever   *)
(* their holders are; standalone servers are not touched.                   *)
LEMMA PoolCounts ==
  ASSUME CountInv, AddServers \/ RemoveServers
  PROVE  CountInv'
<1>1. CountTypes'
  <2>1. CASE AddServers
    BY <2>1 DEF CountInv, CountTypes, AddServers, Server
  <2>2. CASE RemoveServers
    BY <2>2, ServerFacts DEF CountInv, CountTypes, RemoveServers, Server
  <2> QED
    BY <2>1, <2>2
<1>2. \A t \in Server : \/ inflight'[t] = inflight[t]
                        \/ inflight'[t] = 0 /\ t \notin Standalone
  BY ServerFacts DEF AddServers, RemoveServers
<1>3. \A t \in Server : Holders(t)' = Holders(t)
  BY DEF Holders, AddServers, RemoveServers
<1>4. \A t \in Server : Counts(t)'
  BY <1>2, <1>3, HoldersFinite DEF CountInv, Counts
<1>5. \A t \in Server \ pool' : inflight'[t] = 0
  BY DEF CountInv, AddServers, RemoveServers
<1> QED
  BY <1>1, <1>4, <1>5 DEF CountInv

(* The counts are an invariant of the load balancer. *)
THEOREM CountsKept == LBSpec => []CountInv
<1>1. ASSUME CountInv, [LBNext]_lbVars
      PROVE  CountInv'
  <2>1. CASE \E r \in Request, s \in Server : AcquireServer(r, s)
    BY <1>1, <2>1, AcquireCounts
  <2>2. CASE \E r \in Request : ReleaseServer(r)
    BY <1>1, <2>2, ReleaseCounts
  <2>3. CASE AddServers \/ RemoveServers
    BY <1>1, <2>3, PoolCounts
  <2>4. CASE UNCHANGED lbVars
    BY <1>1, <2>4 DEF lbVars, CountInv, CountTypes, Counts, Holders
  <2> QED
    BY <1>1, <2>1, <2>2, <2>3, <2>4 DEF LBNext
<1> QED
  BY <1>1, InitCounts, PTL DEF LBSpec

(* NeverOvercounts, for any number of servers, requests and cache entries:  *)
(* no interleaving of acquisitions, late releases, removals and additions   *)
(* makes a server look busier than it is, and the counts of standalone      *)
(* servers are exact.                                                       *)
THEOREM NoOvercount == LBSpec => []NeverOvercounts
<1>1. CountInv => NeverOvercounts
  BY DEF CountInv, CountTypes, Counts, NeverOvercounts, Server
<1> QED
  BY <1>1, CountsKept, PTL

-----------------------------------------------------------------------------
(***************************************************************************)
(* The cache.  No request is twice in its order; what moves an entry to    *)
(* the end, or drops the first, keeps the others in their order.           *)
(***************************************************************************)
Distinct(q) == \A i, j \in 1 .. Len(q) : q[i] = q[j] => i = j
Has(q, x) == \E i \in 1 .. Len(q) : q[i] = x

(* Removing an entry that is there: those behind it move up by one.          *)
LEMMA Removed ==
  ASSUME NEW S, NEW q \in Seq(S), Distinct(q), NEW p \in 1 .. Len(q)
  PROVE  LET u == RemoveFirst(q, q[p])
         IN  /\ u \in Seq(S) /\ Len(u) = Len(q) - 1
             /\ \A i \in 1 .. Len(u) : u[i] = IF i < p THEN q[i] ELSE q[i + 1]
<1> DEFINE n == Len(q)
           u == RemoveFirst(q, q[p])
           a == SubSeq(q, 1, p - 1)
           b == SubSeq(q, p + 1, n)
<1>1. n \in Nat /\ p \in 1 .. n
  BY LenProperties
<1>2. {i \in 1 .. n : q[i] = q[p]} = {p}
  BY DEF Distinct
<1>3. SelectInSeq(q, LAMBDA v : v = q[p]) = p
  <2>1. Min({p}) = p
    <3>1. \A x \in {p} : (\A y \in {p} : x <= y) <=> x = p
      BY <1>1
    <3>2. p \in {p} /\ \A y \in {p} : p <= y
      BY <1>1
    <3> QED BY <3>1, <3>2, Zenon DEF Min
  <2>2. {p} # {}
    OBVIOUS
  <2> QED BY <1>2, <2>1, <2>2, Zenon DEF SelectInSeq
<1>4. u = RemoveAt(q, p)
  BY <1>3 DEF RemoveFirst
<1>5. u = a \o b
  BY <1>4 DEF RemoveAt
<1>6. /\ a \in Seq(S) /\ Len(a) = p - 1
      /\ \A i \in 1 .. p - 1 : a[i] = q[i]
  BY <1>1, SubSeqProperties
<1>7. /\ b \in Seq(S) /\ Len(b) = n - p
      /\ \A i \in 1 .. n - p : b[i] = q[p + i]
  BY <1>1, SubSeqProperties
<1> HIDE DEF u, a, b, n
<1>8. /\ u \in Seq(S) /\ Len(u) = n - 1
      /\ \A i \in 1 .. n - 1 : u[i] = IF i <= p - 1 THEN a[i] ELSE b[i - (p - 1)]
  BY <1>1, <1>5, <1>6, <1>7, ConcatProperties
<1>9. ASSUME NEW i \in 1 .. n - 1
      PROVE  u[i] = IF i < p THEN q[i] ELSE q[i + 1]
  <2>1. CASE i < p
    <3>1. i <= p - 1 /\ i \in 1 .. p - 1
      BY <1>1, <2>1
    <3>2. u[i] = a[i] /\ a[i] = q[i]
      BY <1>6, <1>8, <3>1, Zenon
    <3> QED BY <2>1, <3>2, Zenon
  <2>2. CASE ~ (i < p)
    <3>1. /\ ~ (i <= p - 1) /\ i - (p - 1) \in 1 .. n - p
          /\ p + (i - (p - 1)) = i + 1
      BY <1>1, <2>2
    <3>2. u[i] = b[i - (p - 1)]
      BY <1>8, <3>1, Zenon
    <3>3. b[i - (p - 1)] = q[i + 1]
      BY <1>7, <3>1
    <3> QED BY <2>2, <3>2, <3>3, Zenon
  <2> QED BY <2>1, <2>2
<1> QED BY <1>8, <1>9, Zenon DEF u, n

(* Removing what is not there changes nothing.                               *)
LEMMA NothingRemoved ==
  ASSUME NEW q, NEW x, ~ Has(q, x)
  PROVE  RemoveFirst(q, x) = q
BY DEF RemoveFirst, Has

(* The entries that are left are the others, once each.                      *)
LEMMA RemovedEntries ==
  ASSUME NEW S, NEW q \in Seq(S), Distinct(q), NEW x
  PROVE  LET u == RemoveFirst(q, x)
         IN  /\ u \in Seq(S) /\ Distinct(u)
             /\ Len(u) = IF Has(q, x) THEN Len(q) - 1 ELSE Len(q)
             /\ \A y : Has(u, y) <=> Has(q, y) /\ y # x
<1> DEFINE u == RemoveFirst(q, x)
           n == Len(q)
<1>1. CASE ~ Has(q, x)
  <2>1. u = q
    BY <1>1, NothingRemoved
  <2> QED BY <1>1, <2>1 DEF Has
<1>2. CASE Has(q, x)
  <2>1. PICK p \in 1 .. n : q[p] = x
    BY <1>2 DEF Has
  <2>2. /\ u \in Seq(S) /\ Len(u) = n - 1
        /\ \A i \in 1 .. n - 1 : u[i] = IF i < p THEN q[i] ELSE q[i + 1]
    BY <2>1, Removed
  <2>3. n \in Nat
    BY LenProperties
  <2> DEFINE at(i) == IF i < p THEN i ELSE i + 1
  <2>4. /\ \A i \in 1 .. n - 1 : at(i) \in (1 .. n) \ {p}
        /\ \A i, j \in 1 .. n - 1 : at(i) = at(j) => i = j
        /\ \A j \in (1 .. n) \ {p} : \E i \in 1 .. n - 1 : at(i) = j
    <3>1. \A i \in 1 .. n - 1 : at(i) \in (1 .. n) \ {p}
      BY <2>3
    <3>2. \A i, j \in 1 .. n - 1 : at(i) = at(j) => i = j
      OBVIOUS
    <3>3. ASSUME NEW j \in (1 .. n) \ {p} PROVE \E i \in 1 .. n - 1 : at(i) = j
      <4>1. CASE j < p
        <5>1. j \in 1 .. n - 1 /\ at(j) = j
          BY <2>3, <4>1
        <5> QED BY <5>1
      <4>2. CASE ~ (j < p)
        <5>1. j - 1 \in 1 .. n - 1 /\ at(j - 1) = j
          BY <2>3, <4>2
        <5> QED BY <5>1
      <4> QED BY <4>1, <4>2
    <3> QED BY <3>1, <3>2, <3>3
  <2>5. \A i \in 1 .. n - 1 : u[i] = q[at(i)]
    BY <2>2
  <2> HIDE DEF u, n, at
  <2>6. \A i, j \in 1 .. n : q[i] = q[j] => i = j
    BY DEF Distinct, n
  <2>7. Distinct(u)
    BY <2>2, <2>4, <2>5, <2>6 DEF Distinct
  <2>8. ASSUME NEW y PROVE Has(u, y) <=> Has(q, y) /\ y # x
    <3>1. Has(u, y) <=> \E i \in 1 .. n - 1 : q[at(i)] = y
      BY <2>2, <2>5 DEF Has
    <3>2. Has(q, y) <=> \E j \in 1 .. n : q[j] = y
      BY DEF Has, n
    <3>3. ASSUME NEW i \in 1 .. n - 1, q[at(i)] = y PROVE Has(q, y) /\ y # x
      BY <2>1, <2>4, <2>6, <3>2, <3>3
    <3>4. ASSUME NEW j \in 1 .. n, q[j] = y, y # x PROVE Has(u, y)
      BY <2>1, <2>4, <3>1, <3>4
    <3> QED BY <3>1, <3>2, <3>3, <3>4, Zenon
  <2> QED BY <1>2, <2>2, <2>7, <2>8 DEF u, n
<1> QED BY <1>1, <1>2

(* Dropping the first entry. *)
LEMMA TailEntries ==
  ASSUME NEW S, NEW q \in Seq(S), Distinct(q), q # <<>>
  PROVE  /\ Tail(q) \in Seq(S) /\ Len(Tail(q)) = Len(q) - 1
         /\ \A i \in 1 .. Len(q) - 1 : Tail(q)[i] = q[i + 1]
         /\ Distinct(Tail(q))
         /\ \A y : Has(Tail(q), y) <=> Has(q, y) /\ y # Head(q)
<1> DEFINE n == Len(q)
           u == Tail(q)
<1>1. /\ n \in Nat /\ n >= 1 /\ u \in Seq(S) /\ Len(u) = n - 1
      /\ \A i \in 1 .. n - 1 : u[i] = q[i + 1]
      /\ Head(q) = q[1]
  OBVIOUS
<1>2. \A i, j \in 1 .. n : q[i] = q[j] => i = j
  BY DEF Distinct
<1> HIDE DEF u, n
<1>3. \A i \in 1 .. n - 1 : i + 1 \in 1 .. n /\ i + 1 # 1
  BY <1>1
<1>5. Distinct(u)
  <2> SUFFICES ASSUME NEW i \in 1 .. n - 1, NEW j \in 1 .. n - 1, u[i] = u[j]
               PROVE  i = j
    BY <1>1, Zenon DEF Distinct
  <2>1. q[i + 1] = q[j + 1]
    BY <1>1, Zenon
  <2>2. i + 1 = j + 1
    BY <1>2, <1>3, <2>1, Zenon
  <2> QED BY <2>2
<1>6. ASSUME NEW y PROVE Has(u, y) <=> Has(q, y) /\ y # q[1]
  <2>1. ASSUME NEW i \in 1 .. n - 1, u[i] = y PROVE Has(q, y) /\ y # q[1]
    <3>1. 1 \in 1 .. n
      BY <1>1
    <3>2. i + 1 \in 1 .. n /\ i + 1 # 1 /\ q[i + 1] = y
      BY <1>1, <1>3, <2>1, Zenon
    <3>3. y # q[1]
      BY <1>2, <3>1, <3>2, Zenon
    <3> QED BY <3>2, <3>3, Zenon DEF Has, n
  <2>2. ASSUME NEW j \in 1 .. n, q[j] = y, y # q[1] PROVE Has(u, y)
    <3>1. j # 1
      BY <2>2
    <3>2. j - 1 \in 1 .. n - 1 /\ j - 1 + 1 = j
      BY <1>1, <3>1
    <3>3. u[j - 1] = y
      BY <1>1, <2>2, <3>2
    <3> QED BY <1>1, <3>2, <3>3, Zenon DEF Has
  <2> QED BY <1>1, <2>1, <2>2, Zenon DEF Has, n
<1> QED BY <1>1, <1>5, <1>6, Zenon DEF u, n

(* Adding a new entry at the end. *)
LEMMA AppendEntries ==
  ASSUME NEW S, NEW q \in Seq(S), Distinct(q), NEW x \in S, ~ Has(q, x)
  PROVE  LET u == Append(q, x)
         IN  /\ u \in Seq(S) /\ Len(u) = Len(q) + 1 /\ Distinct(u)
             /\ \A i \in 1 .. Len(q) : u[i] = q[i]
             /\ u[Len(q) + 1] = x
             /\ \A y : Has(u, y) <=> Has(q, y) \/ y = x
<1> DEFINE n == Len(q)
           u == Append(q, x)
<1>1. /\ n \in Nat /\ u \in Seq(S) /\ Len(u) = n + 1
      /\ \A i \in 1 .. n : u[i] = q[i]
      /\ u[n + 1] = x
  OBVIOUS
<1>2. /\ \A i, j \in 1 .. n : q[i] = q[j] => i = j
      /\ \A i \in 1 .. n : q[i] # x
  BY DEF Distinct, Has
<1> HIDE DEF u, n
<1>3. \A i : i \in 1 .. n + 1 <=> i \in 1 .. n \/ i = n + 1
  BY <1>1
<1>4. Distinct(u)
  BY <1>1, <1>2, <1>3, Zenon DEF Distinct
<1>5. ASSUME NEW y PROVE Has(u, y) <=> Has(q, y) \/ y = x
  BY <1>1, <1>3, Zenon DEF Has, n
<1> QED BY <1>1, <1>4, <1>5, Zenon DEF u, n

(* The cache: its order lists the requests that have an entry, once each,    *)
(* and no more of them than it may hold.                                     *)
CacheInv ==
  /\ lru \in Seq(Request) /\ Distinct(lru) /\ Len(lru) <= CacheSize
  /\ route \in [Request -> Server \cup {NoServer}]
  /\ \A r \in Request : Has(lru, r) <=> route[r] # NoServer

(* What Remember appends to: the order without r, and without its first      *)
(* entry if it would be too long.                                            *)
Kept(q, r) ==
  LET others == RemoveFirst(q, r)
  IN  IF Len(others) = CacheSize THEN Tail(others) ELSE others

(* Room is made for one entry. *)
LEMMA KeptEntries ==
  ASSUME NEW q \in Seq(Request), Distinct(q), Len(q) <= CacheSize, NEW r
  PROVE  LET others == RemoveFirst(q, r)
         IN  /\ Kept(q, r) \in Seq(Request) /\ Distinct(Kept(q, r))
             /\ Len(Kept(q, r)) < CacheSize
             /\ \A x : Has(Kept(q, r), x) <=>
                  Has(q, x) /\ x # r
                    /\ ~ (Len(others) = CacheSize /\ x = Head(others))
<1> DEFINE others == RemoveFirst(q, r)
<1>1. /\ others \in Seq(Request) /\ Distinct(others)
      /\ \A x : Has(others, x) <=> Has(q, x) /\ x # r
      /\ Len(others) = IF Has(q, r) THEN Len(q) - 1 ELSE Len(q)
  BY RemovedEntries
<1>2. CacheSize \in Nat \ {0} /\ Len(q) \in Nat
  BY LBAssumption, LenProperties
<1> HIDE DEF others
<1>3. Len(others) \in Nat /\ Len(others) <= CacheSize
  <2>1. CASE Has(q, r)
    BY <1>1, <1>2, <2>1, LenProperties
  <2>2. CASE ~ Has(q, r)
    BY <1>1, <1>2, <2>2
  <2> QED BY <2>1, <2>2
<1>4. CASE Len(others) = CacheSize
  <2>1. others # <<>>
    BY <1>2, <1>4
  <2>2. /\ Tail(others) \in Seq(Request) /\ Len(Tail(others)) = Len(others) - 1
        /\ Distinct(Tail(others))
        /\ \A y : Has(Tail(others), y) <=> Has(others, y) /\ y # Head(others)
    BY <1>1, <2>1, TailEntries
  <2>3. Kept(q, r) = Tail(others)
    BY <1>4 DEF Kept, others
  <2>4. Len(Tail(others)) < CacheSize
    BY <1>2, <1>4, <2>2
  <2> QED BY <1>1, <1>4, <2>2, <2>3, <2>4, Zenon DEF others
<1>5. CASE Len(others) # CacheSize
  <2>1. Kept(q, r) = others
    BY <1>5 DEF Kept, others
  <2>2. Len(others) < CacheSize
    BY <1>2, <1>3, <1>5
  <2> QED BY <1>1, <1>5, <2>1, <2>2, Zenon DEF others
<1> QED BY <1>4, <1>5, Zenon

(* An acquisition makes r the last entry and keeps the others but the one    *)
(* that has to make room.                                                    *)
LEMMA RememberCache ==
  ASSUME CacheInv, NEW r \in Request, NEW s \in Server, Remember(r, s)
  PROVE  /\ CacheInv'
         /\ lru' = Append(Kept(lru, r), r)
         /\ route'[r] = s
         /\ \A x \in Request : x # r /\ route'[x] # NoServer => route'[x] = route[x]
<1> DEFINE others == RemoveFirst(lru, r)
           full == Len(others) = CacheSize
           k == Kept(lru, r)
<1>1. /\ lru' = Append(k, r)
      /\ route' = [x \in Request |->
                     IF x = r THEN s
                     ELSE IF full /\ x = Head(others) THEN NoServer
                     ELSE route[x]]
  BY DEF Remember, Kept
<1>2. /\ k \in Seq(Request) /\ Distinct(k) /\ Len(k) < CacheSize
      /\ \A x : Has(k, x) <=> Has(lru, x) /\ x # r /\ ~ (full /\ x = Head(others))
  BY KeptEntries DEF CacheInv
<1> HIDE DEF k, full, others
<1>3. /\ Append(k, r) \in Seq(Request) /\ Len(Append(k, r)) = Len(k) + 1
      /\ Distinct(Append(k, r))
      /\ \A y : Has(Append(k, r), y) <=> Has(k, y) \/ y = r
  BY <1>2, AppendEntries
<1>4. Len(Append(k, r)) <= CacheSize
  BY <1>2, <1>3, LBAssumption, LenProperties
<1>5. s # NoServer
  BY ServerFacts
<1>6. route' \in [Request -> Server \cup {NoServer}]
  BY <1>1 DEF CacheInv
<1>7. ASSUME NEW x \in Request
      PROVE  Has(Append(k, r), x) <=> route'[x] # NoServer
  <2>1. route'[x] = IF x = r THEN s
                    ELSE IF full /\ x = Head(others) THEN NoServer ELSE route[x]
    BY <1>1
  <2> QED BY <1>2, <1>3, <1>5, <2>1, Zenon DEF CacheInv
<1>8. ASSUME NEW x \in Request, x # r, route'[x] # NoServer
      PROVE  route'[x] = route[x]
  BY <1>1, <1>8
<1>9. route'[r] = s
  BY <1>1
<1>10. CacheInv'
  BY <1>1, <1>3, <1>4, <1>6, <1>7, Zenon DEF CacheInv
<1> QED BY <1>1, <1>8, <1>9, <1>10, Zenon DEF k

(* Only acquisitions touch the cache. *)
LEMMA CacheStep == CacheInv /\ [LBNext]_lbVars => CacheInv'
<1> SUFFICES ASSUME CacheInv, [LBNext]_lbVars PROVE CacheInv'
  OBVIOUS
<1>1. ASSUME NEW r \in Request, NEW s \in Server, AcquireServer(r, s)
      PROVE  CacheInv'
  BY <1>1, RememberCache DEF AcquireServer
<1>2. UNCHANGED <<lru, route>> => CacheInv'
  BY DEF CacheInv
<1> QED BY <1>1, <1>2 DEF LBNext, ReleaseServer, AddServers, RemoveServers, lbVars

(* The cache starts empty. *)
LEMMA CacheStart == LBInit => CacheInv
<1> SUFFICES ASSUME LBInit PROVE CacheInv
  OBVIOUS
<1>1. lru = <<>> /\ Len(lru) = 0 /\ 1 .. 0 = {} /\ lru \in Seq(Request)
  BY DEF LBInit
<1>2. Distinct(lru) /\ \A r : ~ Has(lru, r)
  BY <1>1, Zenon DEF Distinct, Has
<1>3. /\ route \in [Request -> Server \cup {NoServer}]
      /\ \A r \in Request : route[r] = NoServer
  BY DEF LBInit
<1>4. Len(lru) <= CacheSize
  BY <1>1, LBAssumption
<1> QED BY <1>1, <1>2, <1>3, <1>4, Zenon DEF CacheInv

(* The type invariant of the balancer: the order of the cache is that of the *)
(* requests with an entry, without repetition and within the limit, however  *)
(* entries are renewed, deleted and evicted.                                 *)
THEOREM BalancerTypeCorrect == LBSpec => []LBTypeOK
<1>1. CountInv /\ CacheInv => LBTypeOK
  <2> SUFFICES ASSUME CountInv, CacheInv PROVE LBTypeOK
    OBVIOUS
  <2> DEFINE D == {r \in Request : route[r] # NoServer}
             n == Len(lru)
             f == [i \in 1 .. n |-> lru[i]]
  <2>1. n \in Nat /\ DOMAIN lru = 1 .. n /\ \A i \in 1 .. n : lru[i] \in Request
    BY LenProperties DEF CacheInv
  <2>2. {lru[i] : i \in DOMAIN lru} = D
    BY <2>1 DEF CacheInv, Has
  <2>3. f \in Surjection(1 .. n, D)
    BY <2>1, <2>2 DEF Surjection
  <2>4. f \in Injection(1 .. n, D)
    BY <2>1, <2>2 DEF Injection, IsInjective, CacheInv, Distinct
  <2>5. IsFiniteSet(1 .. n) /\ Cardinality(1 .. n) = n
    BY <2>1, FS_Interval
  <2> HIDE DEF f, D, n
  <2>6. Cardinality(D) = n
    BY <2>3, <2>4, <2>5, FS_Surjection
  <2> QED BY <2>2, <2>6 DEF CountInv, CountTypes, CacheInv, LBTypeOK, D, n
<1>2. LBSpec => []CacheInv
  BY CacheStart, CacheStep, PTL DEF LBSpec
<1> QED BY <1>1, <1>2, CountsKept, PTL

-----------------------------------------------------------------------------
(***************************************************************************)
(* Sticky sessions.  The cache holds the requests acquired last, in the    *)
(* order of all acquisitions, and for each the server it acquired.         *)
(***************************************************************************)
Suffix(l, q) ==
  /\ Len(l) <= Len(q)
  /\ \A i \in 1 .. Len(l) : l[i] = q[Len(q) - Len(l) + i]

(* As many of the last entries of q as the cache holds. *)
Newest(l, q) ==
  /\ Suffix(l, q)
  /\ Len(l) < CacheSize => Len(l) = Len(q)

(* What both append to agrees as well, the cache's being one short.          *)
LEMMA KeptSuffix ==
  ASSUME NEW S, NEW l \in Seq(S), Distinct(l), NEW q \in Seq(S), Distinct(q),
         Newest(l, q), Len(l) <= CacheSize, NEW r
  PROVE  LET k == Kept(l, r)
             p == RemoveFirst(q, r)
         IN  Suffix(k, p) /\ (Len(k) + 1 < CacheSize => Len(k) = Len(p))
<1> DEFINE L == Len(l)
           Q == Len(q)
           D == Q - L
           C == CacheSize
<1>1. /\ L \in Nat /\ Q \in Nat /\ L <= Q /\ C \in Nat \ {0} /\ L <= C
      /\ D \in Nat /\ (L < C => D = 0)
      /\ \A i \in 1 .. L : l[i] = q[D + i]
  BY LBAssumption, LenProperties DEF Newest, Suffix
<1> DEFINE u == RemoveFirst(l, r)
           k == Kept(l, r)
           p == RemoveFirst(q, r)
<1>2. k = IF Len(u) = C THEN Tail(u) ELSE u
  BY DEF Kept
<1>3. CASE Has(l, r)
  <2>1. PICK i \in 1 .. L : l[i] = r
    BY <1>3 DEF Has
  <2>2. D + i \in 1 .. Q /\ q[D + i] = r
    BY <1>1, <2>1
  <2>3. /\ Len(u) = L - 1
        /\ \A a \in 1 .. L - 1 : u[a] = IF a < i THEN l[a] ELSE l[a + 1]
    BY <2>1, Removed
  <2>4. /\ Len(p) = Q - 1
        /\ \A a \in 1 .. Q - 1 : p[a] = IF a < D + i THEN q[a] ELSE q[a + 1]
    BY <2>2, Removed
  <2> HIDE DEF u, k, p, L, Q
  <2>5. k = u
    BY <1>1, <1>2, <2>3
  <2>6. ASSUME NEW a \in 1 .. L - 1 PROVE u[a] = p[D + a]
    <3>1. D + a \in 1 .. Q - 1
      BY <1>1
    <3>2. CASE a < i
      <4>1. D + a < D + i /\ a \in 1 .. L
        BY <1>1, <2>1, <3>2
      <4> QED BY <1>1, <2>3, <2>4, <3>1, <3>2, <4>1
    <3>3. CASE ~ (a < i)
      <4>1. ~ (D + a < D + i) /\ a + 1 \in 1 .. L /\ D + (a + 1) = (D + a) + 1
        BY <1>1, <2>1, <3>3
      <4>2. p[D + a] = q[(D + a) + 1]
        BY <2>4, <3>1, <4>1, Zenon
      <4>3. u[a] = l[a + 1]
        BY <2>3, <3>3, Zenon
      <4>4. l[a + 1] = q[D + (a + 1)]
        BY <1>1, <4>1, Zenon
      <4> QED BY <4>1, <4>2, <4>3, <4>4, Zenon
    <3> QED BY <3>2, <3>3
  <2>7. Len(p) - Len(u) = D /\ Len(u) <= Len(p) /\ (Len(u) + 1 < C => Len(u) = Len(p))
    BY <1>1, <2>3, <2>4
  <2>8. Suffix(u, p)
    BY <2>3, <2>6, <2>7, Zenon DEF Suffix
  <2> QED BY <2>5, <2>7, <2>8 DEF u, k, p
<1>4. CASE ~ Has(l, r)
  <2>1. u = l
    BY <1>4, NothingRemoved
  <2>2. CASE L < C
    <3>1. ~ Has(q, r)
      BY <1>1, <1>4, <2>2 DEF Has
    <3>2. p = q
      BY <3>1, NothingRemoved
    <3>3. k = l
      BY <1>1, <1>2, <2>1, <2>2
    <3> QED BY <1>1, <2>2, <3>2, <3>3 DEF Newest
  <2>3. CASE L = C
    <3>0. L >= 1
      BY <1>1, <2>3
    <3>1. k = Tail(l)
      BY <1>2, <2>1, <2>3
    <3>2. /\ Len(k) = L - 1
          /\ \A a \in 1 .. L - 1 : k[a] = l[a + 1]
      BY <3>0, <3>1
    <3>3. \E d \in Nat : /\ Len(p) = L - 1 + d
                         /\ \A a \in 1 .. L - 1 : p[d + a] = l[a + 1]
      <4>1. CASE Has(q, r)
        <5>1. PICK i \in 1 .. Q : q[i] = r
          BY <4>1 DEF Has
        <5>2. /\ Len(p) = Q - 1
              /\ \A a \in 1 .. Q - 1 : p[a] = IF a < i THEN q[a] ELSE q[a + 1]
          BY <5>1, Removed
        <5> HIDE DEF p, Q, L
        <5>3. i <= D
          <6> SUFFICES ASSUME D < i PROVE FALSE
            BY <1>1
          <6>1. i - D \in 1 .. L /\ D + (i - D) = i
            BY <1>1
          <6>2. l[i - D] = r
            BY <1>1, <5>1, <6>1, Zenon
          <6> QED BY <1>4, <6>1, <6>2, Zenon DEF Has, L
        <5>4. ASSUME NEW a \in 1 .. L - 1 PROVE p[D + a] = l[a + 1]
          <6>1. /\ D + a \in 1 .. Q - 1 /\ ~ (D + a < i)
                /\ (D + a) + 1 = D + (a + 1) /\ a + 1 \in 1 .. L
            BY <1>1, <5>3
          <6>2. p[D + a] = q[(D + a) + 1]
            BY <5>2, <6>1, Zenon
          <6>3. l[a + 1] = q[D + (a + 1)]
            BY <1>1, <6>1, Zenon
          <6> QED BY <6>1, <6>2, <6>3, Zenon
        <5>5. Len(p) = L - 1 + D
          BY <1>1, <5>2
        <5> QED BY <1>1, <5>4, <5>5, Zenon
      <4>2. CASE ~ Has(q, r)
        <5>1. p = q
          BY <4>2, NothingRemoved
        <5> HIDE DEF p, Q, L
        <5>2. ASSUME NEW a \in 1 .. L - 1 PROVE q[(D + 1) + a] = l[a + 1]
          <6>1. (D + 1) + a = D + (a + 1) /\ a + 1 \in 1 .. L
            BY <1>1
          <6> QED BY <1>1, <6>1, Zenon
        <5>3. D + 1 \in Nat /\ Q = L - 1 + (D + 1)
          BY <1>1
        <5> QED BY <5>1, <5>2, <5>3, Zenon DEF Q
      <4> QED BY <4>1, <4>2
    <3>4. PICK d \in Nat : /\ Len(p) = L - 1 + d
                           /\ \A a \in 1 .. L - 1 : p[d + a] = l[a + 1]
      BY <3>3
    <3> HIDE DEF k, p, L
    <3>5. Len(p) - Len(k) = d /\ Len(k) <= Len(p) /\ ~ (Len(k) + 1 < C)
      BY <1>1, <2>3, <3>2, <3>4
    <3>6. Suffix(k, p)
      BY <3>2, <3>4, <3>5, Zenon DEF Suffix
    <3> QED BY <3>5, <3>6 DEF k, p
  <2> QED BY <1>1, <2>2, <2>3
<1> QED BY <1>3, <1>4

(* So they agree after the acquisition. *)
LEMMA AppendSuffix ==
  ASSUME NEW S, NEW k \in Seq(S), NEW p \in Seq(S), Suffix(k, p), NEW x \in S
  PROVE  Suffix(Append(k, x), Append(p, x))
<1> DEFINE K == Len(k)
           P == Len(p)
           u == Append(k, x)
           v == Append(p, x)
<1>1. /\ K \in Nat /\ P \in Nat /\ K <= P
      /\ \A i \in 1 .. K : k[i] = p[P - K + i]
  BY LenProperties DEF Suffix
<1>2. /\ Len(u) = K + 1 /\ u[K + 1] = x /\ \A i \in 1 .. K : u[i] = k[i]
      /\ Len(v) = P + 1 /\ v[P + 1] = x /\ \A i \in 1 .. P : v[i] = p[i]
  OBVIOUS
<1> HIDE DEF K, P, u, v
<1>3. Len(v) - Len(u) = P - K /\ Len(u) <= Len(v)
  BY <1>1, <1>2
<1>4. ASSUME NEW i \in 1 .. K + 1 PROVE u[i] = v[P - K + i]
  <2>1. CASE i = K + 1
    <3>1. P - K + i = P + 1
      BY <1>1, <2>1
    <3> QED BY <1>2, <2>1, <3>1, Zenon
  <2>2. CASE i \in 1 .. K
    <3>1. P - K + i \in 1 .. P
      BY <1>1, <2>2
    <3> QED BY <1>1, <1>2, <2>2, <3>1, Zenon
  <2> QED BY <1>1, <2>1, <2>2
<1> QED BY <1>2, <1>3, <1>4, Zenon DEF Suffix, u, v

StickyInv ==
  /\ CountTypes /\ CacheInv
  /\ recent \in Seq(Request) /\ Distinct(recent) /\ Newest(lru, recent)
  /\ home \in [Request -> Server \cup {NoServer}]
  /\ \A r \in Request : home[r] # NoServer => Has(recent, r)
  /\ \A r \in Request : route[r] # NoServer => route[r] = home[r]

(* What the history records: an acquisition, and nothing else. *)
LEMMA AcquireRecorded ==
  ASSUME StickyInv, MCNext, NEW r \in Request, NEW s \in Server, AcquireServer(r, s)
  PROVE  /\ home' = [home EXCEPT ![r] = s]
         /\ recent' = Append(RemoveFirst(recent, r), r)
         /\ \A x \in Request, y \in Server : Acquired(x, y) => x = r /\ y = s
<1>1. /\ ticket \in [Request -> Server \cup {NoServer}]
      /\ ticket[r] = NoServer /\ ticket' = [ticket EXCEPT ![r] = s]
      /\ home \in [Request -> Server \cup {NoServer}] /\ s # NoServer
  BY ServerFacts DEF StickyInv, CountTypes, AcquireServer
<1>2. /\ ticket'[r] = s
      /\ \A x \in Request : x # r => ticket'[x] = ticket[x]
  BY <1>1
<1>3. \A x \in Request : Acquired(x, ticket'[x]) <=> x = r
  BY <1>1, <1>2, Zenon DEF Acquired
<1>4. (CHOOSE x \in Request : Acquired(x, ticket'[x])) = r
  BY <1>3, Zenon
<1>5. recent' = Append(RemoveFirst(recent, r), r)
  BY <1>3, <1>4, Zenon DEF MCNext
<1>6. home' = [home EXCEPT ![r] = s]
  <2>1. home' = [x \in Request |-> IF ticket[x] = NoServer
                                   THEN IF ticket'[x] = NoServer THEN home[x]
                                        ELSE ticket'[x]
                                   ELSE home[x]]
    BY DEF MCNext
  <2> QED BY <1>1, <1>2, <2>1
<1>7. \A x \in Request, y \in Server : Acquired(x, y) => x = r /\ y = s
  BY <1>1, <1>2, Zenon DEF Acquired
<1> QED BY <1>5, <1>6, <1>7

(* A step that acquires nothing leaves the history as it was.                *)
LEMMA OthersRecorded ==
  ASSUME StickyInv, MCNext,
         \A r \in Request : ticket'[r] = ticket[r] \/ ticket'[r] = NoServer
  PROVE  /\ home' = home /\ recent' = recent
         /\ \A x \in Request, y \in Server : ~ Acquired(x, y)
<1>1. \A x \in Request : \A y : ~ Acquired(x, y)
  BY DEF Acquired
<1>2. recent' = recent
  BY <1>1, Zenon DEF MCNext
<1>3. home' = home
  <2>1. home' = [x \in Request |-> IF ticket[x] = NoServer
                                   THEN IF ticket'[x] = NoServer THEN home[x]
                                        ELSE ticket'[x]
                                   ELSE home[x]]
    BY DEF MCNext
  <2> QED BY <2>1 DEF StickyInv
<1> QED BY <1>1, <1>2, <1>3

(* Releasing a server and changing the pool write neither the cache nor the  *)
(* memory of the requests' servers, and take tickets only away.              *)
LEMMA OtherTickets ==
  ASSUME CountTypes,
         (\E r \in Request : ReleaseServer(r)) \/ AddServers \/ RemoveServers
  PROVE  /\ UNCHANGED <<lru, route>>
         /\ \A r \in Request : ticket'[r] = ticket[r] \/ ticket'[r] = NoServer
BY DEF CountTypes, ReleaseServer, AddServers, RemoveServers

(* Nothing has been acquired: the cache and the history are both empty.      *)
LEMMA StickyStart == MCInit => StickyInv
<1> SUFFICES ASSUME MCInit PROVE StickyInv
  OBVIOUS
<1>1. CountTypes /\ CacheInv
  BY InitCounts, CacheStart DEF MCInit, CountInv
<1>2. /\ recent = <<>> /\ lru = <<>> /\ Len(<<>>) = 0 /\ 1 .. 0 = {}
      /\ <<>> \in Seq(Request) /\ 0 <= 0
  BY DEF MCInit, LBInit
<1>3. Distinct(recent) /\ Newest(lru, recent)
  BY <1>2, Zenon DEF Distinct, Newest, Suffix
<1>4. /\ home \in [Request -> Server \cup {NoServer}]
      /\ \A r \in Request : home[r] = NoServer /\ route[r] = NoServer
  BY DEF MCInit, LBInit
<1> QED BY <1>1, <1>2, <1>3, <1>4 DEF StickyInv

(* An acquisition puts its request at the end of the cache and of the        *)
(* history; the other operations touch neither.                              *)
LEMMA StickyStep == StickyInv /\ [MCNext]_<<lbVars, home, recent>> => StickyInv'
<1> SUFFICES ASSUME StickyInv, [MCNext]_<<lbVars, home, recent>> PROVE StickyInv'
  OBVIOUS
<1>1. [LBNext]_lbVars
  BY DEF MCNext, lbVars
<1>2. CountTypes'
  <2>1. CASE UNCHANGED lbVars
    BY <2>1 DEF lbVars, StickyInv, CountTypes
  <2>2. CASE LBNext
    <3>1. ASSUME NEW r \in Request, NEW s \in Server, AcquireServer(r, s)
          PROVE  CountTypes'
      BY <3>1 DEF StickyInv, CountTypes, AcquireServer
    <3>2. ASSUME NEW r \in Request, ReleaseServer(r)
          PROVE  CountTypes'
      BY <3>2 DEF StickyInv, CountTypes, ReleaseServer
    <3>3. AddServers => CountTypes'
      BY DEF StickyInv, CountTypes, AddServers, Server
    <3>4. RemoveServers => CountTypes'
      BY ServerFacts DEF StickyInv, CountTypes, RemoveServers, Server
    <3> QED BY <2>2, <3>1, <3>2, <3>3, <3>4 DEF LBNext
  <2> QED BY <1>1, <2>1, <2>2
<1>3. CacheInv'
  BY <1>1, CacheStep DEF StickyInv
<1>4. ASSUME MCNext, NEW r \in Request, NEW s \in Server, AcquireServer(r, s)
      PROVE  StickyInv'
  <2>1. /\ home' = [home EXCEPT ![r] = s]
        /\ recent' = Append(RemoveFirst(recent, r), r)
    BY <1>4, AcquireRecorded
  <2>2. /\ lru' = Append(Kept(lru, r), r) /\ route'[r] = s
        /\ \A x \in Request : x # r /\ route'[x] # NoServer => route'[x] = route[x]
    BY <1>4, RememberCache DEF StickyInv, AcquireServer
  <2> DEFINE p == RemoveFirst(recent, r)
             k == Kept(lru, r)
  <2>3. /\ p \in Seq(Request) /\ Distinct(p)
        /\ \A y : Has(p, y) <=> Has(recent, y) /\ y # r
    BY RemovedEntries DEF StickyInv
  <2>4. k \in Seq(Request) /\ Len(k) < CacheSize
    BY KeptEntries DEF StickyInv, CacheInv
  <2>5. Suffix(k, p) /\ (Len(k) + 1 < CacheSize => Len(k) = Len(p))
    BY KeptSuffix DEF StickyInv, CacheInv
  <2> HIDE DEF k, p
  <2>6. /\ recent' \in Seq(Request) /\ Distinct(recent)' /\ Len(recent') = Len(p) + 1
        /\ \A y : Has(recent', y) <=> Has(p, y) \/ y = r
    BY <2>1, <2>3, AppendEntries DEF p, Distinct
  <2>7. Newest(lru, recent)'
    <3>1. Suffix(lru', recent')
      BY <2>1, <2>2, <2>3, <2>4, <2>5, AppendSuffix DEF k, p
    <3>2. Len(lru') = Len(k) + 1
      BY <2>2, <2>4 DEF k
    <3>3. Len(lru') < CacheSize => Len(lru') = Len(recent')
      BY <2>5, <2>6, <3>2
    <3> QED BY <3>1, <3>3, Zenon DEF Newest, Suffix
  <2>8. /\ home' \in [Request -> Server \cup {NoServer}]
        /\ home'[r] = s /\ \A x \in Request : x # r => home'[x] = home[x]
    BY <2>1 DEF StickyInv
  <2>9. \A x \in Request : home'[x] # NoServer => Has(recent', x)
    BY <2>3, <2>6, <2>8, Zenon DEF StickyInv
  <2>10. \A x \in Request : route'[x] # NoServer => route'[x] = home'[x]
    BY <2>2, <2>8, Zenon DEF StickyInv
  <2> QED BY <1>2, <1>3, <2>6, <2>7, <2>8, <2>9, <2>10, Zenon DEF StickyInv, Has
<1>5. ASSUME UNCHANGED <<lru, route, home, recent>> PROVE StickyInv'
  BY <1>2, <1>3, <1>5 DEF StickyInv, Distinct, Has, Newest, Suffix
<1>6. ASSUME MCNext, ~ \E r \in Request, s \in Server : AcquireServer(r, s)
      PROVE  StickyInv'
  <2>1. /\ UNCHANGED <<lru, route>>
        /\ \A r \in Request : ticket'[r] = ticket[r] \/ ticket'[r] = NoServer
    BY <1>6, OtherTickets DEF MCNext, LBNext, StickyInv
  <2>2. UNCHANGED <<home, recent>>
    BY <1>6, <2>1, OthersRecorded
  <2> QED BY <1>5, <2>1, <2>2
<1>7. CASE UNCHANGED <<lbVars, home, recent>>
  BY <1>5, <1>7 DEF lbVars
<1> QED BY <1>4, <1>6, <1>7

(* The requests acquired since one are those from its place to the end.      *)
LEMMA SinceCount ==
  ASSUME StickyInv, NEW p \in 1 .. Len(recent)
  PROVE  Cardinality(Since(recent[p])) = Len(recent) - p + 1
<1> DEFINE n == Len(recent)
           r == recent[p]
           T == Since(r)
           f == [j \in p .. n |-> recent[j]]
<1>1. /\ n \in Nat /\ DOMAIN recent = 1 .. n /\ p \in 1 .. n
      /\ \A i \in 1 .. n : recent[i] \in Request
      /\ \A i, j \in 1 .. n : recent[i] = recent[j] => i = j
  BY LenProperties DEF StickyInv, Distinct
<1> HIDE DEF n
<1>2. \A j \in p .. n : j \in 1 .. n /\ p <= j
  BY <1>1
<1>3. \A j \in 1 .. n : p <= j => j \in p .. n
  BY <1>1
<1>4. \A j \in p .. n : recent[j] \in T
  BY <1>1, <1>2, Zenon DEF Since
<1>5. \A x \in T : \E j \in p .. n : recent[j] = x
  <2> SUFFICES ASSUME NEW x \in T PROVE \E j \in p .. n : recent[j] = x
    OBVIOUS
  <2>1. PICK i \in 1 .. n, j \in 1 .. n : recent[i] = r /\ recent[j] = x /\ i <= j
    BY <1>1, Zenon DEF Since
  <2>2. i = p
    BY <1>1, <2>1, Zenon
  <2> QED BY <1>3, <2>1, <2>2, Zenon
<1> HIDE DEF T
<1>6. f \in Surjection(p .. n, T)
  BY <1>4, <1>5 DEF Surjection
<1>7. f \in Injection(p .. n, T)
  BY <1>1, <1>2, <1>4 DEF Injection, IsInjective
<1>8. IsFiniteSet(p .. n) /\ Cardinality(p .. n) = n - p + 1
  BY <1>1, FS_Interval
<1> HIDE DEF f
<1>9. Cardinality(T) = Cardinality(p .. n)
  BY <1>6, <1>7, <1>8, FS_Surjection
<1> QED BY <1>8, <1>9 DEF T, n

(* A session that is not too old is still in the cache.                      *)
LEMMA StillCached ==
  ASSUME StickyInv, NEW r \in Request, home[r] # NoServer,
         Cardinality(Since(r)) <= CacheSize
  PROVE  route[r] = home[r]
<1>1. PICK p \in 1 .. Len(recent) : recent[p] = r
  BY DEF StickyInv, Has
<1>2. Cardinality(Since(r)) = Len(recent) - p + 1
  BY <1>1, SinceCount
<1> DEFINE L == Len(lru)
           Q == Len(recent)
<1>3. /\ L \in Nat /\ Q \in Nat /\ L <= Q /\ CacheSize \in Nat /\ L <= CacheSize
      /\ L < CacheSize => L = Q
      /\ \A i \in 1 .. L : lru[i] = recent[Q - L + i]
  BY LBAssumption, LenProperties DEF StickyInv, CacheInv, Newest, Suffix
<1> HIDE DEF L, Q
<1>4. Q - p + 1 <= CacheSize /\ p \in 1 .. Q
  BY <1>2 DEF Q
<1>5. p - (Q - L) \in 1 .. L /\ Q - L + (p - (Q - L)) = p
  BY <1>3, <1>4
<1>6. lru[p - (Q - L)] = r
  BY <1>1, <1>3, <1>5, Zenon
<1>7. Has(lru, r)
  BY <1>5, <1>6, Zenon DEF Has, L
<1> QED BY <1>7 DEF StickyInv, CacheInv

(* Sticky sessions for any number of servers, requests and sessions: as long *)
(* as its last server is in the pool, and no more requests than the cache    *)
(* holds have been routed since, a conversation goes back to it, whatever    *)
(* the pool went through meanwhile (lines 75-89 of llm_server.py).           *)
THEOREM SessionsStick == MCSpec => StickySession
<1> DEFINE Sticks == \A r \in Request, s \in Server :
             Acquired(r, s) /\ home[r] \in pool /\ Cardinality(Since(r)) <= CacheSize
               => s = home[r]
<1>1. StickyInv /\ [MCNext]_<<lbVars, home, recent>>
        => [Sticks]_<<lbVars, home, recent>>
  <2> SUFFICES ASSUME StickyInv, MCNext, NEW r \in Request, NEW s \in Server,
                      Acquired(r, s), home[r] \in pool,
                      Cardinality(Since(r)) <= CacheSize
               PROVE  s = home[r]
    OBVIOUS
  <2>1. PICK x \in Request, y \in Server : AcquireServer(x, y)
    <3> SUFFICES ASSUME ~ \E x \in Request, y \in Server : AcquireServer(x, y)
                 PROVE  FALSE
      OBVIOUS
    <3>1. \A z \in Request : ticket'[z] = ticket[z] \/ ticket'[z] = NoServer
      BY OtherTickets DEF MCNext, LBNext, StickyInv
    <3> QED BY <3>1, OthersRecorded
  <2>2. x = r /\ y = s
    BY <2>1, AcquireRecorded
  <2>3. home[r] # NoServer
    BY ServerFacts DEF StickyInv, CountTypes
  <2>4. route[r] = home[r]
    BY <2>3, StillCached
  <2> QED BY <2>1, <2>2, <2>4 DEF AcquireServer, Selected
<1>2. MCSpec => []StickyInv
  BY StickyStart, StickyStep, PTL DEF MCSpec
<1>3. MCSpec => [][Sticks]_<<lbVars, home, recent>>
  BY <1>1, <1>2, PTL DEF MCSpec
<1> QED BY <1>3 DEF StickySession

-----------------------------------------------------------------------------
(* Serving uses the load balancer through its methods only: every step of   *)
(* an agent loop, an engine or the trainer is a step of the balancer or     *)
(* leaves it alone.                                                         *)
THEOREM ServingUsesBalancer == Spec => LBSpec
<1>1. Init => LBInit
  BY DEF Init
<1>2. ASSUME [Next]_vars
      PROVE  [LBNext]_lbVars
  <2>1. ASSUME NEW r \in Request, CallServer(r)
        PROVE  LBNext
    BY <2>1 DEF CallServer, LBNext
  <2>2. ASSUME NEW r \in Request, Engine(r)
        PROVE  UNCHANGED lbVars
    BY <2>2 DEF Engine, EnterEngine, GenerateToken, FinishTurn
  <2>3. ASSUME NEW r \in Request, Release(r)
        PROVE  LBNext
    BY <2>3 DEF Release, LBNext
  <2>4. ASSUME NEW s \in Server, Replica(s)
        PROVE  UNCHANGED lbVars
    BY <2>4 DEF Replica, AbortAllRequests, Drain, Transfer, SetGlobalSteps,
                ResumeGeneration, Sleep
  <2>5. StartSync => UNCHANGED lbVars
    BY DEF StartSync
  <2>6. Validation => LBNext \/ UNCHANGED lbVars
    BY DEF Validation, AddReplicas, RemoveReplicas, DoValidate, LBNext
  <2>7. Terminated \/ UNCHANGED vars => UNCHANGED lbVars
    BY DEF Terminated, vars
  <2> QED
    BY <1>2, <2>1, <2>2, <2>3, <2>4, <2>5, <2>6, <2>7 DEF Next
<1> QED
  BY <1>1, <1>2, PTL DEF Spec, LBSpec

(* So the counts are right whatever interrupts, resumes, loads and sleeps.  *)
THEOREM ServingCounts == Spec => []NeverOvercounts
BY ServingUsesBalancer, NoOvercount, PTL

-----------------------------------------------------------------------------
(***************************************************************************)
(* Where the trainer is: the calls of a synchronisation and a validation   *)
(* have one numbering, 1 to 20, and 21 is between two of them.             *)
(***************************************************************************)
Whole == Synchronisation \o TrainerSideValidate
From(calls, n) == SubSeq(calls, n, Len(calls))
Outside == 21

Position(n) ==
  IF n = Outside THEN script = <<>> /\ todo = {}
  ELSE /\ todo \subseteq Whole[n].on
       /\ \/ script = From(Whole, n)
          \/ n <= 5 /\ script = From(Synchronisation, n)

(* The newest version whose label a running request can meet. *)
Current(n) == IF n \in 1 .. 4 THEN version - 1 ELSE version

(* At each call: what the standalone servers compute with and say, ... *)
StandaloneAt(n, s) ==
  /\ weights[s] = IF n \in 1 .. 2 \/ (n = 3 /\ s \in todo) THEN version - 1 ELSE version
  /\ label[s] = IF n \in 1 .. 3 \/ (n = 4 /\ s \in todo) THEN version - 1 ELSE version

(* ... the same of the hybrid ones, asleep but for a validation, ... *)
HybridAt(n, s) ==
  /\ weights[s] = IF \/ n \in 7 .. 17
                     \/ n = 6 /\ s \notin todo
                     \/ n = 18 /\ s \in todo
                  THEN version ELSE Released
  /\ n \in 8 .. 18 \/ (n = 7 /\ s \notin todo) => label[s] = version

(* ... which servers may be paused, which must be, and the pool. *)
PausedAt(n) ==
  /\ n \in {6, 7, 13, Outside} => paused = {}
  /\ n \in {5, 12, 20} => paused \subseteq todo
  /\ n \in {11, 19} => paused \cap Standalone \subseteq todo
  /\ n \in 1 .. 8 => paused \cap Hybrid = {}
HeldAt(n) ==
  /\ n \in 1 .. 4 => \A s \in Standalone : (n = 1 /\ s \in todo) \/ s \in paused
  /\ n \in 15 .. 19 => \A s \in Hybrid : (n = 15 /\ s \in todo) \/ s \in paused
PoolAt(n) == pool = IF n \in 11 .. 16 THEN Server ELSE Standalone

ServersAt(n) ==
  /\ Position(n)
  /\ version \in Version /\ (n # Outside => version > 0)
  /\ \A s \in Standalone : StandaloneAt(n, s)
  /\ \A s \in Hybrid : HybridAt(n, s)
  /\ PausedAt(n) /\ PoolAt(n)
  /\ EnginePauses => HeldAt(n)

(* Conversations: a server that is paused runs none, and the versions of    *)
(* one that no server fell asleep with are in order.                        *)
PausedIdle == \A s \in paused : Running(s) = {}

(* The versions of record t are in order, and none is newer than cur. *)
Order(t, cur) ==
  /\ t.used \subseteq 0 .. cur
  /\ t.pc # "running" => t.now = {}
  /\ t.now \subseteq {cur}
  /\ t.no = 0 => t.pc = "idle" /\ t.used = {}
  /\ t.lo = NoVersion \/ t.lo \in 0 .. cur
  /\ t.pc = "idle" => t.lo = NoVersion
  /\ t.no = 1 /\ t.pc # "idle" => \A v \in t.used : t.lo \in 0 .. v
  /\ t.no > 1 \/ (t.no = 1 /\ t.pc = "idle") =>
       /\ t.first \in 0 .. cur /\ t.last \in 0 .. cur
       /\ \A v \in t.used : t.first <= v /\ (t.pc = "idle" => v <= t.last)

(* A request on a hybrid server, if the server has not fallen asleep since, *)
(* was sent for this validation.                                            *)
OnAwake(r, n) ==
  turn[r].pc \in {"sent", "running"} /\ ticket[r] \in Hybrid
    => n \in 11 .. 17 \/ (n = 18 /\ ticket[r] \in todo)

(* All conversations but the stray ones, at call n. *)
ConversationsAt(n) ==
  \A r \in Request : ~ turn[r].stray => Order(turn[r], Current(n)) /\ OnAwake(r, n)

(* Types, as weak as the arithmetic needs. *)
TurnType ==
  [pc : {"idle", "sent", "running", "resting"}, no : Nat, got : Nat, fresh : Nat,
   lo : Int, stop : {"none", "completed", "aborted"}, first : Int, last : Int,
   now : SUBSET Int, used : SUBSET Int, stray : BOOLEAN]
ConversationTypes ==
  /\ turn \in [Request -> TurnType]
  /\ ticket \in [Request -> Server \cup {NoServer}]
  /\ \A r \in Request : turn[r].pc \in {"sent", "running"} => ticket[r] \in Server
  /\ paused \subseteq Server
  /\ weights \in [Server -> Int] /\ label \in [Server -> Int]

(* The inductive invariant: some number describes the whole state. *)
ServingInv ==
  /\ ConversationTypes
  /\ PausedIdle
  /\ \E n \in 1 .. Outside :
       /\ ServersAt(n)
       /\ EnginePauses /\ PartialRollout => ConversationsAt(n)

-----------------------------------------------------------------------------
(* Calls are what the trainer asks for and the servers to answer. *)
Operation == {"abort", "drain", "transfer", "label", "resume", "add", "validate",
              "remove", "sleep"}
CallType == [op : Operation, on : SUBSET Server]

(* The two kinds of servers. *)
LEMMA Kinds ==
  /\ Hybrid \subseteq Server /\ Standalone \subseteq Server /\ Standalone # {}
  /\ Hybrid \cap Standalone = {} /\ Server = Hybrid \cup Standalone
<1>1. NumHybrid \in Standalone
  BY LBAssumption DEF Standalone
<1> QED BY <1>1, ServerFacts DEF Server

(* The calls of the trainer, and their numbers. *)
LEMMA Lists ==
  /\ Synchronisation \in Seq(CallType) /\ Len(Synchronisation) = 5
  /\ Whole \in Seq(CallType) /\ Len(Whole) = 20
  /\ \A n \in 1 .. 5 : Whole[n] = Synchronisation[n]
  /\ \A n \in 6 .. 20 : Whole[n] = TrainerSideValidate[n - 5]
<1>1. \A op \in Operation : /\ Call(op, Standalone) \in CallType
                         /\ Call(op, Hybrid) \in CallType
                         /\ Call(op, {}) \in CallType
  BY Kinds DEF Call, CallType
<1>2. Synchronisation \in Seq(CallType) /\ Len(Synchronisation) = 5
  <2>1. \A a, b, c, d, e \in CallType :
          <<a, b, c, d, e>> \in Seq(CallType) /\ Len(<<a, b, c, d, e>>) = 5
    OBVIOUS
  <2>2. \A op \in {"abort", "drain", "transfer", "label", "resume"} :
          Call(op, Standalone) \in CallType
    BY <1>1 DEF Operation
  <2> QED BY <2>1, <2>2 DEF Synchronisation
<1>3. TrainerSideValidate \in Seq(CallType) /\ Len(TrainerSideValidate) = 15
  <2>1. \A a, b, c, d, e, f, g, h, i, j, k, l, m, o, p \in CallType :
          /\ <<a, b, c, d, e, f, g, h, i, j, k, l, m, o, p>> \in Seq(CallType)
          /\ Len(<<a, b, c, d, e, f, g, h, i, j, k, l, m, o, p>>) = 15
    OBVIOUS
  <2>2. /\ Call("transfer", Hybrid) \in CallType /\ Call("label", Hybrid) \in CallType
        /\ Call("abort", Standalone) \in CallType /\ Call("abort", Hybrid) \in CallType
        /\ Call("add", {}) \in CallType /\ Call("resume", Standalone) \in CallType
        /\ Call("resume", Hybrid) \in CallType /\ Call("validate", {}) \in CallType
        /\ Call("remove", {}) \in CallType /\ Call("drain", Hybrid) \in CallType
        /\ Call("sleep", Hybrid) \in CallType
    BY <1>1 DEF Operation
  <2> QED BY <2>1, <2>2 DEF TrainerSideValidate
<1>4. /\ Whole \in Seq(CallType) /\ Len(Whole) = 5 + 15
      /\ \A n \in 1 .. 5 + 15 :
           Whole[n] = IF n <= 5 THEN Synchronisation[n] ELSE TrainerSideValidate[n - 5]
  <2>1. /\ Whole \in Seq(CallType)
        /\ Len(Whole) = Len(Synchronisation) + Len(TrainerSideValidate)
        /\ \A n \in 1 .. Len(Synchronisation) + Len(TrainerSideValidate) :
             Whole[n] = IF n <= Len(Synchronisation) THEN Synchronisation[n]
                        ELSE TrainerSideValidate[n - Len(Synchronisation)]
    BY <1>2, <1>3, ConcatProperties, Zenon DEF Whole
  <2> QED BY <1>2, <1>3, <2>1
<1> QED BY <1>2, <1>3, <1>4

(* The call of each number. *)
LEMMA Calls ==
  /\ Whole[1] = Call("abort", Standalone) /\ Whole[2] = Call("drain", Standalone)
  /\ Whole[3] = Call("transfer", Standalone) /\ Whole[4] = Call("label", Standalone)
  /\ Whole[5] = Call("resume", Standalone) /\ Whole[6] = Call("transfer", Hybrid)
  /\ Whole[7] = Call("label", Hybrid) /\ Whole[8] = Call("abort", Standalone)
  /\ Whole[9] = Call("abort", Hybrid) /\ Whole[10] = Call("add", {})
  /\ Whole[11] = Call("resume", Standalone) /\ Whole[12] = Call("resume", Hybrid)
  /\ Whole[13] = Call("validate", {}) /\ Whole[14] = Call("abort", Standalone)
  /\ Whole[15] = Call("abort", Hybrid) /\ Whole[16] = Call("remove", {})
  /\ Whole[17] = Call("drain", Hybrid) /\ Whole[18] = Call("sleep", Hybrid)
  /\ Whole[19] = Call("resume", Standalone) /\ Whole[20] = Call("resume", Hybrid)
<1>4. /\ Synchronisation[1] = Call("abort", Standalone)
      /\ Synchronisation[2] = Call("drain", Standalone)
      /\ Synchronisation[3] = Call("transfer", Standalone)
      /\ Synchronisation[4] = Call("label", Standalone)
      /\ Synchronisation[5] = Call("resume", Standalone)
  BY DEF Synchronisation
<1>5. /\ TrainerSideValidate[1] = Call("transfer", Hybrid)
      /\ TrainerSideValidate[2] = Call("label", Hybrid)
      /\ TrainerSideValidate[3] = Call("abort", Standalone)
      /\ TrainerSideValidate[4] = Call("abort", Hybrid)
      /\ TrainerSideValidate[5] = Call("add", {})
      /\ TrainerSideValidate[6] = Call("resume", Standalone)
      /\ TrainerSideValidate[7] = Call("resume", Hybrid)
      /\ TrainerSideValidate[8] = Call("validate", {})
      /\ TrainerSideValidate[9] = Call("abort", Standalone)
      /\ TrainerSideValidate[10] = Call("abort", Hybrid)
      /\ TrainerSideValidate[11] = Call("remove", {})
      /\ TrainerSideValidate[12] = Call("drain", Hybrid)
      /\ TrainerSideValidate[13] = Call("sleep", Hybrid)
      /\ TrainerSideValidate[14] = Call("resume", Standalone)
      /\ TrainerSideValidate[15] = Call("resume", Hybrid)
  BY DEF TrainerSideValidate
<1>6. /\ Whole[6] = TrainerSideValidate[1] /\ Whole[7] = TrainerSideValidate[2]
      /\ Whole[8] = TrainerSideValidate[3] /\ Whole[9] = TrainerSideValidate[4]
      /\ Whole[10] = TrainerSideValidate[5] /\ Whole[11] = TrainerSideValidate[6]
      /\ Whole[12] = TrainerSideValidate[7] /\ Whole[13] = TrainerSideValidate[8]
      /\ Whole[14] = TrainerSideValidate[9] /\ Whole[15] = TrainerSideValidate[10]
      /\ Whole[16] = TrainerSideValidate[11] /\ Whole[17] = TrainerSideValidate[12]
      /\ Whole[18] = TrainerSideValidate[13] /\ Whole[19] = TrainerSideValidate[14]
      /\ Whole[20] = TrainerSideValidate[15]
  BY Lists
<1>7. \A n \in 1 .. 5 : Whole[n] = Synchronisation[n]
  BY Lists
<1> QED BY <1>4, <1>5, <1>6, <1>7

(* What remains of a list of calls from its n-th. *)
LEMMA FromStep ==
  ASSUME NEW calls \in Seq(CallType), NEW n \in 1 .. Len(calls)
  PROVE  /\ From(calls, n) # <<>> /\ Head(From(calls, n)) = calls[n]
         /\ Tail(From(calls, n)) = From(calls, n + 1)
         /\ Len(From(calls, n)) = Len(calls) - n + 1
         /\ n < Len(calls) => From(calls, n)[2] = calls[n + 1]
<1>1. /\ From(calls, n) \in Seq(CallType)
      /\ Len(From(calls, n)) = Len(calls) - n + 1
      /\ \A i \in 1 .. Len(calls) - n + 1 : From(calls, n)[i] = calls[n + i - 1]
  BY SubSeqProperties DEF From
<1>2. Head(From(calls, n)) = calls[n] /\ Tail(From(calls, n)) = From(calls, n + 1)
  BY HeadTailOfSubSeq DEF From
<1> QED BY <1>1, <1>2

(* The whole list, and what remains after its last call. *)
LEMMA FromEnd ==
  ASSUME NEW calls \in Seq(CallType)
  PROVE  From(calls, 1) = calls /\ From(calls, Len(calls) + 1) = <<>>
BY SubSeqFull, SubSeqEmpty DEF From

(* The current call is the n-th. *)
LEMMA Number ==
  ASSUME NEW n \in 1 .. Outside, Position(n), script # <<>>
  PROVE  n \in 1 .. 20 /\ Head(script) = Whole[n] /\ todo \subseteq Whole[n].on
<1>1. n \in 1 .. 20
  BY DEF Position, Outside
<1>2. CASE script = From(Whole, n)
  BY <1>1, <1>2, Lists, FromStep DEF Position, Outside
<1>3. CASE n <= 5 /\ script = From(Synchronisation, n)
  <2>1. n \in 1 .. Len(Synchronisation) /\ Whole[n] = Synchronisation[n]
    BY <1>1, <1>3, Lists
  <2>2. script # <<>> /\ Head(script) = Whole[n]
    BY <1>3, <2>1, Lists, FromStep
  <2> QED BY <1>1, <2>2 DEF Position, Outside
<1> QED BY <1>1, <1>2, <1>3 DEF Position, Outside

(* When servers answer, the number stays, or the next call has its servers  *)
(* to ask; a list of calls ends after a synchronisation or a validation.    *)
LEMMA Moves ==
  ASSUME NEW n \in 1 .. Outside, Position(n), script # <<>>, NEW servers, Answered(servers)
  PROVE  \/ todo # servers /\ todo' = todo \ servers /\ Position(n)'
         \/ /\ todo = servers
            /\ \/ n < 20 /\ todo' = Whole[n + 1].on /\ Position(n + 1)'
               \/ n \in {5, 20} /\ todo' = {} /\ Position(Outside)'
<1>1. n \in 1 .. 20
  BY Number
<1>2. CASE todo # servers
  <2>1. todo' = todo \ servers /\ UNCHANGED script
    BY <1>2 DEF Answered
  <2> QED BY <1>1, <1>2, <2>1 DEF Position, Outside
<1>3. CASE todo = servers
  <2>1. script' = Tail(script) /\ todo' = IF Len(script) > 1 THEN script[2].on ELSE {}
    BY <1>3 DEF Answered
  <2>2. CASE script = From(Whole, n)
    <3>1. /\ script' = From(Whole, n + 1) /\ Len(script) = 20 - n + 1
          /\ n < 20 => script[2] = Whole[n + 1]
      <4>1. n \in 1 .. Len(Whole)
        BY <1>1, Lists
      <4>2. /\ Tail(From(Whole, n)) = From(Whole, n + 1)
            /\ Len(From(Whole, n)) = Len(Whole) - n + 1
            /\ n < Len(Whole) => From(Whole, n)[2] = Whole[n + 1]
        BY <4>1, Lists, FromStep
      <4> QED BY <2>1, <2>2, <4>2, Lists
    <3>2. CASE n < 20
      <4>1. todo' = Whole[n + 1].on
        BY <1>1, <2>1, <3>1, <3>2
      <4>2. Position(n + 1)'
        BY <1>1, <3>1, <3>2, <4>1 DEF Position, Outside
      <4> QED BY <1>3, <3>2, <4>1, <4>2
    <3>3. CASE n = 20
      <4>1. script' = <<>> /\ todo' = {}
        <5>1. From(Whole, 21) = <<>>
          <6>1. From(Whole, Len(Whole) + 1) = <<>>
            BY Lists, FromEnd
          <6> QED BY <6>1, Lists
        <5>2. Len(script) = 1
          BY <3>1, <3>3
        <5> QED BY <2>1, <3>1, <3>3, <5>1, <5>2
      <4> QED BY <1>3, <3>3, <4>1 DEF Position
    <3> QED BY <1>1, <3>2, <3>3
  <2>3. CASE n <= 5 /\ script = From(Synchronisation, n)
    <3>1. /\ script' = From(Synchronisation, n + 1) /\ Len(script) = 5 - n + 1
          /\ n < 5 => script[2] = Synchronisation[n + 1]
      <4>1. n \in 1 .. Len(Synchronisation)
        BY <1>1, <2>3, Lists
      <4>2. /\ Tail(From(Synchronisation, n)) = From(Synchronisation, n + 1)
            /\ Len(From(Synchronisation, n)) = Len(Synchronisation) - n + 1
            /\ n < Len(Synchronisation) =>
                 From(Synchronisation, n)[2] = Synchronisation[n + 1]
        BY <4>1, Lists, FromStep
      <4> QED BY <2>1, <2>3, <4>2, Lists
    <3>2. CASE n < 5
      <4>1. todo' = Whole[n + 1].on
        <5>1. n + 1 \in 1 .. 5
          BY <1>1, <3>2
        <5>2. Whole[n + 1] = Synchronisation[n + 1]
          BY <5>1, Lists
        <5> QED BY <1>1, <2>1, <3>1, <3>2, <5>2
      <4>2. Position(n + 1)'
        BY <1>1, <3>1, <3>2, <4>1 DEF Position, Outside
      <4> QED BY <1>1, <1>3, <3>2, <4>1, <4>2
    <3>3. CASE n = 5
      <4>1. script' = <<>> /\ todo' = {}
        <5>1. From(Synchronisation, 6) = <<>>
          <6>1. From(Synchronisation, Len(Synchronisation) + 1) = <<>>
            BY Lists, FromEnd
          <6> QED BY <6>1, Lists
        <5>2. Len(script) = 1
          BY <3>1, <3>3
        <5> QED BY <2>1, <3>1, <3>3, <5>1, <5>2
      <4> QED BY <1>3, <3>3, <4>1 DEF Position
    <3> QED BY <1>1, <2>3, <3>2, <3>3
  <2> QED BY <1>1, <2>2, <2>3 DEF Position, Outside
<1> QED BY <1>2, <1>3

(* Which calls there are of each kind, and to whom. *)
LEMMA Numbers ==
  ASSUME NEW n \in 1 .. Outside, Position(n)
  PROVE  /\ Calling("abort") => \/ n \in {1, 8, 14} /\ todo \subseteq Standalone
                                \/ n \in {9, 15} /\ todo \subseteq Hybrid
         /\ Calling("drain") => n \in {2, 17}
         /\ Calling("transfer") =>
              \/ n = 3 /\ todo \subseteq Standalone /\ Head(script).on = Standalone
              \/ n = 6 /\ todo \subseteq Hybrid /\ Head(script).on = Hybrid
         /\ Calling("label") =>
              \/ n = 4 /\ todo \subseteq Standalone /\ Head(script).on = Standalone
              \/ n = 7 /\ todo \subseteq Hybrid /\ Head(script).on = Hybrid
         /\ Calling("resume") => \/ n \in {5, 11, 19} /\ todo \subseteq Standalone
                                 \/ n \in {12, 20} /\ todo \subseteq Hybrid
         /\ Calling("add") => n = 10 /\ todo = {}
         /\ Calling("validate") => n = 13 /\ todo = {}
         /\ Calling("remove") => n = 16 /\ todo = {}
         /\ Calling("sleep") => n = 18 /\ todo \subseteq Hybrid
<1>1. CASE script = <<>>
  BY <1>1 DEF Calling
<1>2. CASE script # <<>>
  <2>1. n \in 1 .. 20 /\ Head(script) = Whole[n] /\ todo \subseteq Whole[n].on
    BY <1>2, Number
  <2>2. \A op : Calling(op) => Whole[n].op = op
    BY <2>1 DEF Calling
  <2>3. \A op, on : Call(op, on).op = op /\ Call(op, on).on = on
    BY DEF Call
  <2>4. /\ Whole[n].op = "abort" => \/ n \in {1, 8, 14} /\ Whole[n].on = Standalone
                                    \/ n \in {9, 15} /\ Whole[n].on = Hybrid
        /\ Whole[n].op = "drain" => n \in {2, 17}
    BY <2>1, <2>3, Calls
  <2>5. /\ Whole[n].op = "transfer" => \/ n = 3 /\ Whole[n].on = Standalone
                                       \/ n = 6 /\ Whole[n].on = Hybrid
        /\ Whole[n].op = "label" => \/ n = 4 /\ Whole[n].on = Standalone
                                    \/ n = 7 /\ Whole[n].on = Hybrid
    BY <2>1, <2>3, Calls
  <2>6. Whole[n].op = "resume" => \/ n \in {5, 11, 19} /\ Whole[n].on = Standalone
                                  \/ n \in {12, 20} /\ Whole[n].on = Hybrid
    BY <2>1, <2>3, Calls
  <2>7. /\ Whole[n].op = "add" => n = 10 /\ Whole[n].on = {}
        /\ Whole[n].op = "validate" => n = 13 /\ Whole[n].on = {}
        /\ Whole[n].op = "remove" => n = 16 /\ Whole[n].on = {}
        /\ Whole[n].op = "sleep" => n = 18 /\ Whole[n].on = Hybrid
    BY <2>1, <2>3, Calls
  <2> HIDE DEF Calling
  <2> QED BY <2>1, <2>2, <2>4, <2>5, <2>6, <2>7
<1> QED BY <1>1, <1>2

(* The same with the next number named. *)
LEMMA Moved ==
  ASSUME NEW n \in 1 .. Outside, Position(n), script # <<>>, NEW servers, Answered(servers)
  PROVE  \E m \in 1 .. Outside :
           /\ Position(m)'
           /\ \/ m = n /\ todo # servers /\ todo' = todo \ servers
              \/ m = n + 1 /\ n < 20 /\ todo = servers /\ todo' = Whole[m].on
              \/ m = Outside /\ n \in {5, 20} /\ todo = servers /\ todo' = {}
<1>1. CASE todo # servers /\ todo' = todo \ servers /\ Position(n)'
  BY <1>1
<1>2. CASE todo = servers /\ n < 20 /\ todo' = Whole[n + 1].on /\ Position(n + 1)'
  <2>1. n + 1 \in 1 .. Outside
    BY <1>2 DEF Outside
  <2> QED BY <1>2, <2>1
<1>3. CASE todo = servers /\ n \in {5, 20} /\ todo' = {} /\ Position(Outside)'
  <2>1. Outside \in 1 .. Outside
    BY DEF Outside
  <2> QED BY <1>3, <2>1
<1> QED BY <1>1, <1>2, <1>3, Moves

-----------------------------------------------------------------------------
(* What a step of the trainer from call n to call m may mean for the        *)
(* conversations.                                                           *)
Near(n, m) ==
  /\ Current(m)' = Current(n) \/ (n = 4 /\ Current(m)' = Current(n) + 1)
  /\ n \in 11 .. 17 => m \in 11 .. 17 \/ (m = 18 /\ todo' = Hybrid)
  /\ n # 18

(* One server answers one call, and what is known of all servers holds at *)
(* the number this leads to; first the transfer of weights.               *)
LEMMA TransferServers ==
  ASSUME NEW n \in 1 .. Outside, ServersAt(n), ConversationTypes,
         NEW s \in Server, Transfer(s)
  PROVE  \E m \in 1 .. Outside : ServersAt(m)' /\ Near(n, m)
<1>1. /\ weights' = [weights EXCEPT ![s] = version] /\ s \in todo
      /\ UNCHANGED <<pool, paused, label, version>>
      /\ Answered({s}) /\ Position(n) /\ script # <<>>
      /\ weights \in [Server -> Int]
      /\ \/ n = 3 /\ todo \subseteq Standalone
         \/ n = 6 /\ todo \subseteq Hybrid
  BY Numbers DEF Transfer, ServersAt, ConversationTypes, lbVars, Answered, Calling
<1>2. PICK m \in 1 .. Outside :
           /\ Position(m)'
           /\ \/ m = n /\ todo # {s} /\ todo' = todo \ {s}
              \/ m = n + 1 /\ n < 20 /\ todo = {s} /\ todo' = Whole[m].on
              \/ m = Outside /\ n \in {5, 20} /\ todo = {s} /\ todo' = {}
  BY <1>1, Moved
<1>3. /\ n = 3 => m = 3 \/ (m = 4 /\ todo' = Standalone)
      /\ n = 6 => m = 6 \/ (m = 7 /\ todo' = Hybrid)
      /\ m = n => todo' = todo \ {s}
      /\ m # n => todo = {s}
  BY <1>1, <1>2, Calls DEF Call, Outside
<1>4. ASSUME NEW q \in Standalone PROVE StandaloneAt(m, q)'
  BY <1>1, <1>3, Kinds DEF ServersAt, StandaloneAt
<1>5. ASSUME NEW q \in Hybrid PROVE HybridAt(m, q)'
  BY <1>1, <1>3, Kinds DEF ServersAt, HybridAt
<1>6. PausedAt(m)' /\ PoolAt(m)' /\ (EnginePauses => HeldAt(m)')
  BY <1>1, <1>3 DEF ServersAt, PausedAt, PoolAt, HeldAt, Outside
<1>7. Near(n, m)
  BY <1>1, <1>3 DEF Near, Current
<1>8. version' \in Version /\ (m # Outside => version' > 0)
  BY <1>1, <1>3 DEF ServersAt, Outside
<1> QED BY <1>2, <1>4, <1>5, <1>6, <1>7, <1>8 DEF ServersAt

(* set_global_steps. *)
LEMMA LabelServers ==
  ASSUME NEW n \in 1 .. Outside, ServersAt(n), ConversationTypes,
         NEW s \in Server, SetGlobalSteps(s)
  PROVE  \E m \in 1 .. Outside : ServersAt(m)' /\ Near(n, m)
<1>1. /\ label' = [label EXCEPT ![s] = version] /\ s \in todo
      /\ UNCHANGED <<pool, paused, weights, version>>
      /\ Answered({s}) /\ Position(n) /\ script # <<>>
      /\ label \in [Server -> Int]
      /\ \/ n = 4 /\ todo \subseteq Standalone
         \/ n = 7 /\ todo \subseteq Hybrid
  BY Numbers DEF SetGlobalSteps, ServersAt, ConversationTypes, lbVars, Answered, Calling
<1>2. PICK m \in 1 .. Outside :
           /\ Position(m)'
           /\ \/ m = n /\ todo # {s} /\ todo' = todo \ {s}
              \/ m = n + 1 /\ n < 20 /\ todo = {s} /\ todo' = Whole[m].on
              \/ m = Outside /\ n \in {5, 20} /\ todo = {s} /\ todo' = {}
  BY <1>1, Moved
<1>3. /\ n = 4 => m = 4 \/ (m = 5 /\ todo' = Standalone)
      /\ n = 7 => m = 7 \/ (m = 8 /\ todo' = Standalone)
      /\ m = n => todo' = todo \ {s}
      /\ m # n => todo = {s}
  BY <1>1, <1>2, Calls DEF Call, Outside
<1>4. ASSUME NEW q \in Standalone PROVE StandaloneAt(m, q)'
  BY <1>1, <1>3, Kinds DEF ServersAt, StandaloneAt
<1>5. ASSUME NEW q \in Hybrid PROVE HybridAt(m, q)'
  BY <1>1, <1>3, Kinds DEF ServersAt, HybridAt
<1>6. PausedAt(m)' /\ PoolAt(m)' /\ (EnginePauses => HeldAt(m)')
  <2>1. paused \subseteq Hybrid \cup Standalone
    BY Kinds DEF ConversationTypes
  <2>2. PausedAt(m)'
    BY <1>1, <1>3, <2>1 DEF ServersAt, PausedAt, Outside
  <2> QED BY <1>1, <1>3, <2>2, Kinds DEF ServersAt, PoolAt, HeldAt, Outside
<1>7. version' \in Version /\ (m # Outside => version' > 0)
  BY <1>1, <1>3 DEF ServersAt, Outside
<1>8. Near(n, m)
  BY <1>1, <1>3, <1>7 DEF Near, Current, Version
<1> QED BY <1>2, <1>4, <1>5, <1>6, <1>7, <1>8 DEF ServersAt

(* abort_all_requests. *)
LEMMA AbortServers ==
  ASSUME NEW n \in 1 .. Outside, ServersAt(n), ConversationTypes,
         NEW s \in Server, AbortAllRequests(s)
  PROVE  \E m \in 1 .. Outside : ServersAt(m)' /\ Near(n, m)
<1>1. /\ paused' = (IF EnginePauses THEN paused \cup {s} ELSE paused) /\ s \in todo
      /\ UNCHANGED <<pool, weights, label, version>>
      /\ Answered({s}) /\ Position(n) /\ script # <<>>
      /\ \/ n \in {1, 8, 14} /\ todo \subseteq Standalone
         \/ n \in {9, 15} /\ todo \subseteq Hybrid
  BY Numbers DEF AbortAllRequests, ServersAt, ConversationTypes, lbVars, Answered, Calling
<1>2. PICK m \in 1 .. Outside :
           /\ Position(m)'
           /\ \/ m = n /\ todo # {s} /\ todo' = todo \ {s}
              \/ m = n + 1 /\ n < 20 /\ todo = {s} /\ todo' = Whole[m].on
              \/ m = Outside /\ n \in {5, 20} /\ todo = {s} /\ todo' = {}
  BY <1>1, Moved
<1>3. /\ n = 1 => m = 1 \/ (m = 2 /\ todo' = Standalone)
      /\ n = 8 => m = 8 \/ (m = 9 /\ todo' = Hybrid)
      /\ n = 9 => m = 9 \/ (m = 10 /\ todo' = {})
      /\ n = 14 => m = 14 \/ (m = 15 /\ todo' = Hybrid)
      /\ n = 15 => m = 15 \/ (m = 16 /\ todo' = {})
      /\ m = n => todo' = todo \ {s}
      /\ m # n => todo = {s}
  BY <1>1, <1>2, Calls DEF Call, Outside
<1>4. ASSUME NEW q \in Standalone PROVE StandaloneAt(m, q)'
  BY <1>1, <1>3, Kinds DEF ServersAt, StandaloneAt
<1>5. ASSUME NEW q \in Hybrid PROVE HybridAt(m, q)'
  BY <1>1, <1>3, Kinds DEF ServersAt, HybridAt
<1>6. PausedAt(m)'
  BY <1>1, <1>3, Kinds DEF ServersAt, PausedAt, Outside
<1>7. PoolAt(m)' /\ (EnginePauses => HeldAt(m)')
  BY <1>1, <1>3, Kinds DEF ServersAt, PoolAt, HeldAt, Outside
<1>8. version' \in Version /\ (m # Outside => version' > 0)
  BY <1>1, <1>3 DEF ServersAt, Outside
<1>9. Near(n, m)
  BY <1>1, <1>3, <1>8 DEF Near, Current, Version
<1> QED BY <1>2, <1>4, <1>5, <1>6, <1>7, <1>8, <1>9 DEF ServersAt

(* The wait for the engine to be idle. *)
LEMMA DrainServers ==
  ASSUME NEW n \in 1 .. Outside, ServersAt(n), NEW s \in Server, Drain(s)
  PROVE  \E m \in 1 .. Outside : ServersAt(m)' /\ Near(n, m)
<1>1. /\ UNCHANGED <<pool, paused, weights, label, version>>
      /\ Answered({s}) /\ Position(n) /\ script # <<>> /\ n \in {2, 17}
  BY Numbers DEF Drain, ServersAt, lbVars, engines, Answered, Calling
<1>2. PICK m \in 1 .. Outside :
           /\ Position(m)'
           /\ \/ m = n /\ todo # {s} /\ todo' = todo \ {s}
              \/ m = n + 1 /\ n < 20 /\ todo = {s} /\ todo' = Whole[m].on
              \/ m = Outside /\ n \in {5, 20} /\ todo = {s} /\ todo' = {}
  BY <1>1, Moved
<1>3. /\ n = 2 => m = 2 \/ (m = 3 /\ todo' = Standalone)
      /\ n = 17 => m = 17 \/ (m = 18 /\ todo' = Hybrid)
  BY <1>1, <1>2, Calls DEF Call, Outside
<1>4. ASSUME NEW q \in Standalone PROVE StandaloneAt(m, q)'
  BY <1>1, <1>3, Kinds DEF ServersAt, StandaloneAt
<1>5. ASSUME NEW q \in Hybrid PROVE HybridAt(m, q)'
  BY <1>1, <1>3, Kinds DEF ServersAt, HybridAt
<1>6. PausedAt(m)' /\ PoolAt(m)' /\ (EnginePauses => HeldAt(m)')
  BY <1>1, <1>3 DEF ServersAt, PausedAt, PoolAt, HeldAt, Outside
<1>7. version' \in Version /\ (m # Outside => version' > 0)
  BY <1>1, <1>3 DEF ServersAt, Outside
<1>8. Near(n, m)
  BY <1>1, <1>3, <1>7 DEF Near, Current, Version
<1> QED BY <1>2, <1>4, <1>5, <1>6, <1>7, <1>8 DEF ServersAt

(* resume_generation. *)
LEMMA ResumeServers ==
  ASSUME NEW n \in 1 .. Outside, ServersAt(n), ConversationTypes,
         NEW s \in Server, ResumeGeneration(s)
  PROVE  \E m \in 1 .. Outside : ServersAt(m)' /\ Near(n, m)
<1>1. /\ paused' = paused \ {s} /\ s \in todo
      /\ UNCHANGED <<pool, weights, label, version>>
      /\ Answered({s}) /\ Position(n) /\ script # <<>>
      /\ \/ n \in {5, 11, 19} /\ todo \subseteq Standalone
         \/ n \in {12, 20} /\ todo \subseteq Hybrid
  BY Numbers DEF ResumeGeneration, ServersAt, ConversationTypes, lbVars, Answered, Calling
<1>2. PICK m \in 1 .. Outside :
           /\ Position(m)'
           /\ \/ m = n /\ todo # {s} /\ todo' = todo \ {s}
              \/ m = n + 1 /\ n < 20 /\ todo = {s} /\ todo' = Whole[m].on
              \/ m = Outside /\ n \in {5, 20} /\ todo = {s} /\ todo' = {}
  BY <1>1, Moved
<1>3. /\ n = 5 => m = 5 \/ (m = 6 /\ todo' = Hybrid) \/ m = Outside
      /\ n = 11 => m = 11 \/ (m = 12 /\ todo' = Hybrid)
      /\ n = 12 => m = 12 \/ (m = 13 /\ todo' = {})
      /\ n = 19 => m = 19 \/ (m = 20 /\ todo' = Hybrid)
      /\ n = 20 => m = 20 \/ m = Outside
      /\ m = n => todo' = todo \ {s}
      /\ m # n => todo = {s}
  BY <1>1, <1>2, Calls DEF Call, Outside
<1>4. ASSUME NEW q \in Standalone PROVE StandaloneAt(m, q)'
  BY <1>1, <1>3, Kinds DEF ServersAt, StandaloneAt, Outside
<1>5. ASSUME NEW q \in Hybrid PROVE HybridAt(m, q)'
  <2>1. UNCHANGED <<weights, label, version>>
    BY <1>1
  <2>2. HybridAt(n, q)
    BY DEF ServersAt
  <2>3. CASE n = 5
    BY <1>1, <1>3, <2>1, <2>2, <2>3, Kinds DEF HybridAt, Outside
  <2>4. CASE n \in {11, 12}
    BY <1>1, <1>3, <2>1, <2>2, <2>4 DEF HybridAt, Outside
  <2>5. CASE n \in {19, 20}
    BY <1>1, <1>3, <2>1, <2>2, <2>5 DEF HybridAt, Outside
  <2> QED BY <1>1, <2>3, <2>4, <2>5
<1>6. PausedAt(m)'
  <2>1. paused \subseteq Hybrid \cup Standalone
    BY Kinds DEF ConversationTypes
  <2> QED BY <1>1, <1>3, <2>1, Kinds DEF ServersAt, PausedAt, Outside
<1>7. PoolAt(m)' /\ (EnginePauses => HeldAt(m)')
  BY <1>1, <1>3, Kinds DEF ServersAt, PoolAt, HeldAt, Outside
<1>8. version' \in Version /\ (m # Outside => version' > 0)
  BY <1>1, <1>3 DEF ServersAt, Outside
<1>9. Near(n, m)
  BY <1>1, <1>3, <1>8 DEF Near, Current, Version, Outside
<1> QED BY <1>2, <1>4, <1>5, <1>6, <1>7, <1>8, <1>9 DEF ServersAt

(* sleep, the one call that conversations on the server notice. *)
LEMMA SleepServers ==
  ASSUME NEW n \in 1 .. Outside, ServersAt(n), ConversationTypes,
         NEW s \in Server, Sleep(s)
  PROVE  \E m \in 1 .. Outside :
           /\ ServersAt(m)' /\ Current(m)' = Current(n)
           /\ n = 18 /\ m \in {18, 19} /\ s \in Hybrid
           /\ m = 18 => todo' = todo \ {s}
           /\ m = 19 => todo = {s}
<1>1. /\ weights' = [weights EXCEPT ![s] = Released] /\ s \in todo
      /\ UNCHANGED <<pool, paused, label, version>>
      /\ Answered({s}) /\ Position(n) /\ script # <<>>
      /\ weights \in [Server -> Int]
      /\ n \in {18} /\ todo \subseteq Hybrid
  BY Numbers DEF Sleep, ServersAt, ConversationTypes, lbVars, Answered, Calling
<1>2. PICK m \in 1 .. Outside :
           /\ Position(m)'
           /\ \/ m = n /\ todo # {s} /\ todo' = todo \ {s}
              \/ m = n + 1 /\ n < 20 /\ todo = {s} /\ todo' = Whole[m].on
              \/ m = Outside /\ n \in {5, 20} /\ todo = {s} /\ todo' = {}
  BY <1>1, Moved
<1>3. /\ m = 18 \/ (m = 19 /\ todo' = Standalone)
      /\ m = n => todo' = todo \ {s}
      /\ m # n => todo = {s}
  BY <1>1, <1>2, Calls DEF Call, Outside
<1>4. ASSUME NEW q \in Standalone PROVE StandaloneAt(m, q)'
  BY <1>1, <1>3, Kinds DEF ServersAt, StandaloneAt
<1>5. ASSUME NEW q \in Hybrid PROVE HybridAt(m, q)'
  BY <1>1, <1>3, Kinds DEF ServersAt, HybridAt
<1>6. PausedAt(m)' /\ PoolAt(m)' /\ (EnginePauses => HeldAt(m)')
  BY <1>1, <1>3, Kinds DEF ServersAt, PausedAt, PoolAt, HeldAt, Outside
<1>7. version' \in Version /\ (m # Outside => version' > 0)
  BY <1>1, <1>3 DEF ServersAt, Outside
<1>8. Current(m)' = Current(n)
  BY <1>1, <1>3, <1>7 DEF Current
<1> QED BY <1>1, <1>2, <1>3, <1>4, <1>5, <1>6, <1>7, <1>8 DEF ServersAt

(* The trainer adds the hybrid servers, validates or removes them. *)
LEMMA ValidationServers ==
  ASSUME NEW n \in 1 .. Outside, ServersAt(n), Validation
  PROVE  \E m \in 1 .. Outside : ServersAt(m)' /\ Near(n, m)
<1>1. /\ UNCHANGED <<paused, weights, label, version>>
      /\ Answered({}) /\ Position(n) /\ script # <<>> /\ todo = {}
      /\ \/ n = 10 /\ pool' = pool \cup Hybrid
         \/ n = 13 /\ pool' = pool
         \/ n = 16 /\ pool' = pool \ Hybrid
  BY Numbers DEF Validation, AddReplicas, RemoveReplicas, DoValidate, AddServers,
     RemoveServers, ServersAt, lbVars, engines, Answered, Calling
<1>2. PICK m \in 1 .. Outside :
           /\ Position(m)'
           /\ \/ m = n /\ todo # {} /\ todo' = todo \ {}
              \/ m = n + 1 /\ n < 20 /\ todo = {} /\ todo' = Whole[m].on
              \/ m = Outside /\ n \in {5, 20} /\ todo = {} /\ todo' = {}
  BY <1>1, Moved
<1>3. /\ n = 10 => m = 11 /\ todo' = Standalone
      /\ n = 13 => m = 14 /\ todo' = Standalone
      /\ n = 16 => m = 17 /\ todo' = Hybrid
  BY <1>1, <1>2, Calls DEF Call, Outside
<1>4. ASSUME NEW q \in Standalone PROVE StandaloneAt(m, q)'
  BY <1>1, <1>3, Kinds DEF ServersAt, StandaloneAt
<1>5. ASSUME NEW q \in Hybrid PROVE HybridAt(m, q)'
  BY <1>1, <1>3, Kinds DEF ServersAt, HybridAt
<1>6. PausedAt(m)' /\ PoolAt(m)' /\ (EnginePauses => HeldAt(m)')
  BY <1>1, <1>3, Kinds DEF ServersAt, PausedAt, PoolAt, HeldAt, Outside
<1>7. version' \in Version /\ (m # Outside => version' > 0)
  BY <1>1, <1>3 DEF ServersAt, Outside
<1>8. Near(n, m)
  BY <1>1, <1>3, <1>7 DEF Near, Current, Version
<1> QED BY <1>2, <1>4, <1>5, <1>6, <1>7, <1>8 DEF ServersAt

(* A training step ends between two lists of calls. *)
LEMMA StartServers ==
  ASSUME NEW n \in 1 .. Outside, ServersAt(n), StartSync
  PROVE  n = Outside /\ ServersAt(1)' /\ Near(n, 1)
<1>1. /\ script = <<>> /\ version < MaxVersion /\ version' = version + 1
      /\ script' = Synchronisation \o IF version' \in ValidateAt
                                      THEN TrainerSideValidate ELSE <<>>
      /\ todo' = Head(script').on
      /\ UNCHANGED <<pool, paused, weights, label>>
  BY DEF StartSync, lbVars, engines
<1>2. n = Outside
  <2>1. SUFFICES ASSUME n # Outside PROVE FALSE
    OBVIOUS
  <2>2. /\ n \in 1 .. 20
        /\ \/ script = From(Whole, n)
           \/ n <= 5 /\ script = From(Synchronisation, n)
    BY <2>1 DEF ServersAt, Position, Outside
  <2>3. n \in 1 .. Len(Whole) /\ (n <= 5 => n \in 1 .. Len(Synchronisation))
    BY <2>2, Lists
  <2> QED BY <1>1, <2>2, <2>3, Lists, FromStep
<1>3. script' = Whole \/ script' = Synchronisation
  <2>1. Synchronisation \o <<>> = Synchronisation
    BY Lists, ConcatEmptySeq
  <2> QED BY <1>1, <2>1 DEF Whole
<1>4. todo' = Standalone
  <2>1. Head(Whole) = Whole[1] /\ Head(Synchronisation) = Synchronisation[1]
    BY Lists
  <2>2. Synchronisation[1] = Whole[1] /\ Whole[1].on = Standalone
    BY Lists, Calls DEF Call
  <2> QED BY <1>1, <1>3, <2>1, <2>2
<1>5. Position(1)'
  <2>1. From(Whole, 1) = Whole /\ From(Synchronisation, 1) = Synchronisation
    BY Lists, FromEnd
  <2>2. Whole[1].on = Standalone
    BY Calls DEF Call
  <2> QED BY <1>3, <1>4, <2>1, <2>2 DEF Position, Outside
<1>6. version \in Version /\ version' \in Version /\ version' > 0
  BY <1>1, ServingAssumption DEF ServersAt, Version
<1>7. ASSUME NEW q \in Standalone PROVE StandaloneAt(1, q)'
  BY <1>1, <1>2, <1>4, <1>6, <1>7 DEF ServersAt, StandaloneAt, Outside, Version
<1>8. ASSUME NEW q \in Hybrid PROVE HybridAt(1, q)'
  BY <1>1, <1>2, <1>4, <1>8 DEF ServersAt, HybridAt, Outside
<1>9. PausedAt(1)' /\ PoolAt(1)' /\ HeldAt(1)'
  <2>1. paused' = {} /\ pool' = Standalone
    BY <1>1, <1>2 DEF ServersAt, PausedAt, PoolAt, Outside
  <2> QED BY <1>4, <2>1 DEF PausedAt, PoolAt, HeldAt, Outside
<1>10. Near(n, 1)
  BY <1>1, <1>2, <1>6 DEF Near, Current, Version, Outside
<1> QED BY <1>2, <1>5, <1>6, <1>7, <1>8, <1>9, <1>10 DEF ServersAt

-----------------------------------------------------------------------------
(* What the steps of a conversation do to its record. *)
LEMMA TokenType ==
  ASSUME NEW t \in TurnType, NEW s \in Server, weights[s] \in Int
  PROVE  LET u == WithToken(t, s)
         IN  /\ u \in TurnType
             /\ u.now = t.now \cup {weights[s]} /\ u.used = t.used
             /\ u.pc = t.pc /\ u.no = t.no /\ u.lo = t.lo /\ u.stray = t.stray
             /\ u.first = t.first /\ u.last = t.last /\ u.stop = t.stop
<1> DEFINE fresh == t.fresh + 1
           now == t.now \cup {weights[s]}
<1>1. fresh \in Nat /\ now \in SUBSET Int
  BY DEF TurnType
<1>2. WithToken(t, s) = [t EXCEPT !.fresh = fresh, !.now = now]
  BY DEF WithToken, TurnType
<1> HIDE DEF fresh, now
<1>3. [t EXCEPT !.fresh = fresh, !.now = now] \in TurnType
  BY <1>1 DEF TurnType
<1>4. LET u == [t EXCEPT !.fresh = fresh, !.now = now]
      IN  /\ u.now = now /\ u.used = t.used
          /\ u.pc = t.pc /\ u.no = t.no /\ u.lo = t.lo /\ u.stray = t.stray
          /\ u.first = t.first /\ u.last = t.last /\ u.stop = t.stop
  BY DEF TurnType
<1> QED BY <1>2, <1>3, <1>4 DEF now

(* What remains of record t when the engine's answer is merged in. *)
MergedIs(u, t, stop, l, lost) ==
  LET v == IF lost THEN NoVersion ELSE l
      lo == IF t.lo = NoVersion THEN v ELSE t.lo
  IN  /\ u \in TurnType /\ u.stray = t.stray /\ u.no = t.no /\ u.now = {}
      /\ u.used = IF lost THEN t.used ELSE t.used \cup t.now
      /\ EndsTurn(stop) =>
           /\ u.pc = "idle" /\ u.lo = NoVersion /\ u.stop = stop
           /\ u.first = IF t.no = 1 THEN lo ELSE t.first
           /\ u.last = IF t.no = 1 \/ v > 0 THEN v ELSE t.last
      /\ ~ EndsTurn(stop) =>
           /\ u.pc = "resting" /\ u.lo = lo /\ u.stop = t.stop
           /\ u.first = t.first /\ u.last = t.last

(* Merged, field by field. *)
LEMMA MergedFields ==
  ASSUME NEW t \in TurnType, NEW stop \in {"completed", "aborted"}, NEW l \in Int,
         NEW lost \in BOOLEAN
  PROVE  MergedIs(Merged(t, stop, l, lost), t, stop, l, lost)
<1> DEFINE v == IF lost THEN NoVersion ELSE l
           lo == IF t.lo = NoVersion THEN v ELSE t.lo
           answer == [t EXCEPT !.fresh = 0, !.now = {},
                               !.used = IF lost THEN t.used ELSE t.used \cup t.now]
           got == IF lost THEN t.got ELSE t.got + t.fresh
           first == IF t.no = 1 THEN lo ELSE t.first
           last == IF t.no = 1 \/ v > 0 THEN v ELSE t.last
<1>1. v \in Int /\ lo \in Int /\ got \in Nat /\ first \in Int /\ last \in Int
  BY DEF TurnType, NoVersion
<1>2. /\ answer \in TurnType /\ answer.now = {}
      /\ answer.used = (IF lost THEN t.used ELSE t.used \cup t.now)
      /\ answer.stray = t.stray /\ answer.no = t.no
      /\ answer.first = t.first /\ answer.last = t.last /\ answer.got = t.got
      /\ answer.stop = t.stop
  BY DEF TurnType
<1>3. Merged(t, stop, l, lost) =
        IF EndsTurn(stop)
        THEN [answer EXCEPT !.pc = "idle", !.stop = stop, !.got = 0, !.lo = NoVersion,
                            !.first = first, !.last = last]
        ELSE [answer EXCEPT !.pc = "resting", !.lo = lo, !.got = got]
  BY <1>2 DEF Merged
<1> HIDE DEF v, lo, answer, got, first, last
<1>4. CASE EndsTurn(stop)
  <2>1. Merged(t, stop, l, lost) =
          [answer EXCEPT !.pc = "idle", !.stop = stop, !.got = 0, !.lo = NoVersion,
                         !.first = first, !.last = last]
    BY <1>3, <1>4
  <2>2. LET u == Merged(t, stop, l, lost)
        IN  /\ u \in TurnType /\ u.stray = t.stray /\ u.no = t.no /\ u.now = {}
            /\ u.used = answer.used /\ u.pc = "idle" /\ u.lo = NoVersion /\ u.stop = stop
            /\ u.first = first /\ u.last = last
    <3> DEFINE half == [answer EXCEPT !.pc = "idle", !.stop = stop, !.got = 0]
    <3>1. NoVersion \in Int
      BY DEF NoVersion
    <3>2. /\ half \in TurnType /\ half.pc = "idle"
          /\ half.now = answer.now /\ half.used = answer.used
          /\ half.stray = answer.stray /\ half.no = answer.no /\ half.stop = stop
      BY <1>2 DEF TurnType
    <3>3. Merged(t, stop, l, lost) =
            [half EXCEPT !.lo = NoVersion, !.first = first, !.last = last]
      BY <2>1, Zenon
    <3> HIDE DEF half
    <3>4. Merged(t, stop, l, lost) \in TurnType
      BY <1>1, <3>1, <3>2, <3>3 DEF TurnType
    <3> QED BY <1>2, <3>2, <3>3, <3>4 DEF TurnType
  <2> QED BY <1>2, <1>4, <2>2 DEF MergedIs, v, lo, first, last
<1>5. CASE ~ EndsTurn(stop)
  <2>1. Merged(t, stop, l, lost) =
          [answer EXCEPT !.pc = "resting", !.lo = lo, !.got = got]
    BY <1>3, <1>5
  <2>2. LET u == Merged(t, stop, l, lost)
        IN  /\ u \in TurnType /\ u.stray = t.stray /\ u.no = t.no /\ u.now = {}
            /\ u.used = answer.used /\ u.pc = "resting" /\ u.lo = lo /\ u.stop = t.stop
            /\ u.first = t.first /\ u.last = t.last
    BY <1>1, <1>2, <2>1 DEF TurnType
  <2> QED BY <1>2, <1>5, <2>2 DEF MergedIs, v, lo
<1> QED BY <1>4, <1>5

(* An answer whose label is the version that made its tokens keeps order. *)
LEMMA MergedOrder ==
  ASSUME NEW t \in TurnType, NEW cur \in Nat, Order(t, cur), t.pc = "running", PartialRollout,
         NEW stop \in {"completed", "aborted"}, NEW lost \in BOOLEAN,
         stop = "completed" => ~ lost
  PROVE  Order(Merged(t, stop, cur, lost), cur)
<1> DEFINE u == Merged(t, stop, cur, lost)
           v == IF lost THEN NoVersion ELSE cur
           lo == IF t.lo = NoVersion THEN v ELSE t.lo
<1>1. EndsTurn(stop) <=> stop = "completed"
  BY DEF EndsTurn
<1>2. /\ u \in TurnType /\ u.stray = t.stray /\ u.no = t.no /\ u.now = {}
      /\ u.used = IF lost THEN t.used ELSE t.used \cup t.now
      /\ EndsTurn(stop) =>
           /\ u.pc = "idle" /\ u.lo = NoVersion
           /\ u.first = IF t.no = 1 THEN lo ELSE t.first
           /\ u.last = IF t.no = 1 \/ v > 0 THEN v ELSE t.last
      /\ ~ EndsTurn(stop) =>
           /\ u.pc = "resting" /\ u.lo = lo
           /\ u.first = t.first /\ u.last = t.last
  <2>1. cur \in Int
    OBVIOUS
  <2>2. MergedIs(u, t, stop, cur, lost)
    BY <2>1, MergedFields
  <2> QED BY <2>2 DEF MergedIs
<1> SUFFICES Order(u, cur)
  OBVIOUS
<1> HIDE DEF u
<1>3. /\ t.no \in Nat /\ t.no # 0 /\ t.lo \in Int
      /\ t.used \subseteq 0 .. cur /\ t.now \subseteq {cur}
      /\ t.lo = NoVersion \/ t.lo \in 0 .. cur
      /\ t.no = 1 => \A x \in t.used : t.lo \in 0 .. x
      /\ t.no > 1 => /\ t.first \in 0 .. cur /\ t.last \in 0 .. cur
                     /\ \A x \in t.used : t.first <= x
  BY DEF Order, TurnType
<1>4. u.used \subseteq 0 .. cur /\ \A x \in u.used : x \in t.used \/ (x = cur /\ ~ lost)
  BY <1>2, <1>3
<1>5. CASE stop = "completed"
  <2>1. lo \in 0 .. cur /\ v = cur /\ (t.no = 1 => \A x \in u.used : lo <= x)
    BY <1>3, <1>4, <1>5 DEF NoVersion
  <2>2. /\ u.pc = "idle" /\ u.lo = NoVersion
        /\ t.no = 1 => u.first = lo /\ u.last = cur
        /\ t.no > 1 => u.first = t.first
        /\ t.no > 1 => u.last = IF cur > 0 THEN cur ELSE t.last
    BY <1>1, <1>2, <1>3, <1>5, <2>1
  <2>3. u.first \in 0 .. cur /\ u.last \in 0 .. cur
    BY <1>3, <2>1, <2>2
  <2>4. \A x \in u.used : u.first <= x /\ x <= u.last
    BY <1>3, <1>4, <2>1, <2>2
  <2>5. u.no = t.no /\ u.now = {} /\ u.used \subseteq 0 .. cur
    BY <1>2, <1>4
  <2> QED BY <1>3, <2>2, <2>3, <2>4, <2>5 DEF Order
<1>6. CASE stop = "aborted"
  <2>1. u.pc = "resting" /\ u.lo = lo /\ u.first = t.first /\ u.last = t.last
    BY <1>1, <1>2, <1>6
  <2>2. lo = NoVersion \/ lo \in 0 .. cur
    BY <1>3
  <2>3. t.no = 1 => \A x \in u.used : lo \in 0 .. x
    BY <1>3, <1>4 DEF NoVersion
  <2>4. t.no > 1 => \A x \in u.used : t.first <= x
    BY <1>3, <1>4
  <2>5. u.no = t.no /\ u.now = {} /\ u.used \subseteq 0 .. cur
    BY <1>2, <1>4
  <2> QED BY <1>3, <2>1, <2>2, <2>3, <2>4, <2>5 DEF Order
<1> QED BY <1>5, <1>6

(* A request runs on a server that computes and answers with the current    *)
(* version, unless the server slept meanwhile.                              *)
LEMMA RunsCurrent ==
  ASSUME NEW n \in 1 .. Outside, ServersAt(n), PausedIdle, ConversationTypes, EnginePauses,
         NEW r \in Request, OnAwake(r, n), turn[r].pc = "running"
  PROVE  /\ ticket[r] \in Server /\ ticket[r] \notin paused
         /\ weights[ticket[r]] = Current(n) /\ label[ticket[r]] = Current(n)
         /\ n # 4
<1>1. ticket[r] \in Server /\ ticket[r] \notin paused
  BY DEF ConversationTypes, PausedIdle, Running
<1>2. CASE ticket[r] \in Standalone
  <2>1. StandaloneAt(n, ticket[r])
    BY <1>2 DEF ServersAt
  <2>2. n \in 1 .. 4 => n = 1
    BY <1>1, <1>2 DEF ServersAt, HeldAt
  <2> QED BY <1>1, <2>1, <2>2 DEF StandaloneAt, Current
<1>3. CASE ticket[r] \in Hybrid
  <2>1. HybridAt(n, ticket[r])
    BY <1>3 DEF ServersAt
  <2>2. n \in 11 .. 17 \/ (n = 18 /\ ticket[r] \in todo)
    BY <1>3 DEF OnAwake
  <2> QED BY <1>1, <2>1, <2>2 DEF HybridAt, Current
<1> QED BY <1>1, <1>2, <1>3, Kinds

(* Versions are numbers. *)
LEMMA CurrentVersion ==
  ASSUME NEW n \in 1 .. Outside, ServersAt(n)
  PROVE  Current(n) \in Nat /\ version \in Nat
BY ServingAssumption DEF ServersAt, Current, Version, Outside

(* What is in order for a version is for the next, if nothing is running. *)
LEMMA OrderGrows ==
  ASSUME NEW t \in TurnType, NEW cur \in Nat, Order(t, cur), t.now = {}
  PROVE  Order(t, cur + 1)
<1>1. 0 .. cur \subseteq 0 .. cur + 1
  OBVIOUS
<1> QED BY <1>1 DEF Order

(* At the start the trainer is between two lists of calls. *)
LEMMA InitServing == Init => ServingInv
<1> SUFFICES ASSUME Init PROVE ServingInv
  OBVIOUS
<1>1. NoTurn \in TurnType
  BY DEF NoTurn, TurnType, NoVersion
<1>2. ConversationTypes
  BY <1>1, Kinds DEF Init, LBInit, ConversationTypes, NoTurn, Released, NoVersion
<1>3. PausedIdle
  BY DEF Init, PausedIdle
<1>4. ServersAt(Outside)
  <2>1. \A s \in Standalone : s \in Server /\ s \notin Hybrid
    BY Kinds
  <2>2. \A s \in Hybrid : s \in Server /\ s \notin Standalone
    BY Kinds
  <2>3. /\ Position(Outside) /\ version \in Version
        /\ PausedAt(Outside) /\ HeldAt(Outside) /\ PoolAt(Outside)
    BY ServingAssumption DEF Init, LBInit, Version, Position, PausedAt, HeldAt, PoolAt, Outside
  <2>4. \A s \in Standalone : StandaloneAt(Outside, s)
    BY <2>1 DEF Init, StandaloneAt, Outside
  <2>5. \A s \in Hybrid : HybridAt(Outside, s)
    BY <2>2 DEF Init, HybridAt, Outside
  <2> QED BY <2>3, <2>4, <2>5 DEF ServersAt
<1>5. ConversationsAt(Outside)
  <2>1. Current(Outside) = 0
    BY DEF Init, Current, Outside
  <2>2. Order(NoTurn, 0)
    BY DEF Order, NoTurn, NoVersion
  <2>3. \A r \in Request : turn[r] = NoTurn /\ NoTurn.pc = "idle"
    BY DEF Init, NoTurn
  <2> QED BY <2>1, <2>2, <2>3 DEF ConversationsAt, OnAwake
<1> QED BY <1>2, <1>3, <1>4, <1>5 DEF ServingInv, Outside

(* Nothing of servers and trainer changes with a step of a conversation. *)
LEMMA SameServers ==
  ASSUME NEW n \in 1 .. Outside, ServersAt(n), UNCHANGED <<pool, engines, training>>
  PROVE  ServersAt(n)' /\ Current(n)' = Current(n)
BY DEF ServersAt, Position, StandaloneAt, HybridAt, PausedAt, HeldAt, PoolAt, Current,
   engines, training

(* A step of conversation r: its new record is u, its server k. *)
LEMMA OneTurn ==
  ASSUME ServingInv, NEW r \in Request, NEW u \in TurnType,
         NEW k \in Server \cup {NoServer},
         turn' = [turn EXCEPT ![r] = u], ticket' = [ticket EXCEPT ![r] = k],
         UNCHANGED <<pool, engines, training>>,
         u.stray = turn[r].stray,
         u.pc \in {"sent", "running"} => k \in Server,
         u.pc = "running" => k \notin paused,
         \A n \in 1 .. Outside :
           /\ ServersAt(n) /\ EnginePauses /\ PartialRollout /\ ~ u.stray
           /\ Order(turn[r], Current(n)) /\ OnAwake(r, n)
           => /\ Order(u, Current(n))
              /\ u.pc \in {"sent", "running"} /\ k \in Hybrid
                   => n \in 11 .. 17 \/ (n = 18 /\ k \in todo)
  PROVE  ServingInv'
<1>1. /\ ConversationTypes /\ PausedIdle
      /\ UNCHANGED <<paused, weights, label, todo>>
      /\ turn'[r] = u /\ ticket'[r] = k
      /\ \A q \in Request \ {r} : turn'[q] = turn[q] /\ ticket'[q] = ticket[q]
  BY DEF ServingInv, ConversationTypes, engines, training
<1>2. PICK n \in 1 .. Outside :
        ServersAt(n) /\ (EnginePauses /\ PartialRollout => ConversationsAt(n))
  BY DEF ServingInv
<1>3. ServersAt(n)' /\ Current(n)' = Current(n)
  BY <1>2, SameServers
<1>4. ConversationTypes'
  BY <1>1 DEF ConversationTypes
<1>5. PausedIdle'
  BY <1>1 DEF PausedIdle, Running
<1>6. ASSUME EnginePauses, PartialRollout PROVE ConversationsAt(n)'
  <2> SUFFICES ASSUME NEW q \in Request, ~ turn'[q].stray
               PROVE  Order(turn'[q], Current(n)') /\ OnAwake(q, n)'
    BY DEF ConversationsAt
  <2>1. CASE q = r
    <3>1. Order(turn[r], Current(n)) /\ OnAwake(r, n)
      BY <1>1, <1>2, <1>6, <2>1 DEF ConversationsAt
    <3>2. /\ Order(u, Current(n))
          /\ u.pc \in {"sent", "running"} /\ k \in Hybrid
               => n \in 11 .. 17 \/ (n = 18 /\ k \in todo)
      BY <1>1, <1>2, <1>6, <2>1, <3>1
    <3> QED BY <1>1, <1>3, <2>1, <3>2 DEF OnAwake
  <2>2. CASE q # r
    <3>1. Order(turn[q], Current(n)) /\ OnAwake(q, n)
      BY <1>1, <1>2, <1>6, <2>2 DEF ConversationsAt
    <3> QED BY <1>1, <1>3, <2>2, <3>1 DEF OnAwake
  <2> QED BY <2>1, <2>2
<1> QED BY <1>3, <1>4, <1>5, <1>6 DEF ServingInv

(* A conversation is sent to a server of the pool. *)
LEMMA CallServerKeeps ==
  ASSUME ServingInv, NEW r \in Request, CallServer(r)
  PROVE  ServingInv'
<1>1. PICK s \in Server : AcquireServer(r, s)
  BY DEF CallServer
<1> DEFINE t == turn[r]
           u == [t EXCEPT !.pc = "sent", !.no = t.no + (IF t.pc = "idle" THEN 1 ELSE 0)]
<1>2. /\ t \in TurnType /\ t.pc \in {"idle", "resting"}
      /\ turn' = [turn EXCEPT ![r] = u] /\ ticket' = [ticket EXCEPT ![r] = s]
      /\ UNCHANGED <<pool, engines, training>> /\ s \in pool
  BY <1>1 DEF CallServer, AcquireServer, Selected, ServingInv, ConversationTypes
<1>3. /\ u \in TurnType /\ u.pc = "sent" /\ u.stray = t.stray /\ u.used = t.used
      /\ u.now = t.now /\ u.lo = t.lo /\ u.first = t.first /\ u.last = t.last
      /\ u.no = IF t.pc = "idle" THEN t.no + 1 ELSE t.no
  <2> DEFINE more == IF t.pc = "idle" THEN 1 ELSE 0
  <2>1. more \in Nat /\ t.no \in Nat /\ t.no + 0 = t.no
    BY <1>2 DEF TurnType
  <2>2. t.no + more \in Nat /\ t.no + more = IF t.pc = "idle" THEN t.no + 1 ELSE t.no
    BY <2>1
  <2>3. u = [t EXCEPT !.pc = "sent", !.no = t.no + more]
    OBVIOUS
  <2> HIDE DEF more, u, t
  <2> QED BY <1>2, <2>2, <2>3 DEF TurnType
<1>4. ASSUME NEW n \in 1 .. Outside, ServersAt(n), Order(t, Current(n))
      PROVE  Order(u, Current(n)) /\ (s \in Hybrid => n \in 11 .. 17)
  <2>1. s \in Hybrid => n \in 11 .. 17
    BY <1>2, <1>4, Kinds DEF ServersAt, PoolAt
  <2>2. t.no \in Nat
    BY <1>2 DEF TurnType
  <2> HIDE DEF u, t
  <2> QED BY <1>2, <1>3, <1>4, <2>1, <2>2 DEF Order
<1> HIDE DEF u
<1> QED BY <1>2, <1>3, <1>4, OneTurn

(* The engine accepts it, computes a token, or ends the turn. *)
LEMMA EngineKeeps ==
  ASSUME ServingInv, NEW r \in Request, Engine(r)
  PROVE  ServingInv'
<1> DEFINE t == turn[r]
           s == ticket[r]
<1>1. /\ t \in TurnType /\ s \in Server /\ weights[s] \in Int /\ label[s] \in Int
      /\ t.pc \in {"sent", "running"} /\ ConversationTypes /\ PausedIdle
      /\ ticket' = [ticket EXCEPT ![r] = s] /\ UNCHANGED <<pool, engines, training>>
  <2>1. t.pc \in {"sent", "running"} /\ UNCHANGED <<lbVars, engines, training>>
    BY DEF Engine, EnterEngine, GenerateToken, FinishTurn
  <2>2. ConversationTypes /\ PausedIdle
    BY DEF ServingInv
  <2>3. UNCHANGED <<ticket, pool>>
    BY <2>1 DEF lbVars
  <2>4. t \in TurnType /\ s \in Server
    BY <2>1, <2>2 DEF ConversationTypes
  <2>5. weights[s] \in Int /\ label[s] \in Int /\ ticket' = [ticket EXCEPT ![r] = s]
    BY <2>2, <2>3, <2>4 DEF ConversationTypes
  <2> QED BY <2>1, <2>2, <2>3, <2>4, <2>5
<1>2. ASSUME NEW n \in 1 .. Outside, OnAwake(r, n), s \in Hybrid
      PROVE  n \in 11 .. 17 \/ (n = 18 /\ s \in todo)
  <2>1. turn[r].pc \in {"sent", "running"} /\ ticket[r] \in Hybrid
    BY <1>1, <1>2
  <2> HIDE DEF t, s
  <2>2. n \in 11 .. 17 \/ (n = 18 /\ ticket[r] \in todo)
    BY <1>2, <2>1 DEF OnAwake
  <2> QED BY <2>2 DEF s
<1>3. CASE EnterEngine(r)
  <2> DEFINE u == [t EXCEPT !.pc = "running"]
  <2>1. turn' = [turn EXCEPT ![r] = u] /\ s \notin paused /\ t.pc = "sent"
    BY <1>3 DEF EnterEngine, ServingInv, ConversationTypes
  <2>2. /\ u \in TurnType /\ u.pc = "running" /\ u.stray = t.stray
        /\ u.used = t.used /\ u.now = t.now /\ u.lo = t.lo
        /\ u.first = t.first /\ u.last = t.last /\ u.no = t.no
    BY <1>1 DEF TurnType
  <2>3. ASSUME NEW n \in 1 .. Outside, Order(t, Current(n))
        PROVE  Order(u, Current(n))
    <3> HIDE DEF u, t
    <3> QED BY <2>1, <2>2, <2>3 DEF Order
  <2> HIDE DEF u
  <2> QED BY <1>1, <1>2, <2>1, <2>2, <2>3, OneTurn
<1>4. ASSUME t.pc = "running", NEW n \in 1 .. Outside, ServersAt(n), EnginePauses,
             Order(t, Current(n)), OnAwake(r, n)
      PROVE  /\ Order(WithToken(t, s), Current(n)) /\ Current(n) \in Nat
             /\ label[s] = Current(n)
  <2>1. weights[s] = Current(n) /\ label[s] = Current(n) /\ Current(n) \in Nat
    BY <1>1, <1>4, RunsCurrent, CurrentVersion
  <2> DEFINE u == WithToken(t, s)
  <2>2. /\ u.now = t.now \cup {Current(n)} /\ u.used = t.used
        /\ u.pc = t.pc /\ u.no = t.no /\ u.lo = t.lo
        /\ u.first = t.first /\ u.last = t.last
    BY <1>1, <2>1, TokenType
  <2> HIDE DEF u, t
  <2>3. Order(u, Current(n))
    BY <1>4, <2>1, <2>2 DEF Order
  <2> QED BY <2>1, <2>3 DEF u
<1>5. CASE GenerateToken(r)
  <2> DEFINE u == WithToken(t, s)
  <2>1. turn' = [turn EXCEPT ![r] = u] /\ t.pc = "running"
    BY <1>5 DEF GenerateToken, ServingInv, ConversationTypes
  <2>2. u \in TurnType /\ u.pc = "running" /\ u.stray = t.stray
    BY <1>1, <2>1, TokenType
  <2>3. s \notin paused
    BY <1>1, <2>1 DEF PausedIdle, Running
  <2> HIDE DEF u
  <2>4. ASSUME NEW n \in 1 .. Outside, ServersAt(n), EnginePauses,
               Order(t, Current(n)), OnAwake(r, n)
        PROVE  Order(u, Current(n))
    BY <1>4, <2>1, <2>4 DEF u
  <2> QED BY <1>1, <1>2, <2>1, <2>2, <2>3, <2>4, OneTurn
<1>6. CASE FinishTurn(r)
  <2> DEFINE w == WithToken(t, s)
             u == Merged(w, "completed", label[s], FALSE)
  <2>1. turn' = [turn EXCEPT ![r] = u] /\ t.pc = "running"
    BY <1>6 DEF FinishTurn, ServingInv, ConversationTypes
  <2>2. w \in TurnType /\ w.pc = "running" /\ w.stray = t.stray
    BY <1>1, <2>1, TokenType
  <2>3. /\ MergedIs(u, w, "completed", label[s], FALSE)
        /\ EndsTurn("completed")
    <3>1. MergedIs(Merged(w, "completed", label[s], FALSE), w, "completed", label[s], FALSE)
      BY <1>1, <2>2, MergedFields
    <3> QED BY <3>1 DEF EndsTurn
  <2>4. u \in TurnType /\ u.pc = "idle" /\ u.stray = t.stray
    <3> HIDE DEF u, w
    <3> QED BY <2>2, <2>3 DEF MergedIs
  <2>5. ASSUME NEW n \in 1 .. Outside, ServersAt(n), EnginePauses, PartialRollout,
               Order(t, Current(n)), OnAwake(r, n)
        PROVE  Order(u, Current(n))
    <3>1. Order(w, Current(n)) /\ label[s] = Current(n) /\ Current(n) \in Nat
      BY <1>4, <2>1, <2>5
    <3>2. Order(Merged(w, "completed", Current(n), FALSE), Current(n))
      BY <2>2, <2>5, <3>1, MergedOrder
    <3> QED BY <3>1, <3>2
  <2> HIDE DEF u
  <2> QED BY <1>1, <2>1, <2>4, <2>5, OneTurn
<1> QED BY <1>3, <1>5, <1>6 DEF Engine

(* The client releases the server. *)
LEMMA ReleaseKeeps ==
  ASSUME ServingInv, NEW r \in Request, Release(r)
  PROVE  ServingInv'
<1>1. /\ turn' = [turn EXCEPT ![r] = turn[r]] /\ turn[r] \in TurnType
      /\ turn[r].pc \in {"idle", "resting"}
      /\ ticket' = [ticket EXCEPT ![r] = NoServer]
      /\ UNCHANGED <<pool, engines, training>>
  BY DEF Release, ReleaseServer, ServingInv, ConversationTypes
<1> QED BY <1>1, OneTurn

-----------------------------------------------------------------------------
(* A step of the trainer or a replica, from call n to call m: the record of *)
(* a conversation is unchanged, or its turn was interrupted.                *)
LEMMA ManyTurns ==
  ASSUME ServingInv, NEW n \in 1 .. Outside, NEW m \in 1 .. Outside,
         ServersAt(n), ServersAt(m)', Near(n, m), UNCHANGED ticket,
         EnginePauses, ConversationsAt(n),
         \A r \in Request :
           \/ turn'[r] = turn[r]
           \/ /\ n # 4 /\ turn'[r].stray = turn[r].stray
              /\ turn'[r].pc \notin {"sent", "running"}
              /\ ~ turn[r].stray => Order(turn'[r], Current(n))
  PROVE  ConversationsAt(m)'
<1> SUFFICES ASSUME NEW r \in Request, ~ turn'[r].stray
             PROVE  Order(turn'[r], Current(m)') /\ OnAwake(r, m)'
  BY DEF ConversationsAt
<1>1. ConversationTypes /\ PausedIdle
  BY DEF ServingInv
<1>2. CASE turn'[r] = turn[r]
  <2>1. /\ Order(turn[r], Current(n)) /\ OnAwake(r, n)
        /\ turn[r] \in TurnType /\ Current(n) \in Nat
    BY <1>1, <1>2, CurrentVersion DEF ConversationsAt, ConversationTypes
  <2>2. Order(turn'[r], Current(m)')
    <3>1. CASE Current(m)' = Current(n)
      BY <1>2, <2>1, <3>1
    <3>2. CASE n = 4 /\ Current(m)' = Current(n) + 1
      <4>1. turn[r].pc # "running"
        BY <1>1, <2>1, <3>2, RunsCurrent
      <4>2. turn[r].now = {}
        BY <2>1, <4>1 DEF Order
      <4> QED BY <1>2, <2>1, <3>2, <4>2, OrderGrows
    <3> QED BY <3>1, <3>2 DEF Near
  <2>3. OnAwake(r, m)'
    <3> SUFFICES ASSUME turn[r].pc \in {"sent", "running"}, ticket[r] \in Hybrid
                 PROVE  m \in 11 .. 17 \/ (m = 18 /\ ticket[r] \in todo')
      BY <1>2 DEF OnAwake
    <3>1. n \in 11 .. 17
      BY <2>1 DEF OnAwake, Near
    <3> QED BY <3>1 DEF Near
  <2> QED BY <2>2, <2>3
<1>3. CASE /\ n # 4 /\ turn'[r].stray = turn[r].stray
           /\ turn'[r].pc \notin {"sent", "running"}
           /\ ~ turn[r].stray => Order(turn'[r], Current(n))
  <2>1. Current(m)' = Current(n)
    BY <1>3 DEF Near
  <2>2. OnAwake(r, m)'
    BY <1>3 DEF OnAwake
  <2> QED BY <1>3, <2>1, <2>2
<1> QED BY <1>2, <1>3

(* The same when no record changes. *)
LEMMA StillTurns ==
  ASSUME ServingInv, UNCHANGED <<turn, ticket>>,
         ConversationTypes', PausedIdle',
         \A n \in 1 .. Outside :
           ServersAt(n) => \E m \in 1 .. Outside : ServersAt(m)' /\ Near(n, m)
  PROVE  ServingInv'
<1>1. PICK n \in 1 .. Outside :
        ServersAt(n) /\ (EnginePauses /\ PartialRollout => ConversationsAt(n))
  BY DEF ServingInv
<1>2. PICK m \in 1 .. Outside : ServersAt(m)' /\ Near(n, m)
  BY <1>1
<1>3. ASSUME EnginePauses, PartialRollout PROVE ConversationsAt(m)'
  BY <1>1, <1>2, <1>3, ManyTurns
<1> QED BY <1>2, <1>3 DEF ServingInv

(* An abort interrupts what runs on one server. *)
LEMMA AbortKeeps ==
  ASSUME ServingInv, NEW s \in Server, AbortAllRequests(s)
  PROVE  ServingInv'
<1>1. PICK lost \in SUBSET Running(s) :
        turn' = [r \in Request |->
                   IF r \in Running(s)
                   THEN Merged(turn[r], "aborted", label[s], r \in lost)
                   ELSE turn[r]]
  BY DEF AbortAllRequests
<1>2. /\ UNCHANGED <<lbVars, weights, label>> /\ paused' \subseteq paused \cup {s}
      /\ ConversationTypes /\ PausedIdle
  BY DEF AbortAllRequests, ServingInv
<1>3. UNCHANGED ticket
  BY <1>2 DEF lbVars
<1>4. ASSUME NEW r \in Running(s)
      PROVE  MergedIs(turn'[r], turn[r], "aborted", label[s], r \in lost)
  <2>1. turn[r] \in TurnType /\ label[s] \in Int /\ (r \in lost) \in BOOLEAN /\ r \in Request
    BY <1>2 DEF ConversationTypes, Running
  <2>2. turn'[r] = Merged(turn[r], "aborted", label[s], r \in lost)
    BY <1>1, <2>1
  <2> QED BY <2>1, <2>2, MergedFields
<1>5. ASSUME NEW r \in Running(s)
      PROVE  /\ turn'[r] \in TurnType /\ turn'[r].pc \notin {"sent", "running"}
             /\ turn'[r].stray = turn[r].stray
  BY <1>4 DEF MergedIs
<1>6. \A r \in Request \ Running(s) : turn'[r] = turn[r]
  BY <1>1
<1>7. ConversationTypes'
  <2>1. turn' \in [Request -> TurnType]
    <3>1. \A r \in Request : turn'[r] \in TurnType
      BY <1>2, <1>5, <1>6 DEF ConversationTypes
    <3> HIDE DEF TurnType
    <3> QED BY <1>1, <3>1
  <2>2. \A r \in Request : turn'[r].pc \in {"sent", "running"} => turn[r].pc \in {"sent", "running"}
    BY <1>5, <1>6
  <2> QED BY <1>2, <1>3, <2>1, <2>2 DEF ConversationTypes
<1>8. PausedIdle'
  <2> SUFFICES ASSUME NEW q \in paused', NEW r \in Request,
                      turn'[r].pc = "running", ticket[r] = q
               PROVE  FALSE
    BY <1>3 DEF PausedIdle, Running
  <2>1. r \notin Running(s) /\ turn[r].pc = "running"
    BY <1>5, <1>6
  <2> QED BY <1>2, <2>1 DEF PausedIdle, Running
<1>9. PICK n \in 1 .. Outside :
        ServersAt(n) /\ (EnginePauses /\ PartialRollout => ConversationsAt(n))
  BY DEF ServingInv
<1>10. PICK m \in 1 .. Outside : ServersAt(m)' /\ Near(n, m)
  BY <1>2, <1>9, AbortServers
<1>11. ASSUME EnginePauses, PartialRollout PROVE ConversationsAt(m)'
  <2>1. n # 4
    BY <1>9, Numbers DEF ServersAt, AbortAllRequests
  <2>2. ASSUME NEW r \in Running(s), ~ turn[r].stray
        PROVE  Order(turn'[r], Current(n))
    <3>1. /\ Order(turn[r], Current(n)) /\ OnAwake(r, n) /\ Current(n) \in Nat
          /\ r \in Request /\ turn[r] \in TurnType
          /\ turn[r].pc = "running" /\ ticket[r] = s
      BY <1>2, <1>9, <1>11, <2>2, CurrentVersion
         DEF ConversationsAt, ConversationTypes, Running
    <3>2. label[s] = Current(n)
      BY <1>2, <1>9, <1>11, <3>1, RunsCurrent
    <3>3. turn'[r] = Merged(turn[r], "aborted", Current(n), r \in lost)
      BY <1>1, <3>1, <3>2, <2>2
    <3>4. (r \in lost) \in BOOLEAN
      OBVIOUS
    <3>5. Order(Merged(turn[r], "aborted", Current(n), r \in lost), Current(n))
      BY <1>11, <3>1, <3>4, MergedOrder
    <3> QED BY <3>3, <3>5
  <2>3. \A r \in Request :
           \/ turn'[r] = turn[r]
           \/ /\ n # 4 /\ turn'[r].stray = turn[r].stray
              /\ turn'[r].pc \notin {"sent", "running"}
              /\ ~ turn[r].stray => Order(turn'[r], Current(n))
    BY <1>5, <1>6, <2>1, <2>2
  <2> QED BY <1>3, <1>9, <1>10, <1>11, <2>3, ManyTurns
<1> QED BY <1>7, <1>8, <1>10, <1>11 DEF ServingInv

(* A server falls asleep, and what it has not answered is stray. *)
LEMMA SleepKeeps ==
  ASSUME ServingInv, NEW s \in Server, Sleep(s)
  PROVE  ServingInv'
<1>1. /\ turn' = [r \in Request |->
                    IF turn[r].pc \in {"sent", "running"} /\ ticket[r] = s
                    THEN [turn[r] EXCEPT !.stray = TRUE] ELSE turn[r]]
      /\ weights' = [weights EXCEPT ![s] = Released]
      /\ UNCHANGED <<ticket, paused, label>>
      /\ ConversationTypes /\ PausedIdle
  BY DEF Sleep, ServingInv, lbVars
<1>2. ASSUME NEW r \in Request
      PROVE  /\ turn'[r] \in TurnType /\ turn'[r].pc = turn[r].pc
             /\ ~ turn'[r].stray =>
                  /\ turn'[r] = turn[r]
                  /\ ~ (turn[r].pc \in {"sent", "running"} /\ ticket[r] = s)
  <2>1. turn[r] \in TurnType
    BY <1>1 DEF ConversationTypes
  <2>2. /\ [turn[r] EXCEPT !.stray = TRUE] \in TurnType
        /\ [turn[r] EXCEPT !.stray = TRUE].pc = turn[r].pc
        /\ [turn[r] EXCEPT !.stray = TRUE].stray = TRUE
    BY <2>1 DEF TurnType
  <2> HIDE DEF TurnType
  <2> QED BY <1>1, <2>1, <2>2
<1>3. ConversationTypes'
  <2>1. turn' \in [Request -> TurnType]
    <3> HIDE DEF TurnType
    <3> QED BY <1>1, <1>2
  <2>2. weights' \in [Server -> Int]
    BY <1>1 DEF ConversationTypes, Released
  <2> QED BY <1>1, <1>2, <2>1, <2>2 DEF ConversationTypes
<1>4. PausedIdle'
  BY <1>1, <1>2 DEF PausedIdle, Running
<1>5. PICK n \in 1 .. Outside :
        ServersAt(n) /\ (EnginePauses /\ PartialRollout => ConversationsAt(n))
  BY DEF ServingInv
<1>6. PICK m \in 1 .. Outside :
        /\ ServersAt(m)' /\ Current(m)' = Current(n)
        /\ n = 18 /\ m \in {18, 19} /\ s \in Hybrid
        /\ m = 18 => todo' = todo \ {s}
        /\ m = 19 => todo = {s}
  BY <1>1, <1>5, SleepServers
<1>7. ASSUME EnginePauses, PartialRollout PROVE ConversationsAt(m)'
  <2> SUFFICES ASSUME NEW r \in Request, ~ turn'[r].stray
               PROVE  Order(turn'[r], Current(m)') /\ OnAwake(r, m)'
    BY DEF ConversationsAt
  <2>1. /\ turn'[r] = turn[r] /\ Order(turn[r], Current(n)) /\ OnAwake(r, n)
        /\ ~ (turn[r].pc \in {"sent", "running"} /\ ticket[r] = s)
    BY <1>2, <1>5, <1>7 DEF ConversationsAt
  <2> QED BY <1>1, <1>6, <2>1 DEF OnAwake
<1> QED BY <1>3, <1>4, <1>6, <1>7 DEF ServingInv

(* Any call to a server. *)
LEMMA ReplicaKeeps ==
  ASSUME ServingInv, NEW s \in Server, Replica(s)
  PROVE  ServingInv'
<1>1. ConversationTypes /\ PausedIdle /\ version \in Int
  BY CurrentVersion DEF ServingInv
<1>2. CASE Drain(s)
  <2>1. UNCHANGED <<turn, ticket, paused, weights, label>>
    BY <1>2 DEF Drain, engines, lbVars
  <2>2. ConversationTypes' /\ PausedIdle'
    BY <1>1, <2>1 DEF ConversationTypes, PausedIdle, Running
  <2> QED BY <1>2, <2>1, <2>2, DrainServers, StillTurns
<1>3. CASE Transfer(s)
  <2>1. /\ UNCHANGED <<turn, ticket, paused, label>>
        /\ weights' = [weights EXCEPT ![s] = version]
    BY <1>3 DEF Transfer, lbVars
  <2>2. ConversationTypes' /\ PausedIdle'
    BY <1>1, <2>1 DEF ConversationTypes, PausedIdle, Running
  <2> QED BY <1>1, <1>3, <2>1, <2>2, TransferServers, StillTurns
<1>4. CASE SetGlobalSteps(s)
  <2>1. /\ UNCHANGED <<turn, ticket, paused, weights>>
        /\ label' = [label EXCEPT ![s] = version]
    BY <1>4 DEF SetGlobalSteps, lbVars
  <2>2. ConversationTypes' /\ PausedIdle'
    BY <1>1, <2>1 DEF ConversationTypes, PausedIdle, Running
  <2> QED BY <1>1, <1>4, <2>1, <2>2, LabelServers, StillTurns
<1>5. CASE ResumeGeneration(s)
  <2>1. /\ UNCHANGED <<turn, ticket, weights, label>> /\ paused' = paused \ {s}
    BY <1>5 DEF ResumeGeneration, lbVars
  <2>2. ConversationTypes' /\ PausedIdle'
    BY <1>1, <2>1 DEF ConversationTypes, PausedIdle, Running
  <2> QED BY <1>1, <1>5, <2>1, <2>2, ResumeServers, StillTurns
<1> QED BY <1>2, <1>3, <1>4, <1>5, AbortKeeps, SleepKeeps DEF Replica

(* Any step of the trainer alone. *)
LEMMA TrainerKeeps ==
  ASSUME ServingInv, StartSync \/ Validation
  PROVE  ServingInv'
<1>1. UNCHANGED <<turn, ticket, engines>>
  BY DEF StartSync, Validation, AddReplicas, RemoveReplicas, DoValidate, AddServers,
     RemoveServers, lbVars
<1>2. ConversationTypes' /\ PausedIdle'
  BY <1>1 DEF ServingInv, ConversationTypes, PausedIdle, Running, engines
<1>3. ASSUME NEW n \in 1 .. Outside, ServersAt(n)
      PROVE  \E m \in 1 .. Outside : ServersAt(m)' /\ Near(n, m)
  <2>1. 1 \in 1 .. Outside
    BY DEF Outside
  <2> QED BY <1>3, <2>1, StartServers, ValidationServers
<1> QED BY <1>1, <1>2, <1>3, StillTurns

-----------------------------------------------------------------------------
(* The invariant of serving: where the trainer is in its calls determines   *)
(* what every server computes with, answers with, and whether it runs       *)
(* (checkpoint_engine/base.py, fully_async_trainer.py:547-583), and so what *)
(* versions a conversation can have seen.                                   *)
THEOREM ServersKept == Spec => []ServingInv
<1>1. ASSUME ServingInv, [Next]_vars
      PROVE  ServingInv'
  <2>1. CASE UNCHANGED vars
    <3>1. PICK n \in 1 .. Outside :
            ServersAt(n) /\ (EnginePauses /\ PartialRollout => ConversationsAt(n))
      BY <1>1 DEF ServingInv
    <3>2. ServersAt(n)' /\ Current(n)' = Current(n)
      BY <2>1, <3>1, SameServers DEF vars, lbVars
    <3>3. ConversationsAt(n) => ConversationsAt(n)'
      BY <2>1, <3>2 DEF ConversationsAt, OnAwake, vars, lbVars, training
    <3>4. ConversationTypes' /\ PausedIdle'
      BY <1>1, <2>1 DEF ServingInv, ConversationTypes, PausedIdle, Running, vars, lbVars,
         engines
    <3> QED BY <3>1, <3>2, <3>3, <3>4 DEF ServingInv
  <2>2. CASE Next
    BY <1>1, <2>1, <2>2, CallServerKeeps, EngineKeeps, ReleaseKeeps, ReplicaKeeps,
       TrainerKeeps DEF Next, Terminated
  <2> QED BY <1>1, <2>1, <2>2
<1> QED BY <1>1, InitServing, PTL DEF Spec

(* VersionsBracketed for any number of servers, conversations, turns,       *)
(* synchronisations and validations, if the engines pause and turns are     *)
(* resumed: the versions an answer reports are those that made its tokens.  *)
THEOREM VersionsKept ==
  ASSUME EnginePauses, PartialRollout
  PROVE  Spec => []VersionsBracketed
<1>1. ServingInv => VersionsBracketed
  <2> SUFFICES ASSUME ServingInv, NEW r \in Request, HasAnswer(r), ~ turn[r].stray,
                      NEW v \in turn[r].used \cap Version
               PROVE  turn[r].first \in 0 .. v /\ v <= turn[r].last
    BY DEF VersionsBracketed
  <2>1. PICK n \in 1 .. Outside : ServersAt(n) /\ ConversationsAt(n)
    BY DEF ServingInv
  <2>2. Order(turn[r], Current(n)) /\ Current(n) \in Nat /\ turn[r] \in TurnType
    BY <2>1, CurrentVersion DEF ConversationsAt, ServingInv, ConversationTypes
  <2>3. v \in Int /\ turn[r].no \in Nat
    BY <2>2 DEF TurnType
  <2> QED BY <2>2, <2>3 DEF Order, HasAnswer
<1> QED BY <1>1, ServersKept, PTL

(* ServersAsExpected for any number of them, and with any engine: what the  *)
(* trainer leaves behind after its calls is what it counts on before them.  *)
THEOREM ServersReady == Spec => []ServersAsExpected
<1>1. ServingInv => ServersAsExpected
  <2> SUFFICES ASSUME ServingInv PROVE ServersAsExpected
    OBVIOUS
  <2>1. PICK n \in 1 .. Outside : ServersAt(n)
    BY DEF ServingInv
  <2>2. /\ script = <<>> => n = Outside
        /\ Calling("validate") => n = 13
    <3>1. Position(n)
      BY <2>1 DEF ServersAt
    <3>2. ASSUME script = <<>>, n # Outside PROVE FALSE
      <4>1. /\ n \in 1 .. 20
            /\ \/ script = From(Whole, n)
               \/ n <= 5 /\ script = From(Synchronisation, n)
        BY <3>1, <3>2 DEF Position, Outside
      <4>2. n \in 1 .. Len(Whole) /\ (n <= 5 => n \in 1 .. Len(Synchronisation))
        BY <4>1, Lists
      <4> QED BY <3>2, <4>1, <4>2, Lists, FromStep
    <3> QED BY <3>1, <3>2, Numbers
  <2>3. version \in Version /\ version # Released /\ version - 1 # Released
    BY <2>1 DEF ServersAt, Version, Released
  <2>4. n = Outside \/ n = 13 =>
          /\ paused = {}
          /\ pool = IF n = 13 THEN Server ELSE Standalone
          /\ \A s \in Standalone : weights[s] = version /\ label[s] = version
          /\ n = 13 => \A s \in Hybrid : weights[s] = version /\ label[s] = version
          /\ n = Outside => \A s \in Hybrid : weights[s] = Released
    BY <2>1 DEF ServersAt, PausedAt, PoolAt, StandaloneAt, HybridAt, Outside
  <2>5. \A s \in Standalone : weights[s] # Released
    BY <2>1, <2>3 DEF ServersAt, StandaloneAt
  <2>6. pool = Standalone \/ (n \in 11 .. 16 /\ \A s \in Hybrid : weights[s] # Released)
    BY <2>1, <2>3 DEF ServersAt, PoolAt, HybridAt
  <2>7. \A s \in pool : weights[s] # Released
    BY <2>1, <2>5, <2>6, Kinds DEF ServersAt, PoolAt
  <2> QED BY <2>2, <2>4, <2>7, Kinds DEF ServersAsExpected, Outside
<1> QED BY <1>1, ServersKept, PTL

(* IdleDuringTransfer for engines that pause: nothing runs on a standalone  *)
(* server from its abort until it is resumed.                               *)
THEOREM TransfersIdle ==
  ASSUME EnginePauses
  PROVE  Spec => []IdleDuringTransfer
<1>1. ServingInv => IdleDuringTransfer
  <2> SUFFICES ASSUME ServingInv, Calling("transfer") \/ Calling("label"),
                      NEW s \in Standalone, Head(script).on = Standalone
               PROVE  Running(s) = {}
    BY DEF IdleDuringTransfer
  <2>1. PICK n \in 1 .. Outside : ServersAt(n)
    BY DEF ServingInv
  <2>2. n \in {3, 4}
    BY <2>1, Numbers, Kinds DEF ServersAt
  <2>3. s \in paused
    BY <2>1, <2>2 DEF ServersAt, HeldAt
  <2> QED BY <2>3 DEF ServingInv, PausedIdle
<1> QED BY <1>1, ServersKept, PTL
-----------------------------------------------------------------------------
(***************************************************************************)
(* Serving implements plain generation (Generation.tla).                   *)
(***************************************************************************)
(* What record t says of the answers so far. *)
Told(t) ==
  /\ t.stop # "aborted"
  /\ t.no = 0 => t.pc = "idle"
  /\ t.pc = "idle" => t.lo = NoVersion
  /\ t.lo = NoVersion \/ t.lo \in Nat
  /\ IF t.no = 0 \/ (t.no = 1 /\ t.pc # "idle")
     THEN t.first = NoVersion /\ t.last = NoVersion
     ELSE t.first \in Nat /\ t.last \in Nat

Below(t, l) == t.lo <= l /\ t.last <= l

(* Of a request on a hybrid server, awake or asleep. *)
NotAhead(r) ==
  turn[r].pc \in {"sent", "running"} /\ ticket[r] \in Hybrid
    => label[ticket[r]] \in Nat /\ Below(turn[r], label[ticket[r]])

(* No conversation has been told a version that a server it may be sent to  *)
(* does not answer with yet; hybrid servers never answer with a newer one   *)
(* than the standalone ones.                                                *)
PromiseInv ==
  /\ \A r \in Request : Told(turn[r]) /\ NotAhead(r)
  /\ \A s \in Standalone :
       /\ \A r \in Request : Below(turn[r], label[s])
       /\ \A h \in Hybrid : label[h] <= label[s]

(* The labels of standalone servers. *)
LEMMA Labels ==
  ASSUME NEW n \in 1 .. Outside, ServersAt(n)
  PROVE  /\ version \in Nat /\ Current(n) \in Nat /\ version - 1 <= Current(n)
         /\ \A s \in Standalone :
              label[s] \in Nat /\ Current(n) <= label[s] /\ label[s] <= version
<1>1. version \in Nat /\ Current(n) \in Nat
  BY CurrentVersion
<1>2. ASSUME NEW s \in Standalone
      PROVE  label[s] \in Nat /\ Current(n) <= label[s] /\ label[s] <= version
  BY <1>1 DEF ServersAt, StandaloneAt, Current, Outside
<1> QED BY <1>1, <1>2 DEF Current

(* A request that runs is on a server whose label is a version, no older    *)
(* than those it has been told, and no newer than any standalone server's.  *)
LEMMA RunsTold ==
  ASSUME ServingInv, PromiseInv, EnginePauses, PartialRollout,
         NEW r \in Request, turn[r].pc = "running"
  PROVE  /\ label[ticket[r]] \in Nat /\ Below(turn[r], label[ticket[r]])
         /\ label[ticket[r]] <= version /\ version \in Nat
         /\ \A s \in Standalone : label[ticket[r]] <= label[s]
         /\ ~ turn[r].stray => label[ticket[r]] >= version - 1
<1>1. PICK n \in 1 .. Outside : ServersAt(n) /\ ConversationsAt(n)
  BY DEF ServingInv
<1>2. ConversationTypes /\ PausedIdle /\ ticket[r] \in Server
  BY DEF ServingInv, ConversationTypes
<1>3. ~ turn[r].stray => label[ticket[r]] = Current(n)
  BY <1>1, <1>2, RunsCurrent DEF ConversationsAt
<1>4. CASE ticket[r] \in Hybrid
  <2>1. label[ticket[r]] \in Nat /\ Below(turn[r], label[ticket[r]])
    BY <1>4 DEF PromiseInv, NotAhead
  <2>2. PICK s \in Standalone : TRUE
    BY Kinds
  <2>3. label[ticket[r]] <= label[s] /\ label[s] <= version /\ label[s] \in Nat
    BY <1>1, <1>4, Labels DEF PromiseInv
  <2> QED BY <1>1, <1>3, <1>4, <2>1, <2>3, Labels DEF PromiseInv
<1>5. CASE ticket[r] \in Standalone
  <2>1. OnAwake(r, n)
    BY <1>5, Kinds DEF OnAwake
  <2>2. label[ticket[r]] = Current(n)
    BY <1>1, <1>2, <2>1, RunsCurrent
  <2> QED BY <1>1, <1>5, <2>2, Labels DEF PromiseInv
<1> QED BY <1>2, <1>4, <1>5, Kinds

(* What an answer of the engine tells. *)
LEMMA MergedTold ==
  ASSUME NEW t \in TurnType, Told(t), t.pc = "running", PartialRollout,
         NEW stop \in {"completed", "aborted"}, NEW lost \in BOOLEAN,
         stop = "completed" => ~ lost, NEW l \in Nat, Below(t, l)
  PROVE  LET u == Merged(t, stop, l, lost)
         IN  /\ u \in TurnType /\ u.stray = t.stray /\ Told(u)
             /\ \A x \in Nat : l <= x => Below(u, x)
             /\ stop = "aborted" =>
                  u.pc = "resting" /\ u.first = t.first /\ u.last = t.last
             /\ stop = "completed" =>
                  /\ u.pc = "idle" /\ u.stop = stop
                  /\ u.last \in Nat /\ t.last <= u.last /\ u.last <= l
                  /\ u.last = l \/ l = 0
                  /\ IF t.first = NoVersion THEN u.first \in 0 .. u.last
                                            ELSE u.first = t.first
<1> DEFINE u == Merged(t, stop, l, lost)
           v == IF lost THEN NoVersion ELSE l
           lo == IF t.lo = NoVersion THEN v ELSE t.lo
<1>1. EndsTurn(stop) <=> stop = "completed"
  BY DEF EndsTurn
<1>2. /\ u \in TurnType /\ u.stray = t.stray /\ u.no = t.no
      /\ stop = "completed" =>
           /\ u.pc = "idle" /\ u.lo = NoVersion /\ u.stop = stop
           /\ u.first = IF t.no = 1 THEN lo ELSE t.first
           /\ u.last = IF t.no = 1 \/ v > 0 THEN v ELSE t.last
      /\ stop = "aborted" =>
           /\ u.pc = "resting" /\ u.lo = lo /\ u.stop = t.stop
           /\ u.first = t.first /\ u.last = t.last
  <2>1. MergedIs(u, t, stop, l, lost)
    BY MergedFields
  <2> QED BY <1>1, <2>1 DEF MergedIs
<1>3. /\ t.no \in Nat \ {0} /\ t.lo \in Int /\ t.lo <= l /\ t.last \in Int /\ t.last <= l
      /\ t.lo = NoVersion \/ t.lo \in Nat
      /\ t.no = 1 => t.first = NoVersion /\ t.last = NoVersion
      /\ t.no # 1 => t.first \in Nat /\ t.last \in Nat
      /\ t.stop # "aborted" /\ NoVersion = -1
  BY DEF Told, Below, TurnType, NoVersion
<1>4. lo = NoVersion \/ (lo \in Nat /\ lo <= l)
  BY <1>3
<1> HIDE DEF u
<1>5. CASE stop = "aborted"
  <2>1. Told(u)
    BY <1>2, <1>3, <1>4, <1>5 DEF Told
  <2>2. \A x \in Nat : l <= x => Below(u, x)
    BY <1>2, <1>3, <1>4, <1>5 DEF Below
  <2> QED BY <1>2, <1>5, <2>1, <2>2 DEF u
<1>6. CASE stop = "completed"
  <2>1. v = l /\ lo \in Nat /\ lo <= l
    BY <1>3, <1>6
  <2>2. /\ u.last \in Nat /\ t.last <= u.last /\ u.last <= l
        /\ u.last = l \/ l = 0
    BY <1>2, <1>3, <1>6, <2>1
  <2>3. IF t.first = NoVersion THEN u.first \in 0 .. u.last ELSE u.first = t.first
    BY <1>2, <1>3, <1>6, <2>1
  <2>4. u.first \in Nat
    BY <1>3, <2>2, <2>3
  <2>5. Told(u)
    BY <1>2, <1>3, <1>6, <2>2, <2>4 DEF Told
  <2>6. \A x \in Nat : l <= x => Below(u, x)
    BY <1>2, <1>3, <1>6, <2>2 DEF Below
  <2> QED BY <1>2, <1>6, <2>2, <2>3, <2>5, <2>6 DEF u
<1> QED BY <1>5, <1>6

(* A step of conversation r alone. *)
LEMMA OneTold ==
  ASSUME ServingInv, PromiseInv, NEW r \in Request, NEW u, NEW k,
         turn' = [turn EXCEPT ![r] = u], ticket' = [ticket EXCEPT ![r] = k],
         UNCHANGED label, Told(u),
         \A s \in Standalone : Below(u, label[s]),
         u.pc \in {"sent", "running"} /\ k \in Hybrid
           => label[k] \in Nat /\ Below(u, label[k])
  PROVE  PromiseInv'
<1>1. /\ turn'[r] = u /\ ticket'[r] = k
      /\ \A q \in Request \ {r} : turn'[q] = turn[q] /\ ticket'[q] = ticket[q]
  BY DEF ServingInv, ConversationTypes
<1>2. ASSUME NEW q \in Request
      PROVE  /\ Told(turn'[q]) /\ NotAhead(q)'
             /\ \A s \in Standalone : Below(turn'[q], label[s])
  <2>1. CASE q = r
    BY <1>1, <2>1 DEF NotAhead
  <2>2. CASE q # r
    BY <1>1, <2>2 DEF PromiseInv, NotAhead
  <2> QED BY <2>1, <2>2
<1> QED BY <1>2 DEF PromiseInv

(* Nobody has been told anything at the start. *)
LEMMA InitTold == Init => PromiseInv
<1> SUFFICES ASSUME Init PROVE PromiseInv
  OBVIOUS
<1>1. NoTurn \in TurnType /\ Told(NoTurn) /\ NoTurn.pc = "idle"
      /\ NoTurn.lo = -1 /\ NoTurn.last = -1
  BY DEF NoTurn, TurnType, Told, NoVersion
<1>2. /\ \A r \in Request : turn[r] = NoTurn
      /\ \A s \in Standalone : label[s] = 0
      /\ \A s \in Hybrid : label[s] = -1
  BY Kinds DEF Init, NoVersion
<1> QED BY <1>1, <1>2 DEF PromiseInv, NotAhead, Below

(* A server of the pool answers with what has been told, or newer. *)
LEMMA CallServerTold ==
  ASSUME ServingInv, PromiseInv, NEW r \in Request, CallServer(r)
  PROVE  PromiseInv'
<1>1. PICK s \in Server : AcquireServer(r, s)
  BY DEF CallServer
<1> DEFINE t == turn[r]
           u == [t EXCEPT !.pc = "sent", !.no = t.no + (IF t.pc = "idle" THEN 1 ELSE 0)]
<1>2. /\ t \in TurnType /\ t.pc \in {"idle", "resting"}
      /\ turn' = [turn EXCEPT ![r] = u] /\ ticket' = [ticket EXCEPT ![r] = s]
      /\ UNCHANGED label /\ s \in pool
  BY <1>1 DEF CallServer, AcquireServer, Selected, ServingInv, ConversationTypes, engines
<1>3. /\ u.pc = "sent" /\ u.stop = t.stop /\ u.lo = t.lo /\ u.first = t.first
      /\ u.last = t.last /\ u.no = IF t.pc = "idle" THEN t.no + 1 ELSE t.no
      /\ t.no \in Nat
  <2> DEFINE more == IF t.pc = "idle" THEN 1 ELSE 0
  <2>1. more \in Nat /\ t.no \in Nat /\ t.no + 0 = t.no
    BY <1>2 DEF TurnType
  <2>2. t.no + more = IF t.pc = "idle" THEN t.no + 1 ELSE t.no
    BY <2>1
  <2>3. u = [t EXCEPT !.pc = "sent", !.no = t.no + more]
    OBVIOUS
  <2> HIDE DEF more, u, t
  <2> QED BY <1>2, <2>1, <2>2, <2>3 DEF TurnType
<1>4. PICK n \in 1 .. Outside : ServersAt(n)
  BY DEF ServingInv
<1> HIDE DEF u
<1>5. Told(t) /\ \A q \in Standalone : Below(t, label[q])
  BY DEF PromiseInv
<1>6. Told(u) /\ \A q \in Standalone : Below(u, label[q])
  <2> HIDE DEF t
  <2> QED BY <1>2, <1>3, <1>5 DEF Told, Below
<1>7. ASSUME s \in Hybrid PROVE label[s] \in Nat /\ Below(u, label[s])
  <2>1. n \in 11 .. 16
    BY <1>2, <1>4, <1>7, Kinds DEF ServersAt, PoolAt
  <2>2. label[s] = version /\ version \in Nat
    BY <1>4, <1>7, <2>1, CurrentVersion DEF ServersAt, HybridAt
  <2>3. PICK q \in Standalone : TRUE
    BY Kinds
  <2>4. label[q] = version
    BY <1>4, <2>1 DEF ServersAt, StandaloneAt
  <2> QED BY <1>6, <2>2, <2>3, <2>4
<1> QED BY <1>2, <1>6, <1>7, OneTold

(* The engine tells its server's label. *)
LEMMA EngineTold ==
  ASSUME ServingInv, PromiseInv, EnginePauses, PartialRollout,
         NEW r \in Request, Engine(r)
  PROVE  PromiseInv'
<1> DEFINE t == turn[r]
           s == ticket[r]
<1>1. /\ t \in TurnType /\ s \in Server /\ weights[s] \in Int /\ label[s] \in Int
      /\ t.pc \in {"sent", "running"} /\ Told(t) /\ NotAhead(r)
      /\ \A q \in Standalone : Below(t, label[q])
      /\ ticket' = [ticket EXCEPT ![r] = s] /\ UNCHANGED label
  <2>1. t.pc \in {"sent", "running"} /\ UNCHANGED <<lbVars, engines, training>>
    BY DEF Engine, EnterEngine, GenerateToken, FinishTurn
  <2>2. ConversationTypes
    BY DEF ServingInv
  <2>3. UNCHANGED <<ticket, label>>
    BY <2>1 DEF lbVars, engines
  <2>4. t \in TurnType /\ s \in Server
    BY <2>1, <2>2 DEF ConversationTypes
  <2>5. weights[s] \in Int /\ label[s] \in Int /\ ticket' = [ticket EXCEPT ![r] = s]
    BY <2>2, <2>3, <2>4 DEF ConversationTypes
  <2>6. Told(t) /\ NotAhead(r) /\ \A q \in Standalone : Below(t, label[q])
    BY DEF PromiseInv
  <2> QED BY <2>1, <2>3, <2>4, <2>5, <2>6
<1>2. ASSUME NEW u \in TurnType, turn' = [turn EXCEPT ![r] = u],
             u.pc \in {"sent", "running"}, u.stop = t.stop, u.lo = t.lo,
             u.first = t.first, u.last = t.last, u.no = t.no
      PROVE  PromiseInv'
  <2>1. Told(u) /\ \A q \in Standalone : Below(u, label[q])
    <3> HIDE DEF t, s
    <3> QED BY <1>1, <1>2 DEF Told, Below
  <2>2. s \in Hybrid => label[s] \in Nat /\ Below(u, label[s])
    BY <1>1, <1>2 DEF NotAhead, Below
  <2> QED BY <1>1, <1>2, <2>1, <2>2, OneTold
<1>3. CASE EnterEngine(r)
  <2> DEFINE u == [t EXCEPT !.pc = "running"]
  <2>1. turn' = [turn EXCEPT ![r] = u]
    BY <1>3 DEF EnterEngine, ServingInv, ConversationTypes
  <2>2. /\ u \in TurnType /\ u.pc = "running" /\ u.stop = t.stop /\ u.lo = t.lo
        /\ u.first = t.first /\ u.last = t.last /\ u.no = t.no
    BY <1>1 DEF TurnType
  <2> HIDE DEF u
  <2> QED BY <1>2, <2>1, <2>2
<1>4. CASE GenerateToken(r)
  <2> DEFINE u == WithToken(t, s)
  <2>1. turn' = [turn EXCEPT ![r] = u] /\ t.pc = "running"
    BY <1>4 DEF GenerateToken, ServingInv, ConversationTypes
  <2>2. /\ u \in TurnType /\ u.pc = "running" /\ u.stop = t.stop /\ u.lo = t.lo
        /\ u.first = t.first /\ u.last = t.last /\ u.no = t.no
    BY <1>1, <2>1, TokenType
  <2> HIDE DEF u
  <2> QED BY <1>2, <2>1, <2>2
<1>5. CASE FinishTurn(r)
  <2> DEFINE w == WithToken(t, s)
             u == Merged(w, "completed", label[s], FALSE)
  <2>1. turn' = [turn EXCEPT ![r] = u] /\ t.pc = "running"
    BY <1>5 DEF FinishTurn, ServingInv, ConversationTypes
  <2>2. /\ label[s] \in Nat /\ Below(t, label[s])
        /\ \A q \in Standalone : label[s] <= label[q]
    BY <2>1, RunsTold
  <2>3. /\ w \in TurnType /\ w.pc = "running" /\ w.stop = t.stop /\ w.lo = t.lo
        /\ w.first = t.first /\ w.last = t.last /\ w.no = t.no
    BY <1>1, <2>1, TokenType
  <2>4. Told(w) /\ Below(w, label[s])
    <3> HIDE DEF t, s, w
    <3> QED BY <1>1, <2>1, <2>2, <2>3 DEF Told, Below
  <2>5. /\ u.pc = "idle" /\ Told(u)
        /\ \A x \in Nat : label[s] <= x => Below(u, x)
    <3> HIDE DEF w
    <3> QED BY <2>2, <2>3, <2>4, MergedTold
  <2>6. \A q \in Standalone : Below(u, label[q])
    <3>1. \A q \in Standalone : label[q] \in Nat
      BY Labels DEF ServingInv
    <3> QED BY <2>2, <2>5, <3>1
  <2> HIDE DEF u
  <2> QED BY <1>1, <2>1, <2>5, <2>6, OneTold
<1> QED BY <1>3, <1>4, <1>5 DEF Engine

(* So does the answer to a request that is aborted, if it has a label. *)
LEMMA AbortTold ==
  ASSUME ServingInv, PromiseInv, EnginePauses, PartialRollout,
         NEW s \in Server, AbortAllRequests(s)
  PROVE  PromiseInv'
<1>1. PICK lost \in SUBSET Running(s) :
        turn' = [r \in Request |->
                   IF r \in Running(s)
                   THEN Merged(turn[r], "aborted", label[s], r \in lost)
                   ELSE turn[r]]
  BY DEF AbortAllRequests
<1>2. UNCHANGED <<ticket, label>>
  BY DEF AbortAllRequests, lbVars
<1>3. ASSUME NEW r \in Request
      PROVE  /\ Told(turn'[r]) /\ NotAhead(r)'
             /\ \A q \in Standalone : Below(turn'[r], label[q])
  <2>1. CASE r \notin Running(s)
    <3>1. turn'[r] = turn[r]
      BY <1>1, <2>1
    <3> QED BY <1>2, <3>1 DEF PromiseInv, NotAhead
  <2>2. CASE r \in Running(s)
    <3>1. /\ turn[r] \in TurnType /\ turn[r].pc = "running" /\ ticket[r] = s
          /\ Told(turn[r])
          /\ turn'[r] = Merged(turn[r], "aborted", label[s], r \in lost)
      BY <1>1, <2>2 DEF Running, ServingInv, ConversationTypes, PromiseInv
    <3>2. /\ label[s] \in Nat /\ Below(turn[r], label[s])
          /\ \A q \in Standalone : label[s] <= label[q]
      BY <3>1, RunsTold
    <3>3. (r \in lost) \in BOOLEAN
      OBVIOUS
    <3>4. /\ turn'[r].pc = "resting" /\ Told(turn'[r])
          /\ \A x \in Nat : label[s] <= x => Below(turn'[r], x)
      <4> DEFINE l == label[s]
                 gone == r \in lost
                 u == Merged(turn[r], "aborted", l, gone)
      <4>1. l \in Nat /\ gone \in BOOLEAN /\ Below(turn[r], l) /\ turn'[r] = u
        BY <3>1, <3>2, <3>3
      <4> HIDE DEF l, gone
      <4>2. u.pc = "resting" /\ Told(u) /\ \A x \in Nat : l <= x => Below(u, x)
        BY <3>1, <4>1, MergedTold
      <4> QED BY <4>1, <4>2 DEF l
    <3>5. \A q \in Standalone : label[q] \in Nat
      BY Labels DEF ServingInv
    <3> QED BY <3>2, <3>4, <3>5 DEF NotAhead
  <2> QED BY <2>1, <2>2
<1> QED BY <1>2, <1>3 DEF PromiseInv

(* Sleep tells nothing. *)
LEMMA SleepTold ==
  ASSUME ServingInv, PromiseInv, NEW s \in Server, Sleep(s)
  PROVE  PromiseInv'
<1>1. /\ turn' = [r \in Request |->
                    IF turn[r].pc \in {"sent", "running"} /\ ticket[r] = s
                    THEN [turn[r] EXCEPT !.stray = TRUE] ELSE turn[r]]
      /\ UNCHANGED <<ticket, label>>
  BY DEF Sleep, lbVars
<1>2. ASSUME NEW r \in Request
      PROVE  /\ Told(turn'[r]) /\ NotAhead(r)'
             /\ \A q \in Standalone : Below(turn'[r], label[q])
  <2>1. turn[r] \in TurnType
    BY DEF ServingInv, ConversationTypes
  <2>2. /\ turn'[r].pc = turn[r].pc /\ turn'[r].no = turn[r].no
        /\ turn'[r].lo = turn[r].lo /\ turn'[r].stop = turn[r].stop
        /\ turn'[r].first = turn[r].first /\ turn'[r].last = turn[r].last
    BY <1>1, <2>1 DEF TurnType
  <2> QED BY <1>1, <2>2 DEF PromiseInv, Told, NotAhead, Below
<1> QED BY <1>1, <1>2 DEF PromiseInv

(* A new label is the newest version, the standalone servers' first. *)
LEMMA LabelTold ==
  ASSUME ServingInv, PromiseInv, NEW s \in Server, SetGlobalSteps(s)
  PROVE  PromiseInv'
<1>1. /\ label' = [label EXCEPT ![s] = version] /\ UNCHANGED <<turn, ticket>>
      /\ label \in [Server -> Int]
      /\ \A r \in Request : turn[r] \in TurnType
  BY DEF SetGlobalSteps, lbVars, ServingInv, ConversationTypes
<1>2. PICK n \in 1 .. Outside : ServersAt(n)
  BY DEF ServingInv
<1>3. /\ version \in Nat
      /\ \A q \in Standalone : label[q] \in Nat /\ label[q] <= version
  BY <1>2, Labels
<1>4. \/ s \in Standalone
      \/ s \in Hybrid /\ \A q \in Standalone : label[q] = version
  <2>1. CASE s \in Hybrid
    <3>1. n = 7
      BY <1>2, <2>1, Numbers, Kinds DEF ServersAt, SetGlobalSteps
    <3> QED BY <1>2, <2>1, <3>1 DEF ServersAt, StandaloneAt
  <2> QED BY <2>1, Kinds
<1>5. \A q \in Standalone : label[q] <= label'[q] /\ label'[q] \in Nat
  BY <1>1, <1>3, Kinds
<1>6. ASSUME NEW h \in Hybrid PROVE label'[h] = label[h] \/ label'[h] = version
  BY <1>1, Kinds
<1>7. ASSUME NEW h \in Hybrid, NEW q \in Standalone PROVE label'[h] <= label'[q]
  <2>1. h \in Server /\ q \in Server /\ label[h] \in Int /\ label[h] <= label[q]
    BY <1>1, <1>7, Kinds DEF PromiseInv
  <2>2. CASE s \in Standalone
    <3>1. label'[h] = label[h]
      BY <1>1, <2>1, <2>2, Kinds
    <3> QED BY <1>3, <1>5, <2>1, <3>1
  <2>3. CASE s \in Hybrid /\ \A x \in Standalone : label[x] = version
    <3>1. label'[q] = version
      BY <1>1, <2>1, <2>3, Kinds
    <3> QED BY <1>3, <1>6, <2>1, <2>3, <3>1
  <2> QED BY <1>4, <2>2, <2>3
<1>8. ASSUME NEW r \in Request
      PROVE  NotAhead(r)' /\ \A q \in Standalone : Below(turn[r], label'[q])
  <2>1. turn[r].lo \in Int /\ turn[r].last \in Int
    BY <1>1 DEF TurnType
  <2>2. ASSUME NEW q \in Standalone PROVE Below(turn[r], label'[q])
    BY <1>3, <1>5, <2>1 DEF PromiseInv, Below
  <2>3. ASSUME turn[r].pc \in {"sent", "running"}, ticket[r] \in Hybrid
        PROVE  label'[ticket[r]] \in Nat /\ Below(turn[r], label'[ticket[r]])
    <3>1. label[ticket[r]] \in Nat /\ Below(turn[r], label[ticket[r]])
      BY <2>3 DEF PromiseInv, NotAhead
    <3>2. label[ticket[r]] <= version
      <4>1. PICK q \in Standalone : TRUE
        BY Kinds
      <4>2. label[ticket[r]] <= label[q] /\ label[q] <= version /\ label[q] \in Nat
        BY <1>3, <2>3 DEF PromiseInv
      <4> QED BY <1>3, <3>1, <4>2
    <3>3. label'[ticket[r]] = label[ticket[r]] \/ label'[ticket[r]] = version
      BY <1>6, <2>3
    <3> QED BY <1>3, <2>1, <3>1, <3>2, <3>3 DEF Below
  <2> QED BY <1>1, <2>2, <2>3 DEF NotAhead
<1> QED BY <1>1, <1>7, <1>8 DEF PromiseInv

(* Every step keeps what has been told. *)
LEMMA ToldKept ==
  ASSUME ServingInv, PromiseInv, EnginePauses, PartialRollout, [Next]_vars
  PROVE  PromiseInv'
<1>1. CASE UNCHANGED <<turn, ticket, label>>
  BY <1>1 DEF PromiseInv, NotAhead
<1>2. ASSUME NEW r \in Request, Release(r) PROVE PromiseInv'
  <2>1. /\ turn' = [turn EXCEPT ![r] = turn[r]] /\ turn[r].pc \in {"idle", "resting"}
        /\ ticket' = [ticket EXCEPT ![r] = NoServer] /\ UNCHANGED label
    BY <1>2 DEF Release, ReleaseServer, ServingInv, ConversationTypes, engines
  <2> QED BY <2>1, OneTold DEF PromiseInv
<1>3. ASSUME NEW s \in Server, Drain(s) \/ Transfer(s) \/ ResumeGeneration(s)
      PROVE  UNCHANGED <<turn, ticket, label>>
  BY <1>3 DEF Drain, Transfer, ResumeGeneration, lbVars, engines
<1>4. StartSync \/ Validation \/ Terminated \/ UNCHANGED vars
        => UNCHANGED <<turn, ticket, label>>
  BY DEF StartSync, Validation, AddReplicas, RemoveReplicas, DoValidate, AddServers,
     RemoveServers, Terminated, vars, lbVars, engines, training
<1> QED
  BY <1>1, <1>2, <1>3, <1>4, CallServerTold, EngineTold, AbortTold, SleepTold, LabelTold
     DEF Next, Replica

(* Serving, seen as plain generation. *)
States == [r \in Request |-> IF turn[r].pc = "idle" THEN turn[r].stop ELSE "asked"]
Firsts == [r \in Request |-> turn[r].first]
Lasts == [r \in Request |-> turn[r].last]
HeldUp == {r \in Request : turn[r].stray}

(* A step of conversation r alone, so seen. *)
LEMMA OneSeen ==
  ASSUME NEW r \in Request, NEW u, turn \in [Request -> TurnType],
         turn' = [turn EXCEPT ![r] = u], u.stray = turn[r].stray
  PROVE  /\ States' = [States EXCEPT ![r] = IF u.pc = "idle" THEN u.stop ELSE "asked"]
         /\ Firsts' = [Firsts EXCEPT ![r] = u.first]
         /\ Lasts' = [Lasts EXCEPT ![r] = u.last]
         /\ HeldUp' = HeldUp
<1>1. turn'[r] = u /\ \A q \in Request \ {r} : turn'[q] = turn[q]
  OBVIOUS
<1> QED BY <1>1 DEF States, Firsts, Lasts, HeldUp

(* A step that shows nothing of it. *)
LEMMA NoneSeen ==
  ASSUME \A r \in Request :
           /\ turn'[r].first = turn[r].first /\ turn'[r].last = turn[r].last
           /\ turn'[r].stray = turn[r].stray
           /\ turn'[r].pc = "idle" <=> turn[r].pc = "idle"
           /\ turn[r].pc = "idle" => turn'[r].stop = turn[r].stop
  PROVE  UNCHANGED <<States, Firsts, Lasts, HeldUp>>
BY DEF States, Firsts, Lasts, HeldUp

(* The agent loop asks, or the client resumes. *)
LEMMA CallServerSeen ==
  ASSUME ServingInv, PromiseInv, NEW r \in Request, CallServer(r)
  PROVE  Promise!Ask(r) \/ UNCHANGED <<States, Firsts, Lasts, HeldUp, version>>
<1> DEFINE t == turn[r]
           u == [t EXCEPT !.pc = "sent", !.no = t.no + (IF t.pc = "idle" THEN 1 ELSE 0)]
<1>1. /\ t \in TurnType /\ t.pc \in {"idle", "resting"} /\ t.stop # "aborted"
      /\ turn \in [Request -> TurnType]
      /\ turn' = [turn EXCEPT ![r] = u] /\ UNCHANGED version
  BY DEF CallServer, ServingInv, ConversationTypes, PromiseInv, Told, training
<1>2. u.pc = "sent" /\ u.first = t.first /\ u.last = t.last /\ u.stray = t.stray
  BY <1>1 DEF TurnType
<1>3. /\ States' = [States EXCEPT ![r] = "asked"] /\ Firsts' = [Firsts EXCEPT ![r] = u.first]
      /\ Lasts' = [Lasts EXCEPT ![r] = u.last] /\ HeldUp' = HeldUp
  <2> HIDE DEF u
  <2> QED BY <1>1, <1>2, OneSeen
<1>4. Firsts' = Firsts /\ Lasts' = Lasts
  BY <1>2, <1>3 DEF Firsts, Lasts
<1>5. CASE t.pc = "idle"
  <2>1. States[r] \in {"none", "completed"}
    BY <1>1, <1>5 DEF States, TurnType
  <2> QED BY <1>1, <1>3, <1>4, <2>1 DEF Promise!Ask, States, Firsts, Lasts, HeldUp
<1>6. CASE t.pc = "resting"
  <2>1. States[r] = "asked"
    BY <1>6 DEF States
  <2>2. States' = States
    BY <1>3, <2>1 DEF States
  <2> QED BY <1>1, <1>3, <1>4, <2>2
<1> QED BY <1>1, <1>5, <1>6

(* The end of a turn is its answer; the engine's other steps do not show. *)
LEMMA EngineSeen ==
  ASSUME ServingInv, PromiseInv, EnginePauses, PartialRollout,
         NEW r \in Request, Engine(r)
  PROVE  Promise!Answer(r) \/ UNCHANGED <<States, Firsts, Lasts, HeldUp, version>>
<1> DEFINE t == turn[r]
           s == ticket[r]
<1>1. /\ t \in TurnType /\ turn \in [Request -> TurnType] /\ Told(t)
      /\ t.pc \in {"sent", "running"} /\ UNCHANGED version
      /\ s \in Server /\ weights[s] \in Int
  BY DEF Engine, EnterEngine, GenerateToken, FinishTurn, ServingInv, ConversationTypes,
         PromiseInv, training
<1>2. ASSUME NEW u \in TurnType, turn' = [turn EXCEPT ![r] = u], u.pc = "running",
             u.first = t.first, u.last = t.last, u.stray = t.stray
      PROVE  UNCHANGED <<States, Firsts, Lasts, HeldUp, version>>
  <2>1. turn'[r] = u /\ \A q \in Request \ {r} : turn'[q] = turn[q]
    BY <1>1, <1>2
  <2>2. \A q \in Request :
           /\ turn'[q].first = turn[q].first /\ turn'[q].last = turn[q].last
           /\ turn'[q].stray = turn[q].stray
           /\ turn'[q].pc = "idle" <=> turn[q].pc = "idle"
           /\ turn[q].pc = "idle" => turn'[q].stop = turn[q].stop
    BY <1>1, <1>2, <2>1
  <2> QED BY <1>1, <2>2, NoneSeen
<1>3. CASE EnterEngine(r)
  <2> DEFINE u == [t EXCEPT !.pc = "running"]
  <2>1. turn' = [turn EXCEPT ![r] = u]
    BY <1>1, <1>3 DEF EnterEngine
  <2>2. /\ u \in TurnType /\ u.pc = "running" /\ u.stray = t.stray
        /\ u.first = t.first /\ u.last = t.last
    BY <1>1 DEF TurnType
  <2> HIDE DEF u
  <2> QED BY <1>2, <2>1, <2>2
<1>4. CASE GenerateToken(r)
  <2> DEFINE u == WithToken(t, s)
  <2>1. turn' = [turn EXCEPT ![r] = u] /\ t.pc = "running"
    BY <1>1, <1>4 DEF GenerateToken
  <2>2. /\ u \in TurnType /\ u.pc = "running" /\ u.stray = t.stray
        /\ u.first = t.first /\ u.last = t.last
    BY <1>1, <2>1, TokenType
  <2> HIDE DEF u
  <2> QED BY <1>2, <2>1, <2>2
<1>5. CASE FinishTurn(r)
  <2> DEFINE l == label[s]
             w == WithToken(t, s)
             u == Merged(w, "completed", l, FALSE)
  <2>1. turn' = [turn EXCEPT ![r] = u] /\ t.pc = "running"
    BY <1>1, <1>5 DEF FinishTurn
  <2>2. /\ l \in Nat /\ Below(t, l) /\ l <= version /\ version \in Nat
        /\ ~ t.stray => l >= version - 1
    BY <2>1, RunsTold
  <2>3. /\ w \in TurnType /\ w.pc = "running" /\ w.stop = t.stop /\ w.lo = t.lo
        /\ w.first = t.first /\ w.last = t.last /\ w.no = t.no /\ w.stray = t.stray
    BY <1>1, <2>1, TokenType
  <2>4. Told(w) /\ Below(w, l)
    <3> HIDE DEF t, w, l
    <3> QED BY <1>1, <2>1, <2>2, <2>3 DEF Told, Below
  <2>5. /\ u.stray = w.stray /\ u.pc = "idle" /\ u.stop = "completed"
        /\ u.last \in Nat /\ w.last <= u.last /\ u.last <= l
        /\ u.last = l \/ l = 0
        /\ IF w.first = NoVersion THEN u.first \in 0 .. u.last ELSE u.first = w.first
    <3> DEFINE stop == "completed"
               lost == FALSE
    <3>1. stop \in {"completed", "aborted"} /\ lost \in BOOLEAN /\ ~ lost
      OBVIOUS
    <3> HIDE DEF w, l, lost
    <3>2. LET x == Merged(w, stop, l, lost)
          IN  /\ x.stray = w.stray /\ x.pc = "idle" /\ x.stop = stop
              /\ x.last \in Nat /\ w.last <= x.last /\ x.last <= l
              /\ x.last = l \/ l = 0
              /\ IF w.first = NoVersion THEN x.first \in 0 .. x.last ELSE x.first = w.first
      BY <2>2, <2>3, <2>4, <3>1, MergedTold
    <3> QED BY <3>2 DEF lost
  <2> HIDE DEF u
  <2>6. /\ States' = [States EXCEPT ![r] = "completed"]
        /\ Firsts' = [Firsts EXCEPT ![r] = u.first]
        /\ Lasts' = [Lasts EXCEPT ![r] = u.last] /\ HeldUp' = HeldUp
    <3>1. u.stray = turn[r].stray /\ u.pc = "idle" /\ u.stop = "completed"
      BY <2>3, <2>5
    <3>2. turn \in [Request -> TurnType] /\ turn' = [turn EXCEPT ![r] = u]
      BY <1>1, <2>1
    <3> HIDE DEF t, w, l, s
    <3>3. /\ States' = [States EXCEPT ![r] = IF u.pc = "idle" THEN u.stop ELSE "asked"]
          /\ Firsts' = [Firsts EXCEPT ![r] = u.first]
          /\ Lasts' = [Lasts EXCEPT ![r] = u.last] /\ HeldUp' = HeldUp
      BY <3>1, <3>2, OneSeen
    <3> QED BY <3>1, <3>3
  <2>7. /\ States[r] = "asked" /\ Firsts[r] = t.first /\ Lasts[r] = t.last
        /\ r \notin HeldUp <=> ~ t.stray
    BY <2>1 DEF States, Firsts, Lasts, HeldUp
  <2>8. u.last \in 0 .. version /\ (~ t.stray => u.last >= version - 1)
    <3> HIDE DEF l, t
    <3> QED BY <2>2, <2>5
  <2> DEFINE lo == IF t.first = NoVersion THEN u.first ELSE 0
  <2>9. /\ lo \in 0 .. version /\ lo <= u.last
        /\ u.first = IF t.first = -1 THEN lo ELSE t.first
    <3> HIDE DEF t, l
    <3> QED BY <2>2, <2>3, <2>5, <2>8 DEF NoVersion
  <2> HIDE DEF lo, t, l, w
  <2>10. /\ Firsts' = [Firsts EXCEPT ![r] = IF Firsts[r] = -1 THEN lo ELSE Firsts[r]]
         /\ Lasts[r] <= u.last
    BY <2>3, <2>5, <2>6, <2>7, <2>9
  <2>11. \E x \in 0 .. version, y \in 0 .. version :
            /\ x <= y /\ Lasts[r] <= y
            /\ r \notin HeldUp => y >= version - 1
            /\ Firsts' = [Firsts EXCEPT ![r] = IF Firsts[r] = -1 THEN x ELSE Firsts[r]]
            /\ Lasts' = [Lasts EXCEPT ![r] = y]
    <3> USE <2>8, <2>9
    <3> WITNESS lo \in 0 .. version, u.last \in 0 .. version
    <3> QED BY <2>6, <2>7, <2>8, <2>9, <2>10
  <2>12. Promise!Answer(r)
    BY <1>1, <2>6, <2>7, <2>11 DEF Promise!Answer, States, Firsts, Lasts, HeldUp
  <2> QED BY <2>12
<1> QED BY <1>3, <1>4, <1>5 DEF Engine

(* An interruption does not show: the turn is resumed. *)
LEMMA AbortSeen ==
  ASSUME ServingInv, PromiseInv, EnginePauses, PartialRollout,
         NEW s \in Server, AbortAllRequests(s)
  PROVE  UNCHANGED <<States, Firsts, Lasts, HeldUp, version>>
<1>1. PICK lost \in SUBSET Running(s) :
        turn' = [r \in Request |->
                   IF r \in Running(s)
                   THEN Merged(turn[r], "aborted", label[s], r \in lost)
                   ELSE turn[r]]
  BY DEF AbortAllRequests
<1>2. UNCHANGED version
  BY DEF AbortAllRequests, Answered
<1>3. ASSUME NEW r \in Running(s)
      PROVE  /\ r \in Request /\ turn[r].pc = "running" /\ turn'[r].pc = "resting"
             /\ turn'[r].first = turn[r].first /\ turn'[r].last = turn[r].last
             /\ turn'[r].stray = turn[r].stray
  <2>1. /\ r \in Request /\ turn[r] \in TurnType /\ turn[r].pc = "running"
        /\ label[s] \in Int
    BY DEF Running, ServingInv, ConversationTypes
  <2> DEFINE u == Merged(turn[r], "aborted", label[s], r \in lost)
  <2>2. turn'[r] = u
    BY <1>1, <2>1
  <2>3. (r \in lost) \in BOOLEAN
    OBVIOUS
  <2>4. MergedIs(u, turn[r], "aborted", label[s], r \in lost)
    BY <2>1, <2>3, MergedFields
  <2>5. ~ EndsTurn("aborted")
    BY DEF EndsTurn
  <2> HIDE DEF u
  <2> QED BY <2>1, <2>2, <2>4, <2>5 DEF MergedIs
<1>4. \A r \in Request \ Running(s) : turn'[r] = turn[r]
  BY <1>1
<1>5. \A r \in Request :
         /\ turn'[r].first = turn[r].first /\ turn'[r].last = turn[r].last
         /\ turn'[r].stray = turn[r].stray
         /\ turn'[r].pc = "idle" <=> turn[r].pc = "idle"
         /\ turn[r].pc = "idle" => turn'[r].stop = turn[r].stop
  BY <1>3, <1>4
<1> QED BY <1>2, <1>5, NoneSeen

(* What a server falls asleep with is held up. *)
LEMMA SleepSeen ==
  ASSUME ServingInv, NEW s \in Server, Sleep(s)
  PROVE  Promise!HoldUp
<1> DEFINE asked == {r \in Request : turn[r].pc \in {"sent", "running"} /\ ticket[r] = s}
<1>1. /\ turn' = [r \in Request |->
                    IF r \in asked THEN [turn[r] EXCEPT !.stray = TRUE] ELSE turn[r]]
      /\ UNCHANGED version
  BY DEF Sleep, Answered
<1>2. ASSUME NEW r \in Request
      PROVE  /\ turn'[r].first = turn[r].first /\ turn'[r].last = turn[r].last
             /\ turn'[r].pc = turn[r].pc /\ turn'[r].stop = turn[r].stop
             /\ turn'[r].stray <=> (turn[r].stray \/ r \in asked)
  <2>1. turn[r] \in TurnType
    BY DEF ServingInv, ConversationTypes
  <2> HIDE DEF asked
  <2> QED BY <1>1, <2>1 DEF TurnType
<1>3. UNCHANGED <<States, Firsts, Lasts>>
  BY <1>2 DEF States, Firsts, Lasts
<1>4. HeldUp' = HeldUp \cup asked
  BY <1>2 DEF HeldUp
<1>5. asked \in SUBSET {r \in Request : States[r] = "asked"}
  BY DEF States
<1> HIDE DEF asked
<1> QED BY <1>1, <1>3, <1>4, <1>5 DEF Promise!HoldUp, States, Firsts, Lasts, HeldUp

(* ImplementsGeneration for any numbers of servers, conversations, turns,   *)
(* synchronisations and validations, if the engines pause and turns are     *)
(* resumed: agent loops need not know of any of it                          *)
(* (fully_async_rollouter.py:52-53).                                        *)
THEOREM ServingImplementsGeneration ==
  ASSUME EnginePauses, PartialRollout
  PROVE  Spec => ImplementsGeneration
<1>1. Init => Promise!GenInit
  <2> SUFFICES ASSUME Init PROVE Promise!GenInit
    OBVIOUS
  <2>1. \A r \in Request : /\ turn[r].pc = "idle" /\ turn[r].stop = "none"
                           /\ turn[r].first = -1 /\ turn[r].last = -1
                           /\ turn[r].stray = FALSE
    BY DEF Init, NoTurn, NoVersion
  <2> QED BY <2>1 DEF Init, Promise!GenInit
<1>2. ServingInv /\ PromiseInv /\ [Next]_vars => [Promise!GenNext]_(Promise!genVars)
  <2> SUFFICES ASSUME ServingInv, PromiseInv, [Next]_vars
               PROVE  Promise!GenNext \/ UNCHANGED Promise!genVars
    OBVIOUS
  <2>1. UNCHANGED <<States, Firsts, Lasts, HeldUp, version>> => UNCHANGED Promise!genVars
    BY DEF Promise!genVars, States, Firsts, Lasts, HeldUp
  <2>2. UNCHANGED <<turn, version>> => UNCHANGED Promise!genVars
    BY DEF Promise!genVars
  <2>3. ASSUME NEW r \in Request, CallServer(r) \/ Engine(r) \/ Release(r)
        PROVE  Promise!GenNext \/ UNCHANGED Promise!genVars
    <3>1. Release(r) => UNCHANGED <<turn, version>>
      BY DEF Release, training
    <3> QED BY <2>1, <2>2, <2>3, <3>1, CallServerSeen, EngineSeen DEF Promise!GenNext
  <2>4. ASSUME NEW s \in Server, Replica(s)
        PROVE  Promise!GenNext \/ UNCHANGED Promise!genVars
    <3>1. Drain(s) \/ Transfer(s) \/ SetGlobalSteps(s) \/ ResumeGeneration(s)
            => UNCHANGED <<turn, version>>
      BY DEF Drain, Transfer, SetGlobalSteps, ResumeGeneration, Answered
    <3> QED BY <2>1, <2>2, <2>4, <3>1, AbortSeen, SleepSeen DEF Replica, Promise!GenNext
  <2>5. StartSync => Promise!Publish
    BY DEF StartSync, Promise!Publish
  <2>6. Validation \/ Terminated \/ UNCHANGED vars => UNCHANGED <<turn, version>>
    BY DEF Validation, AddReplicas, RemoveReplicas, DoValidate, Answered, Terminated, vars,
           training
  <2> QED BY <2>2, <2>3, <2>4, <2>5, <2>6 DEF Next, Promise!GenNext
<1>3. ServingInv /\ PromiseInv /\ [Next]_vars => PromiseInv'
  BY ToldKept
<1> QED BY <1>1, <1>2, <1>3, InitTold, ServersKept, PTL
        DEF Spec, ImplementsGeneration, Promise!GenSpec
-----------------------------------------------------------------------------
(***************************************************************************)
(* Types: the versions are those there have been, and a request resumed    *)
(* after an interruption has tokens left to ask for.                       *)
(***************************************************************************)
Label == Version \cup {NoVersion}
Weights == Version \cup {Released}

(* What record t has received and is being made is less than its budget:    *)
(* the engine stops with a last token still to make.                        *)
Spent(t) == t.got + t.fresh < ResponseLength + Slack

(* The versions of a record are versions, or none. *)
Versions(t) ==
  /\ t.lo \in Label /\ t.first \in Label /\ t.last \in Label
  /\ t.now \subseteq Weights /\ t.used \subseteq Weights

BudgetInv ==
  /\ \A r \in Request : Spent(turn[r]) /\ Versions(turn[r])
  /\ \A s \in Server : weights[s] \in Weights /\ label[s] \in Label

(* A further token leaves one to make. *)
LEMMA TokenBudget ==
  ASSUME NEW t \in TurnType, Versions(t), NEW s \in Server, weights[s] \in Weights
  PROVE  /\ Versions(WithToken(t, s)) /\ WithToken(t, s) \in TurnType
         /\ t.fresh + 1 < Budget(t) => Spent(WithToken(t, s))
<1>1. weights[s] \in Int
  BY ServingAssumption DEF Weights, Version, Released
<1>2. /\ WithToken(t, s) \in TurnType /\ WithToken(t, s).now = t.now \cup {weights[s]}
      /\ WithToken(t, s).used = t.used /\ WithToken(t, s).lo = t.lo
      /\ WithToken(t, s).first = t.first /\ WithToken(t, s).last = t.last
  BY <1>1, TokenType
<1>3. Versions(WithToken(t, s))
  BY <1>2 DEF Versions
<1>4. WithToken(t, s).got = t.got /\ WithToken(t, s).fresh = t.fresh + 1
  BY DEF WithToken, TurnType
<1>5. ASSUME t.fresh + 1 < Budget(t) PROVE t.got + (t.fresh + 1) < ResponseLength + Slack
  <2> DEFINE left == Slack + ResponseLength - t.got
  <2>1. t.got \in Nat /\ t.fresh \in Nat
    BY DEF TurnType
  <2>2. ResponseLength \in Nat /\ Slack \in Nat
    BY ServingAssumption
  <2>3. Budget(t) = left \/ (Budget(t) = ResponseLength /\ ResponseLength <= left)
    BY <2>1, <2>2 DEF Budget
  <2> QED BY <1>5, <2>1, <2>2, <2>3
<1> QED BY <1>2, <1>3, <1>4, <1>5 DEF Spent

(* The tokens of an answer are got, forgotten or lost. *)
LEMMA MergedBudget ==
  ASSUME NEW t \in TurnType, Versions(t), NEW stop \in {"completed", "aborted"},
         NEW l \in Label, NEW lost \in BOOLEAN,
         Spent(t) \/ EndsTurn(stop)
  PROVE  Spent(Merged(t, stop, l, lost)) /\ Versions(Merged(t, stop, l, lost))
<1> DEFINE u == Merged(t, stop, l, lost)
           v == IF lost THEN NoVersion ELSE l
           lo == IF t.lo = NoVersion THEN v ELSE t.lo
<1>1. l \in Int /\ NoVersion \in Label
  BY ServingAssumption DEF Label, Version, NoVersion
<1>2. MergedIs(u, t, stop, l, lost)
  BY <1>1, MergedFields
<1>3. Versions(u)
  <2>1. v \in Label /\ lo \in Label
    BY <1>1 DEF Versions
  <2>2. /\ u.now = {} /\ u.used = IF lost THEN t.used ELSE t.used \cup t.now
        /\ u.lo = NoVersion \/ u.lo = lo
        /\ u.first = lo \/ u.first = t.first
        /\ u.last = v \/ u.last = t.last
    <3> HIDE DEF u
    <3> QED BY <1>2 DEF MergedIs
  <2> HIDE DEF u, v, lo
  <2> QED BY <1>1, <2>1, <2>2 DEF Versions
<1>4. Spent(u)
  <2> DEFINE first == IF t.no = 1 THEN lo ELSE t.first
             last == IF t.no = 1 \/ v > 0 THEN v ELSE t.last
             answer == [t EXCEPT !.fresh = 0, !.now = {},
                                 !.used = IF lost THEN t.used ELSE t.used \cup t.now]
             got == IF lost THEN t.got ELSE t.got + t.fresh
  <2>1. t.got \in Nat /\ t.fresh \in Nat /\ ResponseLength + Slack > 0
        /\ ResponseLength + Slack \in Nat
    BY ServingAssumption DEF TurnType
  <2>2. answer \in TurnType /\ answer.fresh = 0
    BY DEF TurnType
  <2>3. u = IF EndsTurn(stop)
            THEN [answer EXCEPT !.pc = "idle", !.stop = stop, !.got = 0, !.lo = NoVersion,
                                !.first = first, !.last = last]
            ELSE [answer EXCEPT !.pc = "resting", !.lo = lo, !.got = got]
    BY DEF Merged, TurnType
  <2> HIDE DEF u, first, last, answer, lo, got
  <2>4. u.fresh = 0 /\ u.got = IF EndsTurn(stop) THEN 0 ELSE got
    BY <2>2, <2>3 DEF TurnType
  <2> QED BY <2>1, <2>4 DEF Spent, got
<1> QED BY <1>3, <1>4

(* Nothing has been made, and every version is 0 or none. *)
LEMMA InitBudget == Init => BudgetInv
<1> SUFFICES ASSUME Init PROVE BudgetInv
  OBVIOUS
<1>1. 0 \in Weights /\ 0 \in Label /\ Released \in Weights /\ NoVersion \in Label
  BY ServingAssumption DEF Weights, Label, Version
<1>2. Spent(NoTurn) /\ Versions(NoTurn)
  BY <1>1, ServingAssumption DEF Spent, Versions, NoTurn
<1> QED BY <1>1, <1>2 DEF Init, BudgetInv

(* A step of a conversation: its new record is u. *)
LEMMA OneBudget ==
  ASSUME BudgetInv, NEW r \in Request, NEW u, Spent(u), Versions(u),
         turn \in [Request -> TurnType], turn' = [turn EXCEPT ![r] = u], UNCHANGED engines
  PROVE  BudgetInv'
<1>1. \A q \in Request : turn'[q] = IF q = r THEN u ELSE turn[q]
  OBVIOUS
<1> QED BY <1>1 DEF BudgetInv, engines, Spent, Versions

(* A token is made with one left to make; the others make none.             *)
LEMMA BudgetStep == ServingInv /\ BudgetInv /\ [Next]_vars => BudgetInv'
<1> SUFFICES ASSUME ServingInv, BudgetInv, [Next]_vars PROVE BudgetInv'
  OBVIOUS
<1>1. ConversationTypes
  BY DEF ServingInv
<1>2. turn \in [Request -> TurnType]
  BY <1>1 DEF ConversationTypes
<1>3. ASSUME UNCHANGED <<turn, weights, label>> PROVE BudgetInv'
  BY <1>3 DEF BudgetInv, Spent, Versions
<1>4. ASSUME NEW r \in Request, CallServer(r) PROVE BudgetInv'
  <2> DEFINE t == turn[r]
             u == [t EXCEPT !.pc = "sent", !.no = t.no + (IF t.pc = "idle" THEN 1 ELSE 0)]
  <2>1. turn' = [turn EXCEPT ![r] = u] /\ UNCHANGED engines
    BY <1>4 DEF CallServer
  <2>2. t \in TurnType /\ Spent(t) /\ Versions(t)
    BY <1>2 DEF BudgetInv
  <2>3. /\ u.got = t.got /\ u.fresh = t.fresh /\ u.lo = t.lo /\ u.first = t.first
        /\ u.last = t.last /\ u.now = t.now /\ u.used = t.used
    <3> HIDE DEF t
    <3> QED BY <2>2 DEF TurnType
  <2> HIDE DEF u, t
  <2>4. Spent(u) /\ Versions(u)
    BY <2>2, <2>3 DEF Spent, Versions
  <2> QED BY <1>2, <2>1, <2>4, OneBudget
<1>5. ASSUME NEW r \in Request, Engine(r) PROVE BudgetInv'
  <2> DEFINE t == turn[r]
             s == ticket[r]
  <2>1. /\ UNCHANGED engines /\ t.pc \in {"sent", "running"}
    BY <1>5 DEF Engine, EnterEngine, GenerateToken, FinishTurn
  <2>2. /\ t \in TurnType /\ Spent(t) /\ Versions(t)
        /\ s \in Server /\ weights[s] \in Weights /\ label[s] \in Label
    BY <1>1, <1>2, <2>1 DEF BudgetInv, ConversationTypes
  <2>3. CASE EnterEngine(r)
    <3> DEFINE u == [t EXCEPT !.pc = "running"]
    <3>1. turn' = [turn EXCEPT ![r] = u]
      BY <1>2, <2>3 DEF EnterEngine
    <3>2. /\ u.got = t.got /\ u.fresh = t.fresh /\ u.lo = t.lo /\ u.first = t.first
          /\ u.last = t.last /\ u.now = t.now /\ u.used = t.used
      <4> HIDE DEF t
      <4> QED BY <2>2 DEF TurnType
    <3> HIDE DEF u, t
    <3>3. Spent(u) /\ Versions(u)
      BY <2>2, <3>2 DEF Spent, Versions
    <3> QED BY <1>2, <2>1, <3>1, <3>3, OneBudget
  <2>4. CASE GenerateToken(r)
    <3> DEFINE u == WithToken(t, s)
    <3>1. turn' = [turn EXCEPT ![r] = u] /\ t.fresh + 1 < Budget(t)
      BY <1>2, <2>4 DEF GenerateToken
    <3>2. Spent(u) /\ Versions(u)
      BY <2>2, <3>1, TokenBudget
    <3> HIDE DEF u, t, s
    <3> QED BY <1>2, <2>1, <3>1, <3>2, OneBudget
  <2>5. CASE FinishTurn(r)
    <3> DEFINE w == WithToken(t, s)
               u == Merged(w, "completed", label[s], FALSE)
    <3>1. turn' = [turn EXCEPT ![r] = u]
      BY <1>2, <2>5 DEF FinishTurn
    <3>2. w \in TurnType /\ Versions(w)
      BY <2>2, TokenBudget
    <3>3. EndsTurn("completed")
      BY DEF EndsTurn
    <3> HIDE DEF w
    <3>4. Spent(u) /\ Versions(u)
      BY <2>2, <3>2, <3>3, MergedBudget
    <3> HIDE DEF u
    <3> QED BY <1>2, <2>1, <3>1, <3>4, OneBudget
  <2> QED BY <1>5, <2>3, <2>4, <2>5 DEF Engine
<1>6. ASSUME NEW r \in Request, Release(r) PROVE BudgetInv'
  BY <1>3, <1>6 DEF Release, engines
<1>7. ASSUME NEW s \in Server, AbortAllRequests(s) PROVE BudgetInv'
  <2>1. PICK lost \in SUBSET Running(s) :
          turn' = [r \in Request |->
                     IF r \in Running(s)
                     THEN Merged(turn[r], "aborted", label[s], r \in lost)
                     ELSE turn[r]]
    BY <1>7 DEF AbortAllRequests
  <2>2. UNCHANGED <<weights, label>>
    BY <1>7 DEF AbortAllRequests
  <2>3. ASSUME NEW r \in Request PROVE Spent(turn'[r]) /\ Versions(turn'[r])
    <3>1. turn[r] \in TurnType /\ Spent(turn[r]) /\ Versions(turn[r]) /\ label[s] \in Label
      BY <1>2 DEF BudgetInv
    <3>2. CASE r \in Running(s)
      <4>1. (r \in lost) \in BOOLEAN
        OBVIOUS
      <4>2. /\ Spent(Merged(turn[r], "aborted", label[s], r \in lost))
            /\ Versions(Merged(turn[r], "aborted", label[s], r \in lost))
        BY <3>1, <4>1, MergedBudget
      <4> QED BY <2>1, <3>2, <4>2
    <3>3. CASE r \notin Running(s)
      BY <2>1, <3>1, <3>3
    <3> QED BY <3>2, <3>3
  <2> QED BY <2>2, <2>3 DEF BudgetInv, Spent, Versions
<1>8. ASSUME NEW s \in Server, Sleep(s) PROVE BudgetInv'
  <2>1. /\ turn' = [r \in Request |->
                      IF turn[r].pc \in {"sent", "running"} /\ ticket[r] = s
                      THEN [turn[r] EXCEPT !.stray = TRUE] ELSE turn[r]]
        /\ weights' = [weights EXCEPT ![s] = Released] /\ label' = label
    BY <1>8 DEF Sleep
  <2>2. ASSUME NEW r \in Request PROVE Spent(turn'[r]) /\ Versions(turn'[r])
    <3> DEFINE t == turn[r]
               u == [t EXCEPT !.stray = TRUE]
    <3>1. t \in TurnType /\ Spent(t) /\ Versions(t)
      BY <1>2 DEF BudgetInv
    <3>2. turn'[r] = u \/ turn'[r] = t
      BY <2>1
    <3>3. /\ u.got = t.got /\ u.fresh = t.fresh /\ u.lo = t.lo /\ u.first = t.first
          /\ u.last = t.last /\ u.now = t.now /\ u.used = t.used
      <4> HIDE DEF t
      <4> QED BY <3>1 DEF TurnType
    <3> HIDE DEF u, t
    <3>4. Spent(u) /\ Versions(u)
      BY <3>1, <3>3 DEF Spent, Versions
    <3> QED BY <3>1, <3>2, <3>4
  <2>3. Released \in Weights /\ weights \in [Server -> Int]
    BY <1>1 DEF Weights, ConversationTypes
  <2> QED BY <2>1, <2>2, <2>3 DEF BudgetInv, Spent, Versions
<1>9. ASSUME NEW s \in Server, Transfer(s) \/ SetGlobalSteps(s) PROVE BudgetInv'
  <2>1. version \in Weights /\ version \in Label
    BY DEF ServingInv, ServersAt, Weights, Label
  <2>2. /\ turn' = turn
        /\ weights' = [weights EXCEPT ![s] = version] \/ weights' = weights
        /\ label' = [label EXCEPT ![s] = version] \/ label' = label
    BY <1>9 DEF Transfer, SetGlobalSteps
  <2>3. weights \in [Server -> Int] /\ label \in [Server -> Int]
    BY <1>1 DEF ConversationTypes
  <2>4. \A q \in Server : weights'[q] \in Weights /\ label'[q] \in Label
    BY <2>1, <2>2, <2>3 DEF BudgetInv
  <2> QED BY <2>2, <2>4 DEF BudgetInv, Spent, Versions
<1>10. ASSUME NEW s \in Server, Drain(s) \/ ResumeGeneration(s) PROVE BudgetInv'
  BY <1>3, <1>10 DEF Drain, ResumeGeneration, engines
<1>11. CASE StartSync \/ Validation \/ Terminated \/ UNCHANGED vars
  BY <1>3, <1>11 DEF StartSync, Validation, AddReplicas, RemoveReplicas, DoValidate,
     Terminated, engines, vars
<1> QED BY <1>4, <1>5, <1>6, <1>7, <1>8, <1>9, <1>10, <1>11 DEF Next, Replica

(* Types of serving for any number of servers, conversations and versions:  *)
(* besides those of the balancer, no conversation ever has more tokens than *)
(* its budget, however often it is interrupted and resumed, so a resumed    *)
(* request asks for at least one (vllm_async_server.py, generate).          *)
THEOREM ServingTypeCorrect == Spec => []ServingTypeOK
<1>1. LBTypeOK /\ ServingInv /\ BudgetInv => ServingTypeOK
  <2> SUFFICES ASSUME LBTypeOK, ServingInv, BudgetInv PROVE ServingTypeOK
    OBVIOUS
  <2> DEFINE T == [pc : {"idle", "sent", "running", "resting"}, no : Nat,
                   got : 0 .. ResponseLength + Slack, fresh : 0 .. ResponseLength + Slack,
                   lo : Version \cup {NoVersion},
                   stop : {"none", "completed", "aborted"},
                   first : Version \cup {NoVersion}, last : Version \cup {NoVersion},
                   now : SUBSET (Version \cup {Released}),
                   used : SUBSET (Version \cup {Released}), stray : BOOLEAN]
  <2>1. ConversationTypes
    BY DEF ServingInv
  <2>2. ASSUME NEW r \in Request PROVE turn[r] \in T
    <3> DEFINE t == turn[r]
    <3>1. t \in TurnType /\ Spent(t) /\ Versions(t)
      BY <2>1 DEF ConversationTypes, BudgetInv
    <3> HIDE DEF t
    <3>2. t.got \in Nat /\ t.fresh \in Nat /\ ResponseLength + Slack \in Nat
      BY <3>1, ServingAssumption DEF TurnType
    <3>3. t.got \in 0 .. ResponseLength + Slack /\ t.fresh \in 0 .. ResponseLength + Slack
      BY <3>1, <3>2 DEF Spent
    <3>4. t \in T
      BY <3>1, <3>3 DEF TurnType, Versions, Label, Weights
    <3> QED BY <3>4 DEF t
  <2>3. turn \in [Request -> T]
    BY <2>1, <2>2 DEF ConversationTypes
  <2>4. weights \in [Server -> Version \cup {Released}]
        /\ label \in [Server -> Version \cup {NoVersion}] /\ paused \in SUBSET Server
    BY <2>1 DEF ConversationTypes, BudgetInv, Weights, Label
  <2>5. PICK n \in 1 .. Outside : ServersAt(n)
    BY DEF ServingInv
  <2>6. version \in Version /\ Position(n)
    BY <2>5 DEF ServersAt
  <2>7. todo \subseteq Server
    <3>1. CASE n = Outside
      BY <2>6, <3>1 DEF Position
    <3>2. CASE n # Outside
      <4>1. n \in 1 .. 20 /\ todo \subseteq Whole[n].on
        BY <2>6, <3>2 DEF Position, Outside
      <4>2. \A calls \in Seq(CallType) : \A i \in 1 .. Len(calls) : calls[i] \in CallType
        BY ElementOfSeq
      <4>3. Whole \in Seq(CallType) /\ n \in 1 .. Len(Whole)
        BY <4>1, Lists
      <4>4. Whole[n] \in CallType
        BY <4>2, <4>3, Zenon
      <4> QED BY <4>1, <4>4 DEF CallType
    <3> QED BY <3>1, <3>2
  <2> QED BY <2>3, <2>4, <2>6, <2>7 DEF ServingTypeOK
<1>2. Spec => []LBTypeOK
  BY ServingUsesBalancer, BalancerTypeCorrect, PTL
<1>3. Spec => []BudgetInv
  BY InitBudget, BudgetStep, ServersKept, PTL DEF Spec
<1> QED BY <1>1, <1>2, <1>3, ServersKept, PTL
=============================================================================
