---------------------------- MODULE LoadBalancer ----------------------------
(***************************************************************************)
(* The Ray actor that routes generation requests to inference servers      *)
(* (verl/workers/rollout/llm_server.py, GlobalRequestLoadBalancer): a pool *)
(* of servers with a count of requests in flight each, and an LRU cache of *)
(* sticky sessions.  Standalone servers are in the pool for ever; hybrid   *)
(* servers, which share GPUs with the trainer, are added for a validation  *)
(* and removed after it.  The actor runs one method at a time.             *)
(***************************************************************************)
EXTENDS Integers, Sequences, SequencesExt, FiniteSets

CONSTANTS
  NumStandalone,   (* servers with GPUs of their own                         *)
  NumHybrid,       (* servers that share the trainer's GPUs                  *)
  Request,         (* request_ids, one per conversation                      *)
  CacheSize        (* max_cache_size of the sticky sessions                  *)

ASSUME LBAssumption ==
  /\ NumStandalone \in Nat \ {0}
  /\ NumHybrid \in Nat
  /\ IsFiniteSet(Request)
  /\ CacheSize \in Nat \ {0}

(* A server is known by its replica_rank: hybrid replicas come first. *)
Hybrid == 0 .. NumHybrid - 1
Standalone == NumHybrid .. NumHybrid + NumStandalone - 1
Server == Hybrid \cup Standalone
NoServer == -1

VARIABLES
  pool,       (* keys of self._inflight_requests (and of self._servers)      *)
  inflight,   (* self._inflight_requests; 0 outside the pool                 *)
  route,      (* self._request_id_to_server: the cached server, or NoServer  *)
  lru,        (* the order of that cache, least recently used first          *)
  ticket      (* which acquired server a request has not yet released here   *)

lbVars == <<pool, inflight, route, lru, ticket>>

LBInit ==
  /\ pool = Standalone
  /\ inflight = [s \in Server |-> 0]
  /\ route = [r \in Request |-> NoServer]
  /\ lru = <<>>
  /\ ticket = [r \in Request |-> NoServer]

(* The order in which a dict iterates over the pool: standalone servers are *)
(* inserted at the start, hybrid ones appended, each time, by rank.         *)
Before(s, t) ==
  IF (s \in Hybrid) = (t \in Hybrid) THEN s < t ELSE t \in Hybrid

(* min(self._inflight_requests, key=...): the first of the least loaded. *)
LeastLoaded(s) ==
  \A t \in pool \ {s} :
    inflight[s] < inflight[t] \/ (inflight[s] = inflight[t] /\ Before(s, t))

Selected(r, s) ==
  /\ s \in pool
  /\ route[r] \in pool => s = route[r]
  /\ route[r] \notin pool => LeastLoaded(s)

(* fault: a full cache evicts the entry that was used last *)
RememberFaulty(r, s) ==
  LET others == RemoveFirst(lru, r)
      full == Len(others) = CacheSize
  IN  /\ lru' = Append(IF full THEN Front(others) ELSE others, r)
      /\ route' = [x \in Request |->
                     IF x = r THEN s
                     ELSE IF full /\ x = Last(others) THEN NoServer
                     ELSE route[x]]

(* The cache entry becomes the most recently used one; a new entry in a     *)
(* full cache evicts the least recently used one.  An entry of a removed    *)
(* server is deleted first, so it makes room for its own replacement.       *)
Remember(r, s) ==
  LET others == RemoveFirst(lru, r)
      full == Len(others) = CacheSize
  IN  /\ lru' = Append(IF full THEN Tail(others) ELSE others, r)
      /\ route' = [x \in Request |->
                     IF x = r THEN s
                     ELSE IF full /\ x = Head(others) THEN NoServer
                     ELSE route[x]]

AcquireServer(r, s) ==
  /\ ticket[r] = NoServer
  /\ Selected(r, s)
  /\ Remember(r, s)
  /\ inflight' = [inflight EXCEPT ![s] = @ + 1]
  /\ ticket' = [ticket EXCEPT ![r] = s]
  /\ UNCHANGED pool

(* fault: the server to release is looked up in the sticky sessions *)
ReleaseByRoute(r) ==
  /\ ticket[r] # NoServer
  /\ inflight' = [s \in Server |->
                    IF s \in pool /\ s = route[r] /\ inflight[s] > 0
                    THEN inflight[s] - 1 ELSE inflight[s]]
  /\ ticket' = [ticket EXCEPT ![r] = NoServer]
  /\ UNCHANGED <<pool, route, lru>>

(* release_server, when it arrives: it was sent without waiting. *)
ReleaseServer(r) ==
  /\ ticket[r] # NoServer
  /\ inflight' = [inflight EXCEPT ![ticket[r]] =
                    IF ticket[r] \in pool /\ @ > 0 THEN @ - 1 ELSE @]
  /\ ticket' = [ticket EXCEPT ![r] = NoServer]
  /\ UNCHANGED <<pool, route, lru>>

(* The manager filters what is already active, and the trainer adds and     *)
(* removes all hybrid replicas together.                                    *)
AddServers ==
  /\ inflight' = [s \in Server |-> IF s \in Hybrid \ pool THEN 0
                                   ELSE inflight[s]]
  /\ pool' = pool \cup Hybrid
  /\ UNCHANGED <<route, lru, ticket>>

RemoveServers ==
  /\ pool' = pool \ Hybrid
  /\ inflight' = [s \in Server |-> IF s \in Hybrid THEN 0 ELSE inflight[s]]
  /\ UNCHANGED <<route, lru, ticket>>

LBNext ==
  \/ \E r \in Request, s \in Server : AcquireServer(r, s)
  \/ \E r \in Request : ReleaseServer(r)
  \/ AddServers
  \/ RemoveServers

LBSpec == LBInit /\ [][LBNext]_lbVars

-----------------------------------------------------------------------------
(* The requests that hold server s: acquired, and not yet released. *)
Holders(s) == {r \in Request : ticket[r] = s}

LBTypeOK ==
  /\ pool \in SUBSET Server /\ Standalone \subseteq pool
  /\ inflight \in [Server -> Nat]
  /\ route \in [Request -> Server \cup {NoServer}]
  /\ ticket \in [Request -> Server \cup {NoServer}]
  /\ {lru[i] : i \in DOMAIN lru} = {r \in Request : route[r] # NoServer}
  /\ Len(lru) = Cardinality({r \in Request : route[r] # NoServer})
  /\ Len(lru) <= CacheSize

(* The balancer never takes a server for busier than it is, whatever the    *)
(* order of releases, removals and additions, and for a standalone server   *)
(* its count is exact: the guard of line 97 of llm_server.py is never the   *)
(* one that hides a release (lines 68-98, 111-126).                         *)
NeverOvercounts ==
  /\ \A s \in pool : inflight[s] <= Cardinality(Holders(s))
  /\ \A s \in Standalone : inflight[s] = Cardinality(Holders(s))
=============================================================================
