--------------------------- MODULE MCLoadBalancer ---------------------------
(* The load balancer with the history its sticky sessions are judged by. *)
EXTENDS LoadBalancer

VARIABLES
  home,     (* the server each request acquired last                         *)
  recent    (* all requests, by their last acquisition, most recent last     *)

Acquired(r, s) == ticket[r] = NoServer /\ ticket'[r] = s /\ s # NoServer

MCInit ==
  /\ LBInit
  /\ home = [r \in Request |-> NoServer]
  /\ recent = <<>>

MCNext ==
  /\ LBNext
  /\ home' = [r \in Request |-> IF ticket[r] = NoServer
                                THEN IF ticket'[r] = NoServer THEN home[r]
                                     ELSE ticket'[r]
                                ELSE home[r]]
  /\ recent' = IF \E r \in Request : Acquired(r, ticket'[r])
               THEN LET r == CHOOSE x \in Request : Acquired(x, ticket'[x])
                    IN  Append(RemoveFirst(recent, r), r)
               ELSE recent

MCSpec == MCInit /\ [][MCNext]_<<lbVars, home, recent>>

(* The requests acquired since r was, r included. *)
Since(r) == {x \in Request : \E i, j \in DOMAIN recent :
                               recent[i] = r /\ recent[j] = x /\ i <= j}

(* Sticky sessions: as long as its last server is in the pool, and no more  *)
(* requests than the cache holds have been routed since, a conversation     *)
(* goes back to its server, also if the server has been away meanwhile      *)
(* (lines 75-89 of llm_server.py).                                          *)
StickySession ==
  [][\A r \in Request, s \in Server :
       Acquired(r, s) /\ home[r] \in pool /\ Cardinality(Since(r)) <= CacheSize
         => s = home[r]]_<<lbVars, home, recent>>
=============================================================================
