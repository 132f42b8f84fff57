----------------------------- MODULE Generation -----------------------------
(***************************************************************************)
(* What an agent loop of verl/experimental/fully_async_policy may count on *)
(* when it calls generate: a turn is answered once and as completed, never *)
(* as interrupted, and the sample carries the range of versions that made  *)
(* it, the newest at most one behind the trainer when the turn is          *)
(* answered, unless it was held up.  Servers, routing, interruptions and   *)
(* retries do not appear.                                                  *)
(***************************************************************************)
EXTENDS Integers

CONSTANT Request

VARIABLES
  state,    (* of the current turn of each conversation                      *)
  first,    (* min_global_steps of the conversation                          *)
  last,     (* max_global_steps of the conversation                          *)
  newest,   (* the trainer's version                                         *)
  held      (* conversations that have been held up: their server slept      *)

genVars == <<state, first, last, newest, held>>

GenInit ==
  /\ state = [r \in Request |-> "none"]
  /\ first = [r \in Request |-> -1]
  /\ last = [r \in Request |-> -1]
  /\ newest = 0
  /\ held = {}

Ask(r) ==
  /\ state[r] \in {"none", "completed"}
  /\ state' = [state EXCEPT ![r] = "asked"]
  /\ UNCHANGED <<first, last, newest, held>>

(* The range starts with the first answer and never shrinks. *)
Answer(r) ==
  /\ state[r] = "asked"
  /\ state' = [state EXCEPT ![r] = "completed"]
  /\ \E lo \in 0 .. newest, hi \in 0 .. newest :
       /\ lo <= hi /\ last[r] <= hi
       /\ r \notin held => hi >= newest - 1
       /\ first' = [first EXCEPT ![r] = IF @ = -1 THEN lo ELSE @]
       /\ last' = [last EXCEPT ![r] = hi]
  /\ UNCHANGED <<newest, held>>

Publish ==
  /\ newest' = newest + 1
  /\ UNCHANGED <<state, first, last, held>>

(* What is asked of a server is held up while that sleeps. *)
HoldUp ==
  /\ \E asked \in SUBSET {r \in Request : state[r] = "asked"} : held' = held \cup asked
  /\ UNCHANGED <<state, first, last, newest>>

GenNext == Publish \/ HoldUp \/ \E r \in Request : Ask(r) \/ Answer(r)

GenSpec == GenInit /\ [][GenNext]_genVars
=============================================================================
