----------------------------- MODULE RewardLimits -----------------------------
(***************************************************************************)
(* RateLimitedRewardManager and AsyncTokenBucket                           *)
(* (verl/experimental/reward_loop/reward_manager/limited.py): concurrent   *)
(* run_single calls pass the request limiter, the token limiter and the    *)
(* semaphore, then wait for compute_score with a timeout.  A synchronous   *)
(* compute_score runs in a thread of the default executor, as does the     *)
(* decoding.  Time is counted in ticks and kept as what is left of a sleep *)
(* and what has passed since a refill; whoever is woken may be late.       *)
(***************************************************************************)
EXTENDS Integers, FiniteSets, FiniteSetsExt

CONSTANTS
  Request,        (* the items of the batches whose rewards are asked        *)
  Rate,           (* [Layer -> rate_limit, tokens of a tick]                 *)
  Capacity,       (* [Layer -> max_tokens]                                   *)
  Need,           (* [Layer -> tokens one request takes]                     *)
  MaxConcurrent,  (* max_concurrent                                          *)
  Timeout,        (* timeout, in ticks                                       *)
  Workers,        (* threads of the default executor                         *)
  Horizon         (* bound of the model: where the clock of NeverAheadOfRate *)
                  (* stops                                                   *)

Layer == {"rpm", "tpm"}
InDebt == [rpm |-> "rpm_debt", tpm |-> "tpm_debt"]

ASSUME RewardLimitsAssumption ==
  /\ IsFiniteSet(Request)
  /\ {MaxConcurrent, Timeout, Workers} \subseteq Nat \ {0}
  /\ Horizon \in Nat
  /\ {Rate, Capacity, Need} \subseteq [Layer -> Nat \ {0}]

VARIABLES
  clock,        (* ticks since the start, no more than Horizon: read by no   *)
                (* action                                                    *)
  threaded,     (* compute_score is synchronous                              *)
  tokens,       (* [Layer -> balance, negative when requests larger than the *)
                (* bucket are waiting]                                       *)
  elapsed,      (* [Layer -> ticks since last_update]                        *)
  at,           (* where each run_single is                                  *)
  sleep,        (* [Request -> ticks it has still to sleep]                  *)
  patience,     (* [Request -> ticks its wait_for has still to wait]         *)
  calls,        (* requests whose compute_score is running                   *)
  answers       (* [Request -> number of results returned]                   *)

bucket == <<tokens, elapsed>>
call == <<sleep, patience, calls, answers>>
vars == <<clock, threaded, bucket, at, call>>

Init ==
  /\ clock = 0
  /\ threaded \in BOOLEAN
  /\ tokens = Capacity
  /\ elapsed = [l \in Layer |-> 0]
  /\ at = [r \in Request |-> "decode"]
  /\ sleep = [r \in Request |-> 0]
  /\ patience = [r \in Request |-> 0]
  /\ calls = {}
  /\ answers = [r \in Request |-> 0]

Goto(r, place) == at' = [at EXCEPT ![r] = place]

(* A thread is busy as long as its compute_score runs, timed out or not. *)
WorkerFree == ~threaded \/ Cardinality(calls) < Workers

Decode(r) ==
  /\ at[r] = "decode"
  /\ WorkerFree
  /\ Goto(r, "rpm")
  /\ UNCHANGED <<clock, threaded, bucket, call>>

-----------------------------------------------------------------------------
(* AsyncTokenBucket.acquire: between two awaits it runs alone.               *)
NextLayer(l) == IF l = "rpm" THEN "tpm" ELSE "semaphore"
CeilDiv(a, b) == (a + b - 1) \div b

Refilled(l) == Min({Capacity[l], tokens[l] + elapsed[l] * Rate[l]})

NoteTimeFaulty(l) == UNCHANGED elapsed   (* fault: refilled twice *)
NoteTime(l) == elapsed' = [elapsed EXCEPT ![l] = 0]

Sleep(r, ticks) == sleep' = [sleep EXCEPT ![r] = ticks]
Awake(r) == sleep[r] = 0

(* A request of at most the capacity takes its tokens or sleeps and retries. *)
TakeOrSleep(r, l) ==
  /\ at[r] = l
  /\ Need[l] <= Capacity[l]
  /\ Awake(r)
  /\ NoteTime(l)
  /\ IF Refilled(l) >= Need[l]
     THEN /\ tokens' = [tokens EXCEPT ![l] = Refilled(l) - Need[l]]
          /\ Goto(r, NextLayer(l))
          /\ UNCHANGED sleep
     ELSE /\ tokens' = [tokens EXCEPT ![l] = Refilled(l)]
          /\ Sleep(r, CeilDiv(Need[l] - Refilled(l), Rate[l]))
          /\ UNCHANGED at
  /\ UNCHANGED <<clock, threaded, patience, calls, answers>>

(* A larger one takes them at once, into debt, and sleeps the debt off.      *)
TakeInDebt(r, l) ==
  /\ at[r] = l
  /\ Need[l] > Capacity[l]
  /\ tokens' = [tokens EXCEPT ![l] = Refilled(l) - Need[l]]
  /\ NoteTime(l)
  /\ Sleep(r, CeilDiv(Need[l] - Refilled(l), Rate[l]))
  /\ Goto(r, InDebt[l])
  /\ UNCHANGED <<clock, threaded, patience, calls, answers>>
DebtPaid(r, l) ==
  /\ at[r] = InDebt[l]
  /\ Awake(r)
  /\ Goto(r, NextLayer(l))
  /\ UNCHANGED <<clock, threaded, bucket, call>>

-----------------------------------------------------------------------------
Awaiting(r) == at[r] \in {"submitted", "computing"}
HoldersFaulty ==   (* fault: not released on every way out *)
  {r \in Request : Awaiting(r) \/ at[r] = "answered"}
Holders == {r \in Request : Awaiting(r)}

SemaphoreFreeFaulty == Cardinality(Holders) <= MaxConcurrent  (* fault *)
SemaphoreFree == Cardinality(Holders) < MaxConcurrent

(* async with self._semaphore; wait_for starts.                              *)
EnterSemaphore(r) ==
  /\ at[r] = "semaphore"
  /\ SemaphoreFree
  /\ patience' = [patience EXCEPT ![r] = Timeout]
  /\ IF threaded
     THEN Goto(r, "submitted") /\ UNCHANGED calls
     ELSE Goto(r, "computing") /\ calls' = calls \cup {r}
  /\ UNCHANGED <<clock, threaded, bucket, sleep, answers>>

(* A thread of the executor takes the call. *)
WorkerTakes(r) ==
  /\ at[r] = "submitted"
  /\ WorkerFree
  /\ calls' = calls \cup {r}
  /\ Goto(r, "computing")
  /\ UNCHANGED <<clock, threaded, bucket, sleep, patience, answers>>

Answer(r) ==
  /\ Goto(r, "answered")
  /\ answers' = [answers EXCEPT ![r] = @ + 1]

Heard(r) == at[r] = "computing"

(* compute_score returns or raises; after a timeout nobody hears of it.      *)
CallEnds(r) ==
  /\ r \in calls
  /\ calls' = calls \ {r}
  /\ IF Heard(r) THEN Answer(r) ELSE UNCHANGED <<at, answers>>
  /\ UNCHANGED <<clock, threaded, bucket, sleep, patience>>

(* wait_for gives up: a coroutine is cancelled, a call not yet taken is      *)
(* withdrawn, a running thread goes on.                                      *)
TimesOut(r) ==
  /\ Awaiting(r)
  /\ patience[r] = 0
  /\ Answer(r)
  /\ calls' = IF threaded THEN calls ELSE calls \ {r}
  /\ UNCHANGED <<clock, threaded, bucket, sleep, patience>>

(* A bucket full by now needs no longer time.                                *)
Tick ==
  /\ clock' = Min({Horizon, clock + 1})
  /\ sleep' = [r \in Request |-> Max({0, sleep[r] - 1})]
  /\ patience' = [r \in Request |-> Max({0, patience[r] - 1})]
  /\ elapsed' = [l \in Layer |->
                   IF Refilled(l) = Capacity[l] THEN elapsed[l] ELSE elapsed[l] + 1]
  /\ UNCHANGED <<threaded, tokens, at, calls, answers>>

Acquire(r, l) == TakeOrSleep(r, l) \/ TakeInDebt(r, l) \/ DebtPaid(r, l)
Manager(r) == \/ Decode(r) \/ (\E l \in Layer : Acquire(r, l))
              \/ EnterSemaphore(r) \/ TimesOut(r)
Score(r) == WorkerTakes(r) \/ CallEnds(r)

Next == Tick \/ \E r \in Request : Manager(r) \/ Score(r)
Spec == Init /\ [][Next]_vars

(* Time passes, the event loop runs every coroutine; a thread's call returns *)
(* at last.                                                                  *)
Fairness == WF_vars(Tick)
            /\ \A r \in Request : WF_vars(Manager(r)) /\ WF_vars(Score(r))
FairSpec == Spec /\ Fairness
-----------------------------------------------------------------------------
LimitsTypeOK ==
  /\ clock \in 0 .. Horizon
  /\ threaded \in BOOLEAN
  /\ tokens \in [Layer -> Int] /\ \A l \in Layer : tokens[l] <= Capacity[l]
  /\ elapsed \in [Layer -> Nat]
  /\ at \in [Request -> {"decode", "rpm", "tpm", "rpm_debt", "tpm_debt",
                         "semaphore", "submitted", "computing", "answered"}]
  /\ sleep \in [Request -> Nat]
  /\ patience \in [Request -> 0 .. Timeout]
  /\ calls \subseteq Request
  /\ answers \in [Request -> 0 .. 1]

(* What has been let through a layer by now never exceeds what its bucket    *)
(* held at first and what has been refilled since, however the waiters race  *)
(* and also while the balance is negative.                                   *)
Before(l) == {"decode", l, InDebt[l]}
               \cup (IF l = "tpm" THEN {"rpm", "rpm_debt"} ELSE {})
Passed(l) == {r \in Request : at[r] \notin Before(l)}
NeverAheadOfRate ==
  \A l \in Layer : clock < Horizon =>
    Cardinality(Passed(l)) * Need[l] <= Capacity[l] + Rate[l] * clock

(* The semaphore limits the calls whose result is still awaited; the threads  *)
(* of the executor limit all of them, those included which a request gave up  *)
(* after its timeout and nothing stops.                                      *)
Orphans == {r \in calls : at[r] = "answered"}
SimultaneousCalls ==
  /\ Cardinality(calls \ Orphans) <= MaxConcurrent
  /\ IF threaded THEN Cardinality(calls) <= Workers ELSE Orphans = {}

(* Every request is answered for good, with a score or with the zero of an    *)
(* error or a timeout: retries for tokens end, the semaphore is released on  *)
(* every way out, and threads held by orphans come back.                     *)
EveryoneAnswered == <>[](\A r \in Request : answers[r] = 1)
=============================================================================
