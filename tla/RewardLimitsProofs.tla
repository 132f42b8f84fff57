-------------------------- MODULE RewardLimitsProofs --------------------------
(***************************************************************************)
(* For any number of requests, any rates, capacities, needs and timeouts:  *)
(* the type invariant of the rate-limited reward manager, and how many     *)
(* compute_score calls run at once.  The invariant behind it: a running    *)
(* call belongs to a request that still waits for it or was answered by    *)
(* its timeout, and what waits holds the semaphore.  And the rate: at any  *)
(* moment, and for any time ahead, those who have taken their tokens or    *)
(* will have by then fit into the capacity and the rate times the time.    *)
(***************************************************************************)
EXTENDS RewardLimits, FiniteSetTheorems, TLAPS

LInv ==
  /\ LimitsTypeOK
  /\ \A r \in Request : answers[r] = 1 <=> at[r] = "answered"
  /\ \A r \in calls : at[r] = "computing" \/ (threaded /\ at[r] = "answered")
  /\ Cardinality(Holders) <= MaxConcurrent
  /\ threaded => Cardinality(calls) <= Workers

-----------------------------------------------------------------------------
LEMMA MinPair ==
  ASSUME NEW a \in Int, NEW b \in Int
  PROVE  /\ Min({a, b}) \in {a, b}
         /\ Min({a, b}) <= a
         /\ Min({a, b}) <= b
<1>1. \E x \in {a, b} : \A y \in {a, b} : x <= y
  <2>1. CASE a <= b  BY <2>1
  <2>2. CASE ~ (a <= b)  BY <2>2
  <2> QED BY <2>1, <2>2
<1> QED BY <1>1 DEF Min

LEMMA MaxPair ==
  ASSUME NEW a \in Int, NEW b \in Int
  PROVE  /\ Max({a, b}) \in {a, b}
         /\ Max({a, b}) >= a
         /\ Max({a, b}) >= b
<1>1. \E x \in {a, b} : \A y \in {a, b} : x >= y
  <2>1. CASE a >= b  BY <2>1
  <2>2. CASE ~ (a >= b)  BY <2>2
  <2> QED BY <2>1, <2>2
<1> QED BY <1>1 DEF Max

(* What is slept for a missing amount is a number of ticks. *)
LEMMA CeilDivType ==
  ASSUME NEW a \in Nat \ {0}, NEW b \in Nat \ {0}
  PROVE  CeilDiv(a, b) \in Nat
BY DEF CeilDiv

(* A refill leaves no more in the bucket than it can hold. *)
LEMMA RefilledType ==
  ASSUME LimitsTypeOK, NEW l \in Layer
  PROVE  /\ Refilled(l) \in Int
         /\ Refilled(l) <= Capacity[l]
<1>1. Capacity[l] \in Int /\ tokens[l] + elapsed[l] * Rate[l] \in Int
  BY RewardLimitsAssumption DEF LimitsTypeOK
<1> QED BY <1>1, MinPair DEF Refilled

(* The requests are finitely many, so what is counted is a number. *)
LEMMA CountsFinite ==
  \A S \in SUBSET Request : IsFiniteSet(S) /\ Cardinality(S) \in Nat
BY RewardLimitsAssumption, FS_Subset, FS_CardinalityType

-----------------------------------------------------------------------------
(* At first nobody computes and nobody has an answer. *)
LEMMA InitLimits == Init => LInv
<1> SUFFICES ASSUME Init PROVE LInv
  OBVIOUS
<1>1. \A l \in Layer : Capacity[l] \in Int /\ tokens[l] = Capacity[l]
  BY RewardLimitsAssumption DEF Init
<1>2. LimitsTypeOK
  <2>1. tokens \in [Layer -> Int] /\ \A l \in Layer : tokens[l] <= Capacity[l]
    BY <1>1, RewardLimitsAssumption DEF Init
  <2> QED BY <2>1, RewardLimitsAssumption DEF Init, LimitsTypeOK
<1>3. Holders = {} /\ calls = {}
  BY DEF Init, Holders, Awaiting
<1>4. Cardinality(Holders) = 0 /\ Cardinality(calls) = 0
  BY <1>3, FS_EmptySet
<1> QED BY <1>2, <1>3, <1>4, RewardLimitsAssumption DEF LInv, Init

(* Before the semaphore a step moves one request among the places where it  *)
(* neither holds it nor computes.                                           *)
LEMMA MoveKeeps ==
  ASSUME LInv, NEW r \in Request, NEW place,
         ~ Awaiting(r), at[r] # "answered",
         place \in {"decode", "rpm", "tpm", "rpm_debt", "tpm_debt", "semaphore"},
         Goto(r, place), LimitsTypeOK', UNCHANGED <<threaded, calls, answers>>
  PROVE  LInv'
<1>1. at \in [Request -> {"decode", "rpm", "tpm", "rpm_debt", "tpm_debt",
                          "semaphore", "submitted", "computing", "answered"}]
      /\ calls \subseteq Request
  BY DEF LInv, LimitsTypeOK
<1>2. Holders' = Holders
  BY <1>1 DEF Holders, Awaiting, Goto
<1>3. r \notin calls
  BY DEF LInv, Awaiting
<1>4. \A x \in calls' : at'[x] = "computing" \/ (threaded' /\ at'[x] = "answered")
  BY <1>1, <1>3 DEF LInv, Goto
<1>5. \A x \in Request : answers'[x] = 1 <=> at'[x] = "answered"
  BY <1>1 DEF LInv, Goto
<1> QED BY <1>2, <1>4, <1>5 DEF LInv

(* Decoding, and paying off a debt. *)
LEMMA DecodeKeeps ==
  ASSUME LInv, NEW r \in Request, Decode(r)
  PROVE  LInv'
<1>1. LimitsTypeOK'
  BY DEF LInv, LimitsTypeOK, Decode, Goto, bucket, call
<1> QED BY <1>1, MoveKeeps DEF Decode, Awaiting, call

LEMMA DebtPaidKeeps ==
  ASSUME LInv, NEW r \in Request, NEW l \in Layer, DebtPaid(r, l)
  PROVE  LInv'
<1>1. NextLayer(l) \in {"tpm", "semaphore"} /\ at[r] \in {"rpm_debt", "tpm_debt"}
  BY DEF DebtPaid, NextLayer, InDebt, Layer
<1>2. LimitsTypeOK'
  BY <1>1 DEF LInv, LimitsTypeOK, DebtPaid, Goto, bucket, call
<1> QED BY <1>1, <1>2, MoveKeeps DEF DebtPaid, Awaiting, call

(* Taking tokens leaves no more than the bucket can hold, and what is slept *)
(* is a number of ticks.                                                    *)
LEMMA TakeOrSleepKeeps ==
  ASSUME LInv, NEW r \in Request, NEW l \in Layer, TakeOrSleep(r, l)
  PROVE  LInv'
<1>1. Refilled(l) \in Int /\ Refilled(l) <= Capacity[l]
  BY RefilledType DEF LInv
<1>2. Need[l] \in Nat \ {0} /\ Rate[l] \in Nat \ {0} /\ Capacity[l] \in Nat \ {0}
  BY RewardLimitsAssumption
<1>3. NextLayer(l) \in {"tpm", "semaphore"} /\ at[r] \in {"rpm", "tpm"}
  BY DEF TakeOrSleep, NextLayer, Layer
<1>4. elapsed' \in [Layer -> Nat]
  BY DEF LInv, LimitsTypeOK, TakeOrSleep, NoteTime
<1>5. CASE Refilled(l) >= Need[l]
  <2>1. Refilled(l) - Need[l] \in Int /\ Refilled(l) - Need[l] <= Capacity[l]
    BY <1>1, <1>2
  <2>2. tokens' = [tokens EXCEPT ![l] = Refilled(l) - Need[l]]
    BY <1>5 DEF TakeOrSleep
  <2>3. tokens' \in [Layer -> Int] /\ \A k \in Layer : tokens'[k] <= Capacity[k]
    BY <2>1, <2>2 DEF LInv, LimitsTypeOK
  <2>4. LimitsTypeOK'
    BY <1>3, <1>4, <1>5, <2>3 DEF LInv, LimitsTypeOK, TakeOrSleep, Goto
  <2> QED BY <1>3, <1>5, <2>4, MoveKeeps DEF TakeOrSleep, Awaiting
<1>6. CASE ~ (Refilled(l) >= Need[l])
  <2>1. CeilDiv(Need[l] - Refilled(l), Rate[l]) \in Nat
    <3>1. Need[l] - Refilled(l) \in Nat \ {0}
      BY <1>1, <1>2, <1>6
    <3> QED BY <1>2, <3>1, CeilDivType
  <2>2. tokens' = [tokens EXCEPT ![l] = Refilled(l)]
    BY <1>6 DEF TakeOrSleep
  <2>3. tokens' \in [Layer -> Int] /\ \A k \in Layer : tokens'[k] <= Capacity[k]
    BY <1>1, <2>2 DEF LInv, LimitsTypeOK
  <2>4. sleep' \in [Request -> Nat]
    BY <1>6, <2>1 DEF LInv, LimitsTypeOK, TakeOrSleep, Sleep
  <2>5. LimitsTypeOK' /\ UNCHANGED <<at, threaded, calls, answers>>
    BY <1>4, <1>6, <2>3, <2>4 DEF LInv, LimitsTypeOK, TakeOrSleep
  <2>6. Holders' = Holders
    BY <2>5 DEF Holders, Awaiting
  <2> QED BY <2>5, <2>6 DEF LInv
<1> QED BY <1>5, <1>6

LEMMA TakeInDebtKeeps ==
  ASSUME LInv, NEW r \in Request, NEW l \in Layer, TakeInDebt(r, l)
  PROVE  LInv'
<1>1. Refilled(l) \in Int /\ Refilled(l) <= Capacity[l]
  BY RefilledType DEF LInv
<1>2. Need[l] \in Nat \ {0} /\ Rate[l] \in Nat \ {0} /\ Capacity[l] \in Nat \ {0}
  BY RewardLimitsAssumption
<1>3. InDebt[l] \in {"rpm_debt", "tpm_debt"} /\ at[r] \in {"rpm", "tpm"}
  BY DEF TakeInDebt, InDebt, Layer
<1>4. elapsed' \in [Layer -> Nat]
  BY DEF LInv, LimitsTypeOK, TakeInDebt, NoteTime
<1>5. /\ Refilled(l) - Need[l] \in Int /\ Refilled(l) - Need[l] <= Capacity[l]
      /\ Need[l] - Refilled(l) \in Nat \ {0}
  BY <1>1, <1>2 DEF TakeInDebt
<1>6. tokens' \in [Layer -> Int] /\ \A k \in Layer : tokens'[k] <= Capacity[k]
  BY <1>5 DEF LInv, LimitsTypeOK, TakeInDebt
<1>7. CeilDiv(Need[l] - Refilled(l), Rate[l]) \in Nat
  BY <1>2, <1>5, CeilDivType
<1>8. sleep' \in [Request -> Nat]
  BY <1>7 DEF LInv, LimitsTypeOK, TakeInDebt, Sleep
<1>9. LimitsTypeOK'
  BY <1>3, <1>4, <1>6, <1>8 DEF LInv, LimitsTypeOK, TakeInDebt, Goto
<1> QED BY <1>3, <1>9, MoveKeeps DEF TakeInDebt, Awaiting

-----------------------------------------------------------------------------
(* A free semaphore has room for one more. *)
LEMMA EnterSemaphoreKeeps ==
  ASSUME LInv, NEW r \in Request, EnterSemaphore(r)
  PROVE  LInv'
<1>1. PICK place \in {"submitted", "computing"} : Goto(r, place)
  BY DEF EnterSemaphore
<1>2. /\ Timeout \in Nat \ {0} /\ MaxConcurrent \in Nat \ {0}
      /\ calls \subseteq Request /\ Holders \subseteq Request
  BY RewardLimitsAssumption DEF LInv, LimitsTypeOK, Holders
<1>3. patience' \in [Request -> 0 .. Timeout] /\ calls' \subseteq Request
  BY <1>2 DEF LInv, LimitsTypeOK, EnterSemaphore
<1>4. LimitsTypeOK'
  BY <1>1, <1>3 DEF LInv, LimitsTypeOK, EnterSemaphore, Goto, bucket
<1>5. at \in [Request -> {"decode", "rpm", "tpm", "rpm_debt", "tpm_debt",
                          "semaphore", "submitted", "computing", "answered"}]
  BY DEF LInv, LimitsTypeOK
<1>6. Holders' = Holders \cup {r} /\ r \notin Holders
  BY <1>1, <1>5 DEF Holders, Awaiting, Goto, EnterSemaphore
<1>7. Cardinality(Holders)' <= MaxConcurrent
  <2>1. Cardinality(Holders') = Cardinality(Holders) + 1
    BY <1>2, <1>6, CountsFinite, FS_AddElement
  <2>2. Cardinality(Holders) \in Nat /\ Cardinality(Holders) < MaxConcurrent
    BY <1>2, CountsFinite DEF EnterSemaphore, SemaphoreFree
  <2> QED BY <1>2, <2>1, <2>2
<1>8. r \notin calls /\ at[r] # "answered" /\ UNCHANGED <<threaded, answers>>
  BY DEF LInv, EnterSemaphore
<1>9. \A x \in calls' : at'[x] = "computing" \/ (threaded' /\ at'[x] = "answered")
  BY <1>2, <1>5, <1>8 DEF LInv, EnterSemaphore, Goto
<1>10. \A x \in Request : answers'[x] = 1 <=> at'[x] = "answered"
  BY <1>1, <1>5, <1>8 DEF LInv, Goto
<1>11. threaded' => Cardinality(calls') <= Workers
  BY DEF LInv, EnterSemaphore
<1> QED BY <1>4, <1>7, <1>9, <1>10, <1>11 DEF LInv

(* A free worker has room for one more call. *)
LEMMA WorkerTakesKeeps ==
  ASSUME LInv, NEW r \in Request, WorkerTakes(r)
  PROVE  LInv'
<1>1. calls' = calls \cup {r} /\ calls \subseteq Request /\ r \notin calls
  BY DEF LInv, LimitsTypeOK, WorkerTakes
<1>2. LimitsTypeOK'
  BY <1>1 DEF LInv, LimitsTypeOK, WorkerTakes, Goto, bucket
<1>3. at \in [Request -> {"decode", "rpm", "tpm", "rpm_debt", "tpm_debt",
                          "semaphore", "submitted", "computing", "answered"}]
  BY DEF LInv, LimitsTypeOK
<1>4. Holders' = Holders
  BY <1>3 DEF Holders, Awaiting, Goto, WorkerTakes
<1>5. at[r] = "submitted" /\ UNCHANGED <<threaded, answers>>
      /\ at' = [at EXCEPT ![r] = "computing"]
  BY DEF WorkerTakes, Goto
<1>6. \A x \in calls' : at'[x] = "computing" \/ (threaded' /\ at'[x] = "answered")
  BY <1>1, <1>3, <1>5 DEF LInv
<1>7. \A x \in Request : answers'[x] = 1 <=> at'[x] = "answered"
  BY <1>3, <1>5 DEF LInv
<1>8. threaded' => Cardinality(calls') <= Workers
  <2> SUFFICES ASSUME threaded PROVE Cardinality(calls') <= Workers
    BY <1>5
  <2>1. Cardinality(calls') = Cardinality(calls) + 1
    BY <1>1, CountsFinite, FS_AddElement
  <2>2. Cardinality(calls) \in Nat /\ Cardinality(calls) < Workers /\ Workers \in Nat
    BY <1>1, CountsFinite, RewardLimitsAssumption DEF WorkerTakes, WorkerFree
  <2> QED BY <2>1, <2>2
<1> QED BY <1>2, <1>4, <1>6, <1>7, <1>8 DEF LInv

(* Some calls end and no request waits that did not: nothing grows. *)
LEMMA FewerKeeps ==
  ASSUME LInv, calls' \subseteq calls, Holders' \subseteq Holders, threaded' = threaded
  PROVE  /\ Cardinality(Holders') <= MaxConcurrent
         /\ threaded' => Cardinality(calls') <= Workers
<1>1. /\ calls \subseteq Request /\ Holders \subseteq Request
      /\ MaxConcurrent \in Nat /\ Workers \in Nat
  BY RewardLimitsAssumption DEF LInv, LimitsTypeOK, Holders
<1>2. /\ Cardinality(Holders') <= Cardinality(Holders)
      /\ Cardinality(calls') <= Cardinality(calls)
  BY <1>1, CountsFinite, FS_Subset
<1>3. /\ Cardinality(Holders') \in Nat /\ Cardinality(calls') \in Nat
      /\ Cardinality(Holders) \in Nat /\ Cardinality(calls) \in Nat
  BY <1>1, CountsFinite
<1> QED BY <1>1, <1>2, <1>3 DEF LInv

(* The answer is the first: nobody who waits has one. *)
LEMMA AnswerKeeps ==
  ASSUME LInv, NEW r \in Request, Awaiting(r), Answer(r)
  PROVE  /\ answers' \in [Request -> 0 .. 1]
         /\ at' \in [Request -> {"decode", "rpm", "tpm", "rpm_debt", "tpm_debt",
                          "semaphore", "submitted", "computing", "answered"}]
         /\ \A x \in Request : answers'[x] = 1 <=> at'[x] = "answered"
         /\ Holders' \subseteq Holders
<1>1. answers \in [Request -> 0 .. 1] /\ answers[r] = 0
  BY DEF LInv, LimitsTypeOK, Awaiting
<1>2. at \in [Request -> {"decode", "rpm", "tpm", "rpm_debt", "tpm_debt",
                          "semaphore", "submitted", "computing", "answered"}]
  BY DEF LInv, LimitsTypeOK
<1>3. answers' = [answers EXCEPT ![r] = 1] /\ at' = [at EXCEPT ![r] = "answered"]
  BY <1>1 DEF Answer, Goto
<1>4. Holders' \subseteq Holders
  BY <1>2, <1>3 DEF Holders, Awaiting
<1> QED BY <1>1, <1>2, <1>3, <1>4 DEF LInv

LEMMA CallEndsKeeps ==
  ASSUME LInv, NEW r \in Request, CallEnds(r)
  PROVE  LInv'
<1>1. calls' = calls \ {r} /\ UNCHANGED <<clock, threaded, bucket, sleep, patience>>
  BY DEF CallEnds
<1>2. CASE Heard(r)
  <2>1. Awaiting(r) /\ Answer(r)
    BY <1>2 DEF CallEnds, Heard, Awaiting
  <2>2. LimitsTypeOK'
    BY <1>1, <2>1, AnswerKeeps DEF LInv, LimitsTypeOK, bucket
  <2>3. \A x \in calls' : at'[x] = at[x]
    BY <1>1, <2>1 DEF LInv, LimitsTypeOK, Answer, Goto
  <2>4. \A x \in calls' : at'[x] = "computing" \/ (threaded' /\ at'[x] = "answered")
    BY <1>1, <2>3 DEF LInv
  <2> QED BY <1>1, <2>1, <2>2, <2>4, AnswerKeeps, FewerKeeps DEF LInv
<1>3. CASE ~ Heard(r)
  <2>1. UNCHANGED <<at, answers>>
    BY <1>3 DEF CallEnds
  <2>2. LimitsTypeOK'
    BY <1>1, <2>1 DEF LInv, LimitsTypeOK, bucket
  <2>3. Holders' = Holders
    BY <2>1 DEF Holders, Awaiting
  <2>4. \A x \in calls' : at'[x] = "computing" \/ (threaded' /\ at'[x] = "answered")
    BY <1>1, <2>1 DEF LInv
  <2> QED BY <1>1, <2>1, <2>2, <2>3, <2>4, FewerKeeps DEF LInv
<1> QED BY <1>2, <1>3

(* A thread outlives its request's timeout, a coroutine does not. *)
LEMMA TimesOutKeeps ==
  ASSUME LInv, NEW r \in Request, TimesOut(r)
  PROVE  LInv'
<1>1. /\ Awaiting(r) /\ Answer(r) /\ calls' \subseteq calls
      /\ UNCHANGED <<clock, threaded, bucket, sleep, patience>>
  BY DEF TimesOut
<1>2. LimitsTypeOK'
  BY <1>1, AnswerKeeps DEF LInv, LimitsTypeOK, bucket
<1>3. at' = [at EXCEPT ![r] = "answered"]
  BY <1>1 DEF Answer, Goto
<1>4. ~ threaded => r \notin calls'
  BY DEF TimesOut
<1>5. \A x \in calls' : at'[x] = "computing" \/ (threaded' /\ at'[x] = "answered")
  BY <1>1, <1>3, <1>4 DEF LInv, LimitsTypeOK
<1> QED BY <1>1, <1>2, <1>5, AnswerKeeps, FewerKeeps DEF LInv

(* Time moves neither a request nor a call. *)
LEMMA TickKeeps ==
  ASSUME LInv, Tick
  PROVE  LInv'
<1>1. clock' \in 0 .. Horizon
  <2>1. /\ clock \in 0 .. Horizon /\ Horizon \in Nat
        /\ Horizon \in Int /\ clock + 1 \in Int
    BY RewardLimitsAssumption DEF LInv, LimitsTypeOK
  <2>2. Min({Horizon, clock + 1}) \in {Horizon, clock + 1}
        /\ Min({Horizon, clock + 1}) <= Horizon
    BY <2>1, MinPair
  <2> QED BY <2>1, <2>2 DEF Tick
<1>2. sleep' \in [Request -> Nat]
  <2>1. ASSUME NEW r \in Request PROVE Max({0, sleep[r] - 1}) \in Nat
    <3>1. sleep[r] \in Nat /\ 0 \in Int /\ sleep[r] - 1 \in Int
      BY DEF LInv, LimitsTypeOK
    <3>2. Max({0, sleep[r] - 1}) \in {0, sleep[r] - 1} /\ Max({0, sleep[r] - 1}) >= 0
      BY <3>1, MaxPair
    <3> QED BY <3>1, <3>2
  <2> QED BY <2>1 DEF Tick
<1>3. patience' \in [Request -> 0 .. Timeout]
  <2>1. ASSUME NEW r \in Request PROVE Max({0, patience[r] - 1}) \in 0 .. Timeout
    <3>1. /\ patience[r] \in 0 .. Timeout /\ Timeout \in Nat
          /\ 0 \in Int /\ patience[r] - 1 \in Int
      BY RewardLimitsAssumption DEF LInv, LimitsTypeOK
    <3>2. Max({0, patience[r] - 1}) \in {0, patience[r] - 1}
          /\ Max({0, patience[r] - 1}) >= 0
      BY <3>1, MaxPair
    <3> QED BY <3>1, <3>2
  <2> QED BY <2>1 DEF Tick
<1>4. elapsed' \in [Layer -> Nat]
  BY DEF LInv, LimitsTypeOK, Tick
<1>5. LimitsTypeOK' /\ UNCHANGED <<threaded, at, calls, answers>>
  BY <1>1, <1>2, <1>3, <1>4 DEF LInv, LimitsTypeOK, Tick
<1>6. Holders' = Holders
  BY <1>5 DEF Holders, Awaiting
<1> QED BY <1>5, <1>6 DEF LInv

-----------------------------------------------------------------------------
(* The limits are an invariant of the reward manager. *)
THEOREM LimitsKept == Spec => []LInv
<1>1. ASSUME LInv, [Next]_vars
      PROVE  LInv'
  <2>1. CASE Tick
    BY <1>1, <2>1, TickKeeps
  <2>2. ASSUME NEW r \in Request, Manager(r)
        PROVE  LInv'
    BY <1>1, <2>2, DecodeKeeps, TakeOrSleepKeeps, TakeInDebtKeeps, DebtPaidKeeps,
       EnterSemaphoreKeeps, TimesOutKeeps DEF Manager, Acquire
  <2>3. ASSUME NEW r \in Request, Score(r)
        PROVE  LInv'
    BY <1>1, <2>3, WorkerTakesKeeps, CallEndsKeeps DEF Score
  <2>4. CASE UNCHANGED vars
    <3>1. LimitsTypeOK' /\ Holders' = Holders
      BY <1>1, <2>4 DEF vars, bucket, call, LInv, LimitsTypeOK, Holders, Awaiting
    <3> QED BY <1>1, <2>4, <3>1 DEF vars, call, LInv
  <2> QED BY <1>1, <2>1, <2>2, <2>3, <2>4 DEF Next
<1> QED BY <1>1, InitLimits, PTL DEF Spec

(* LimitsTypeOK: buckets never hold more than their capacity, a request is  *)
(* answered at most once, whatever its timeout races.                       *)
THEOREM LimitsTypeCorrect == Spec => []LimitsTypeOK
<1>1. LInv => LimitsTypeOK
  BY DEF LInv
<1> QED BY <1>1, LimitsKept, PTL

(* SimultaneousCalls, for any number of requests: the awaited calls are     *)
(* limited by the semaphore, and the calls of a synchronous compute_score,  *)
(* those nobody waits for included, by the threads of the executor.         *)
THEOREM CallsLimited == Spec => []SimultaneousCalls
<1>1. ASSUME LInv PROVE SimultaneousCalls
  <2>1. /\ calls \subseteq Request /\ Holders \subseteq Request
        /\ MaxConcurrent \in Nat
    BY <1>1, RewardLimitsAssumption DEF LInv, LimitsTypeOK, Holders
  <2>2. calls \ Orphans \subseteq Holders
    BY <1>1, <2>1 DEF LInv, Orphans, Holders, Awaiting
  <2>3. Cardinality(calls \ Orphans) <= Cardinality(Holders)
    BY <2>1, <2>2, CountsFinite, FS_Subset
  <2>4. Cardinality(calls \ Orphans) \in Nat /\ Cardinality(Holders) \in Nat
    BY <2>1, CountsFinite
  <2>5. Cardinality(calls \ Orphans) <= MaxConcurrent
    BY <1>1, <2>1, <2>3, <2>4 DEF LInv
  <2>6. ~ threaded => Orphans = {}
    BY <1>1 DEF LInv, Orphans
  <2> QED BY <1>1, <2>5, <2>6 DEF LInv, SimultaneousCalls
<1> QED BY <1>1, LimitsKept, PTL

-----------------------------------------------------------------------------
(***************************************************************************)
(* The rate.  Who has taken tokens of a layer, and of those who will have  *)
(* passed it n ticks from now; a debtor passes when its sleep is over.     *)
(***************************************************************************)
Took(l) == {r \in Request : r \in Passed(l) \/ at[r] = InDebt[l]}
Paid(l, n) == {r \in Took(l) : at[r] = InDebt[l] => sleep[r] <= n}

(* What has been taken and what is in the bucket come from the first filling *)
(* and the time since; so does what is taken by those who have passed after  *)
(* any further time.                                                         *)
RateKept(l) ==
  clock < Horizon =>
    /\ Cardinality(Took(l)) * Need[l] + Refilled(l) <= Capacity[l] + Rate[l] * clock
    /\ \A n \in Nat :
         Cardinality(Paid(l, n)) * Need[l] <= Capacity[l] + Rate[l] * (clock + n)
RateInv == \A l \in Layer : RateKept(l)

(* The places of a call, as the layers see them. *)
LEMMA Places ==
  /\ InDebt["rpm"] = "rpm_debt" /\ InDebt["tpm"] = "tpm_debt" /\ Layer = {"rpm", "tpm"}
  /\ Before("rpm") = {"decode", "rpm", "rpm_debt"}
  /\ Before("tpm") = {"decode", "tpm", "tpm_debt", "rpm", "rpm_debt"}
BY DEF InDebt, Layer, Before

(* The numbers of a layer. *)
LEMMA RateTypes ==
  ASSUME LInv, NEW l \in Layer
  PROVE  /\ Need[l] \in Nat \ {0} /\ Rate[l] \in Nat \ {0} /\ Capacity[l] \in Nat \ {0}
         /\ tokens[l] \in Int /\ elapsed[l] \in Nat /\ clock \in Nat
         /\ Refilled(l) \in Int /\ Refilled(l) <= Capacity[l]
         /\ Took(l) \subseteq Request /\ \A n \in Nat : Paid(l, n) \subseteq Took(l)
BY RewardLimitsAssumption, RefilledType DEF LInv, LimitsTypeOK, Took, Paid

(* Products. *)
LEMMA Monotone ==
  ASSUME NEW a \in Nat, NEW b \in Nat, a <= b, NEW c \in Nat
  PROVE  a * c <= b * c /\ a * c \in Nat /\ b * c \in Nat
<1>1. \A d \in Nat : (a + d) * c = a * c + d * c /\ d * c \in Nat
  OBVIOUS
<1>2. b - a \in Nat /\ b = a + (b - a)
  OBVIOUS
<1>3. b * c = a * c + (b - a) * c /\ (b - a) * c \in Nat
  BY <1>1, <1>2
<1>4. a * c \in Nat /\ b * c \in Nat
  OBVIOUS
<1> QED BY <1>3, <1>4

(* Fewer requests have taken fewer tokens. *)
LEMMA FewerTokens ==
  ASSUME NEW S, NEW T, S \subseteq T, T \subseteq Request, NEW need \in Nat
  PROVE  /\ Cardinality(S) * need <= Cardinality(T) * need
         /\ Cardinality(S) * need \in Nat /\ Cardinality(T) * need \in Nat
<1>1. /\ IsFiniteSet(T) /\ Cardinality(S) \in Nat /\ Cardinality(T) \in Nat
  BY CountsFinite
<1>2. Cardinality(S) <= Cardinality(T)
  BY <1>1, FS_Subset
<1> QED BY <1>1, <1>2, Monotone

(* Steps that take nothing from a layer. *)
LEMMA NothingTaken ==
  ASSUME LInv, LInv', NEW l \in Layer, RateKept(l),
         clock' = clock, Refilled(l)' = Refilled(l), Took(l)' = Took(l),
         \A n \in Nat : Paid(l, n)' \subseteq Paid(l, n)
  PROVE  RateKept(l)'
<1> SUFFICES ASSUME clock < Horizon PROVE RateKept(l)'
  BY DEF RateKept
<1>1. Cardinality(Took(l)') * Need[l] + Refilled(l)' <= Capacity[l] + Rate[l] * clock'
  BY DEF RateKept
<1>2. ASSUME NEW n \in Nat
      PROVE  Cardinality(Paid(l, n)') * Need[l] <= Capacity[l] + Rate[l] * (clock' + n)
  <2> DEFINE new == Paid(l, n)'
             old == Paid(l, n)
  <2>1. new \subseteq old /\ old \subseteq Request
    BY RateTypes
  <2>2. Cardinality(old) * Need[l] <= Capacity[l] + Rate[l] * (clock + n)
    BY DEF RateKept
  <2>3. Need[l] \in Nat /\ Rate[l] \in Nat /\ Capacity[l] \in Nat /\ clock \in Nat
    BY RateTypes
  <2> HIDE DEF new, old
  <2>4. /\ Cardinality(new) * Need[l] <= Cardinality(old) * Need[l]
        /\ Cardinality(new) * Need[l] \in Nat /\ Cardinality(old) * Need[l] \in Nat
    BY <2>1, <2>3, FewerTokens
  <2>5. Capacity[l] + Rate[l] * (clock + n) \in Nat
    BY <2>3
  <2>6. Cardinality(new) * Need[l] <= Capacity[l] + Rate[l] * (clock + n)
    BY <2>2, <2>4, <2>5
  <2> QED BY <2>6 DEF new
<1> QED BY <1>1, <1>2 DEF RateKept

(* A request takes its tokens; it will have passed in m ticks, when the      *)
(* bucket has what it lacks now.                                             *)
LEMMA OneTaken ==
  ASSUME LInv, LInv', NEW l \in Layer, RateKept(l), NEW r \in Request, NEW m \in Nat,
         clock' = clock, tokens'[l] = Refilled(l) - Need[l], elapsed'[l] = 0,
         r \notin Took(l), Took(l)' = Took(l) \cup {r},
         Need[l] - Refilled(l) <= Rate[l] * m,
         \A n \in Nat : n < m => Paid(l, n)' \subseteq Paid(l, n)
  PROVE  RateKept(l)'
<1> SUFFICES ASSUME clock < Horizon PROVE RateKept(l)'
  BY DEF RateKept
<1> DEFINE need == Need[l]
           rate == Rate[l]
           cap == Capacity[l]
           refilled == Refilled(l)
           count == Cardinality(Took(l))
<1>1. /\ need \in Nat /\ rate \in Nat /\ cap \in Nat /\ clock \in Nat /\ refilled \in Int
      /\ refilled <= cap /\ Took(l) \subseteq Request
  BY RateTypes
<1>2. Cardinality(Took(l)') = count + 1 /\ count \in Nat
  BY <1>1, CountsFinite, FS_AddElement
<1>3. (count + 1) * need = count * need + need /\ count * need \in Nat
  BY <1>1, <1>2
<1>4. count * need + refilled <= cap + rate * clock
  BY DEF RateKept
<1>5. rate * clock \in Nat /\ rate * m \in Nat
  BY <1>1
<1>6. Refilled(l)' = refilled - need
  <2>1. Refilled(l)' = Min({cap, tokens'[l] + 0 * rate})
    BY DEF Refilled
  <2>2. tokens'[l] + 0 * rate = refilled - need /\ refilled - need \in Int /\ cap \in Int
        /\ refilled - need <= cap
    BY <1>1
  <2>3. Min({cap, refilled - need}) \in {cap, refilled - need}
        /\ Min({cap, refilled - need}) <= refilled - need
        /\ Min({cap, refilled - need}) <= cap
    BY <2>2, MinPair
  <2>4. Refilled(l)' = Min({cap, refilled - need})
    BY <2>1, <2>2
  <2> DEFINE x == refilled - need
             y == Min({cap, x})
  <2>5. y \in {cap, x} /\ y <= x /\ x \in Int /\ cap \in Int /\ x <= cap
    BY <2>2, <2>3
  <2>6. Refilled(l)' = y
    BY <2>4
  <2> HIDE DEF y, x, cap, refilled, need
  <2>7. y = x
    BY <2>5
  <2> QED BY <2>6, <2>7 DEF x
<1>7. ASSUME NEW n \in Nat
      PROVE  Cardinality(Paid(l, n)') * need <= cap + rate * (clock + n)
  <2>1. rate * (clock + n) = rate * clock + rate * n /\ rate * n \in Nat
    BY <1>1
  <2>2. CASE n < m
    <3> DEFINE new == Paid(l, n)'
               old == Paid(l, n)
    <3>1. new \subseteq old /\ old \subseteq Request
      BY <1>1, <2>2, RateTypes
    <3>2. Cardinality(old) * need <= cap + rate * (clock + n)
      BY DEF RateKept
    <3> HIDE DEF new, old, need, rate, cap
    <3>3. /\ Cardinality(new) * need <= Cardinality(old) * need
          /\ Cardinality(new) * need \in Nat /\ Cardinality(old) * need \in Nat
      BY <1>1, <3>1, FewerTokens
    <3>4. Cardinality(new) * need <= cap + rate * (clock + n)
      BY <1>1, <1>5, <2>1, <3>2, <3>3
    <3> QED BY <3>4 DEF new
  <2>3. CASE n >= m
    <3> DEFINE new == Paid(l, n)'
               all == Took(l)'
    <3>1. new \subseteq all /\ all \subseteq Request /\ Cardinality(all) = count + 1
      BY <1>1, <1>2 DEF Paid
    <3> HIDE DEF new, all, need, rate, cap, count, refilled
    <3>2. Cardinality(new) * need <= Cardinality(all) * need
          /\ Cardinality(new) * need \in Nat
      BY <1>1, <3>1, FewerTokens
    <3>3. rate * m <= rate * n
      <4>1. m * rate <= n * rate
        BY <1>1, <2>3, Monotone
      <4>2. rate * m = m * rate /\ rate * n = n * rate
        BY <1>1
      <4> QED BY <4>1, <4>2
    <3>4. need - refilled <= rate * m
      BY DEF need, refilled, rate
    <3>5. Cardinality(new) * need <= count * need + need
      BY <1>3, <3>1, <3>2
    <3>6. Cardinality(new) * need <= cap + rate * clock + rate * n
      BY <1>1, <1>3, <1>4, <1>5, <2>1, <3>2, <3>3, <3>4, <3>5
    <3>7. Cardinality(new) * need <= cap + rate * (clock + n)
      BY <1>1, <1>5, <2>1, <3>6
    <3> QED BY <3>7 DEF new
  <2> QED BY <2>2, <2>3
<1>8. Cardinality(Took(l)') * need + Refilled(l)' <= cap + rate * clock
  <2> HIDE DEF need, rate, cap, count, refilled
  <2> QED BY <1>1, <1>2, <1>3, <1>4, <1>5, <1>6
<1> QED BY <1>7, <1>8 DEF RateKept
(* Time refills by no more than the rate, and brings debtors a tick nearer. *)
LEMMA TickRate ==
  ASSUME LInv, LInv', NEW l \in Layer, RateKept(l), Tick
  PROVE  RateKept(l)'
<1> SUFFICES ASSUME clock' < Horizon PROVE RateKept(l)'
  BY DEF RateKept
<1> DEFINE need == Need[l]
           rate == Rate[l]
           cap == Capacity[l]
<1>1. /\ need \in Nat /\ rate \in Nat /\ cap \in Nat /\ clock \in Nat
      /\ tokens[l] \in Int /\ elapsed[l] \in Nat /\ elapsed'[l] \in Nat
      /\ tokens'[l] = tokens[l] /\ Refilled(l) \in Int /\ Refilled(l)' \in Int
      /\ Took(l) \subseteq Request
  <2>1. /\ need \in Nat /\ rate \in Nat /\ cap \in Nat /\ clock \in Nat
        /\ tokens[l] \in Int /\ elapsed[l] \in Nat /\ tokens' = tokens
        /\ Refilled(l) \in Int /\ Took(l) \subseteq Request
    BY RateTypes DEF Tick
  <2>2. elapsed'[l] \in Nat
    BY DEF LInv, LimitsTypeOK
  <2>3. Refilled(l)' = Min({cap, tokens[l] + elapsed'[l] * rate})
    BY <2>1 DEF Refilled
  <2>4. cap \in Int /\ tokens[l] + elapsed'[l] * rate \in Int
    BY <2>1, <2>2
  <2>5. Refilled(l)' \in Int
    BY <2>3, <2>4, MinPair
  <2> QED BY <2>1, <2>2, <2>5
<1>2. clock' = clock + 1 /\ clock < Horizon
  <2>1. Horizon \in Int /\ clock + 1 \in Int
    BY <1>1, RewardLimitsAssumption
  <2>2. clock' \in {Horizon, clock + 1} /\ clock' <= clock + 1
    BY <2>1, MinPair DEF Tick
  <2> QED BY <1>1, <2>1, <2>2
<1>3. rate * (clock + 1) = rate * clock + rate /\ rate * clock \in Nat
  <2> HIDE DEF rate
  <2>1. rate \in Nat /\ clock \in Nat
    BY <1>1
  <2> QED BY <2>1
<1>4. Refilled(l)' <= Refilled(l) + rate
  <2>1. CASE Refilled(l) = cap
    <3>1. elapsed'[l] = elapsed[l]
      BY <2>1 DEF Tick
    <3>2. Refilled(l)' = Refilled(l)
      BY <1>1, <3>1 DEF Refilled
    <3> QED BY <1>1, <3>2
  <2>2. CASE Refilled(l) # cap
    <3>1. elapsed'[l] = elapsed[l] + 1
      BY <2>2 DEF Tick
    <3> DEFINE now == tokens[l] + elapsed[l] * rate
               next == tokens[l] + (elapsed[l] + 1) * rate
    <3>2. now \in Int /\ next = now + rate /\ next \in Int /\ cap \in Int
      BY <1>1
    <3>3. Refilled(l)' = Min({cap, next}) /\ Refilled(l) = Min({cap, now})
      BY <1>1, <3>1 DEF Refilled
    <3>4. Min({cap, next}) <= next /\ Min({cap, now}) \in {cap, now}
      BY <3>2, MinPair
    <3>5. Refilled(l) = now /\ Refilled(l)' <= next
      BY <2>2, <3>3, <3>4
    <3> HIDE DEF now, next, rate, cap
    <3> QED BY <3>2, <3>5
  <2> QED BY <2>1, <2>2
<1>5. Took(l)' = Took(l)
  BY DEF Tick, Took, Passed
<1>6. ASSUME NEW n \in Nat
      PROVE  Cardinality(Paid(l, n)') * need <= cap + rate * (clock' + n)
  <2> DEFINE new == Paid(l, n)'
             old == Paid(l, n + 1)
  <2>1. ASSUME NEW r \in Request, at[r] = InDebt[l], sleep'[r] <= n PROVE sleep[r] <= n + 1
    <3>1. sleep[r] \in Nat /\ 0 \in Int /\ sleep[r] - 1 \in Int
      BY DEF LInv, LimitsTypeOK
    <3>2. sleep'[r] = Max({0, sleep[r] - 1})
      BY DEF Tick
    <3>3. sleep'[r] >= sleep[r] - 1 /\ sleep'[r] \in {0, sleep[r] - 1}
      BY <3>1, <3>2, MaxPair
    <3> QED BY <2>1, <3>1, <3>3
  <2>2. new \subseteq old /\ old \subseteq Request
    <3>1. at' = at
      BY DEF Tick
    <3> QED BY <1>1, <1>5, <2>1, <3>1 DEF Paid
  <2>3. n + 1 \in Nat /\ clock' + n = clock + (n + 1)
    BY <1>1, <1>2
  <2>4. Cardinality(old) * need <= cap + rate * (clock + (n + 1))
    BY <1>2, <2>3 DEF RateKept
  <2>5. rate * (clock + (n + 1)) \in Nat
    BY <1>1
  <2> HIDE DEF new, old, need, rate, cap
  <2>6. /\ Cardinality(new) * need <= Cardinality(old) * need
        /\ Cardinality(new) * need \in Nat /\ Cardinality(old) * need \in Nat
    BY <1>1, <2>2, FewerTokens
  <2>7. Cardinality(new) * need <= cap + rate * (clock' + n)
    BY <1>1, <2>3, <2>4, <2>5, <2>6
  <2> QED BY <2>7 DEF new
<1>7. Cardinality(Took(l)') * need + Refilled(l)' <= cap + rate * clock'
  <2>1. Cardinality(Took(l)) * need + Refilled(l) <= cap + rate * clock
    BY <1>2 DEF RateKept
  <2>2. Cardinality(Took(l)) * need \in Nat
    BY <1>1, FewerTokens
  <2> HIDE DEF need, rate, cap
  <2> QED BY <1>1, <1>2, <1>3, <1>4, <1>5, <2>1, <2>2
<1> QED BY <1>6, <1>7 DEF RateKept

(* A call moves, with its bucket untouched: not into what a layer counts,    *)
(* unless its debt is paid.                                                  *)
LEMMA MoveRate ==
  ASSUME LInv, LInv', RateInv, NEW r \in Request, NEW place,
         at' = [at EXCEPT ![r] = place],
         UNCHANGED <<clock, tokens, elapsed, sleep>>,
         \A l \in Layer :
           \/ at[r] \in Before(l) \ {InDebt[l]} /\ place \in Before(l) \ {InDebt[l]}
           \/ at[r] \notin Before(l) /\ place \notin Before(l)
           \/ at[r] = InDebt[l] /\ sleep[r] = 0 /\ place \notin Before(l)
  PROVE  RateInv'
<1> SUFFICES ASSUME NEW l \in Layer PROVE RateKept(l)'
  BY DEF RateInv
<1>1. /\ RateKept(l) /\ clock' = clock /\ Refilled(l)' = Refilled(l)
      /\ at'[r] = place /\ \A q \in Request : q # r => at'[q] = at[q]
      /\ InDebt[l] \in Before(l)
  BY DEF RateInv, Refilled, LInv, LimitsTypeOK, Before
<1>2. Took(l)' = Took(l)
  <2>1. r \in Took(l)' <=> r \in Took(l)
    BY <1>1 DEF Took, Passed
  <2>2. \A q \in Request : q # r => (q \in Took(l)' <=> q \in Took(l))
    BY <1>1 DEF Took, Passed
  <2>3. Took(l) \subseteq Request /\ Took(l)' \subseteq Request
    BY DEF Took
  <2> QED BY <2>1, <2>2, <2>3
<1>3. ASSUME NEW n \in Nat PROVE Paid(l, n)' \subseteq Paid(l, n)
  BY <1>1, <1>2 DEF Paid
<1> QED BY <1>1, <1>2, <1>3, NothingTaken

(* A retry that has to sleep again only notes the refill; other layers do    *)
(* not see the tokens that are taken of this one.                            *)
LEMMA TakeOrSleepRate ==
  ASSUME LInv, LInv', RateInv, NEW r \in Request, NEW k \in Layer, TakeOrSleep(r, k)
  PROVE  RateInv'
<1> SUFFICES ASSUME NEW l \in Layer PROVE RateKept(l)'
  BY DEF RateInv
<1>1. /\ RateKept(l) /\ clock' = clock /\ at[r] = k
      /\ Refilled(k) \in Int /\ Need[k] \in Nat \ {0}
      /\ elapsed' = [elapsed EXCEPT ![k] = 0]
      /\ DOMAIN tokens = Layer /\ DOMAIN elapsed = Layer
      /\ DOMAIN at = Request /\ DOMAIN sleep = Request
  BY RateTypes DEF RateInv, TakeOrSleep, NoteTime, LInv, LimitsTypeOK
<1>2. CASE Refilled(k) >= Need[k]
  <2>1. /\ at' = [at EXCEPT ![r] = NextLayer(k)] /\ sleep' = sleep
        /\ tokens' = [tokens EXCEPT ![k] = Refilled(k) - Need[k]]
    BY <1>2 DEF TakeOrSleep, Goto
  <2>2. CASE l = k
    <3>1. NextLayer(k) \notin Before(k) /\ k \in Before(k) /\ k # InDebt[k]
      BY Places DEF NextLayer
    <3>2. r \notin Took(k) /\ Took(k)' = Took(k) \cup {r}
      BY <1>1, <2>1, <3>1 DEF Took, Passed
    <3>3. Need[k] - Refilled(k) <= Rate[k] * 0
      BY <1>1, <1>2, RateTypes
    <3>4. tokens'[k] = Refilled(k) - Need[k] /\ elapsed'[k] = 0
      BY <1>1, <2>1
    <3> QED BY <1>1, <2>2, <3>2, <3>3, <3>4, OneTaken
  <2>3. CASE l # k
    <3>1. Refilled(l)' = Refilled(l)
      BY <1>1, <2>1, <2>3 DEF Refilled
    <3>2. \/ at[r] \in Before(l) \ {InDebt[l]} /\ NextLayer(k) \in Before(l) \ {InDebt[l]}
          \/ at[r] \notin Before(l) /\ NextLayer(k) \notin Before(l)
      BY <1>1, <2>3, Places DEF NextLayer
    <3>3. InDebt[l] \in Before(l)
      BY DEF Before
    <3>4. Took(l)' = Took(l)
      BY <1>1, <2>1, <3>2, <3>3 DEF Took, Passed
    <3>5. \A n \in Nat : Paid(l, n)' \subseteq Paid(l, n)
      BY <1>1, <2>1, <3>2, <3>3, <3>4 DEF Paid
    <3> QED BY <1>1, <3>1, <3>4, <3>5, NothingTaken
  <2> QED BY <2>2, <2>3
<1>3. CASE ~ (Refilled(k) >= Need[k])
  <2>1. /\ tokens' = [tokens EXCEPT ![k] = Refilled(k)] /\ at' = at
        /\ \A q \in Request : q # r => sleep'[q] = sleep[q]
    BY <1>1, <1>3 DEF TakeOrSleep, Sleep
  <2>2. Refilled(l)' = Refilled(l)
    <3>1. CASE l = k
      <4>1. Refilled(k)' = Min({Capacity[k], Refilled(k) + 0 * Rate[k]})
        BY <1>1, <2>1 DEF Refilled
      <4>2. /\ Refilled(k) + 0 * Rate[k] = Refilled(k)
            /\ Capacity[k] \in Int /\ Refilled(k) <= Capacity[k]
        BY <1>1, RateTypes
      <4> DEFINE x == Refilled(k)
                 y == Min({Capacity[k], x})
      <4>3. Refilled(k)' = y
        BY <4>1, <4>2
      <4>4. y \in {Capacity[k], x} /\ y <= x
        BY <1>1, <4>2, MinPair
      <4> HIDE DEF x, y
      <4>5. y = x
        BY <1>1, <4>2, <4>4 DEF x
      <4> QED BY <3>1, <4>3, <4>5 DEF x
    <3>2. CASE l # k
      BY <1>1, <2>1, <3>2 DEF Refilled
    <3> QED BY <3>1, <3>2
  <2>3. at[r] # InDebt[l]
    BY <1>1, Places
  <2>4. Took(l)' = Took(l)
    BY <2>1 DEF Took, Passed
  <2>5. ASSUME NEW n \in Nat PROVE Paid(l, n)' \subseteq Paid(l, n)
    <3>1. \A q \in Took(l) : at[q] = InDebt[l] => q \in Request /\ q # r
      BY <2>3 DEF Took
    <3> QED BY <2>1, <2>4, <3>1 DEF Paid
  <2> QED BY <1>1, <2>2, <2>4, <2>5, NothingTaken
<1> QED BY <1>2, <1>3

(* What is slept for a missing amount is long enough. *)
LEMMA CeilDivEnough ==
  ASSUME NEW a \in Nat \ {0}, NEW b \in Nat \ {0}
  PROVE  a <= b * CeilDiv(a, b)
<1> DEFINE x == a + b - 1
           q == x \div b
<1>0. x \in Nat
  OBVIOUS
<1> HIDE DEF x
<1>1. q \in Nat /\ x = b * q + (x % b) /\ (x % b) \in 0 .. b - 1
  BY <1>0
<1> USE DEF x
<1>2. b * q \in Nat
  BY <1>1
<1> HIDE DEF q
<1>3. a <= b * q
  BY <1>1, <1>2
<1> QED BY <1>3 DEF CeilDiv, q

(* A debtor sleeps until its debt, and those before it, are paid. *)
LEMMA TakeInDebtRate ==
  ASSUME LInv, LInv', RateInv, NEW r \in Request, NEW k \in Layer, TakeInDebt(r, k)
  PROVE  RateInv'
<1> SUFFICES ASSUME NEW l \in Layer PROVE RateKept(l)'
  BY DEF RateInv
<1> DEFINE m == CeilDiv(Need[k] - Refilled(k), Rate[k])
<1>1. /\ RateKept(l) /\ clock' = clock /\ at[r] = k
      /\ elapsed' = [elapsed EXCEPT ![k] = 0]
      /\ tokens' = [tokens EXCEPT ![k] = Refilled(k) - Need[k]]
      /\ at' = [at EXCEPT ![r] = InDebt[k]] /\ sleep' = [sleep EXCEPT ![r] = m]
      /\ DOMAIN tokens = Layer /\ DOMAIN elapsed = Layer
      /\ DOMAIN at = Request /\ DOMAIN sleep = Request
  BY DEF RateInv, TakeInDebt, NoteTime, Sleep, Goto, LInv, LimitsTypeOK
<1>2. /\ m \in Nat /\ Need[k] - Refilled(k) <= Rate[k] * m
  <2>1. Need[k] - Refilled(k) \in Nat \ {0} /\ Rate[k] \in Nat \ {0}
    BY RateTypes DEF TakeInDebt
  <2> QED BY <2>1, CeilDivType, CeilDivEnough
<1> HIDE DEF m
<1>3. CASE l = k
  <2>1. k \in Before(k) /\ k # InDebt[k] /\ InDebt[k] \in Before(k)
    BY Places
  <2>2. r \notin Took(k) /\ Took(k)' = Took(k) \cup {r}
    BY <1>1, <2>1 DEF Took, Passed
  <2>3. \A n \in Nat : n < m => Paid(k, n)' \subseteq Paid(k, n)
    <3> SUFFICES ASSUME NEW n \in Nat, n < m, NEW q \in Paid(k, n)'
                 PROVE  q \in Paid(k, n)
      OBVIOUS
    <3>1. q \in Request /\ q # r
      BY <1>1, <1>2, <2>1 DEF Paid, Took, Passed
    <3> QED BY <1>1, <2>2, <3>1 DEF Paid
  <2>4. tokens'[k] = Refilled(k) - Need[k] /\ elapsed'[k] = 0
    BY <1>1
  <2> QED BY <1>1, <1>2, <1>3, <2>2, <2>3, <2>4, OneTaken
<1>4. CASE l # k
  <2>1. Refilled(l)' = Refilled(l)
    BY <1>1, <1>4 DEF Refilled
  <2>2. \/ at[r] \in Before(l) \ {InDebt[l]} /\ InDebt[k] \in Before(l) \ {InDebt[l]}
        \/ at[r] \notin Before(l) /\ InDebt[k] \notin Before(l)
    BY <1>1, <1>4, Places
  <2>3. InDebt[l] \in Before(l)
    BY DEF Before
  <2>4. Took(l)' = Took(l)
    BY <1>1, <2>2, <2>3 DEF Took, Passed
  <2>5. \A n \in Nat : Paid(l, n)' \subseteq Paid(l, n)
    BY <1>1, <2>2, <2>3, <2>4 DEF Paid
  <2> QED BY <1>1, <2>1, <2>4, <2>5, NothingTaken
<1> QED BY <1>3, <1>4

(* The other steps move one call behind the layers, or into them, or none.   *)
LEMMA OtherRate ==
  ASSUME LInv, LInv', RateInv, NEW r \in Request,
         \/ Decode(r) \/ (\E l \in Layer : DebtPaid(r, l)) \/ EnterSemaphore(r)
         \/ TimesOut(r) \/ WorkerTakes(r) \/ CallEnds(r)
  PROVE  RateInv'
<1> DEFINE Behind == {"semaphore", "submitted", "computing", "answered"}
<1>1. \A l \in Layer : Behind \cap Before(l) = {}
  BY Places
<1>2. UNCHANGED <<clock, tokens, elapsed, sleep>>
  BY DEF Decode, DebtPaid, EnterSemaphore, TimesOut, WorkerTakes, CallEnds, bucket, call
<1>3. CASE Decode(r)
  <2>1. at[r] = "decode" /\ at' = [at EXCEPT ![r] = "rpm"]
    BY <1>3 DEF Decode, Goto
  <2>2. \A l \in Layer : "decode" \in Before(l) \ {InDebt[l]} /\ "rpm" \in Before(l) \ {InDebt[l]}
    BY Places
  <2>3. \A l \in Layer :
          \/ at[r] \in Before(l) \ {InDebt[l]} /\ "rpm" \in Before(l) \ {InDebt[l]}
          \/ at[r] \notin Before(l) /\ "rpm" \notin Before(l)
          \/ at[r] = InDebt[l] /\ sleep[r] = 0 /\ "rpm" \notin Before(l)
    BY <2>1, <2>2
  <2> QED BY <1>2, <2>1, <2>3, MoveRate
<1>4. ASSUME NEW k \in Layer, DebtPaid(r, k) PROVE RateInv'
  <2>1. at[r] = InDebt[k] /\ sleep[r] = 0 /\ at' = [at EXCEPT ![r] = NextLayer(k)]
    BY <1>4 DEF DebtPaid, Awake, Goto
  <2>2. \A l \in Layer :
          \/ at[r] \in Before(l) \ {InDebt[l]} /\ NextLayer(k) \in Before(l) \ {InDebt[l]}
          \/ at[r] \notin Before(l) /\ NextLayer(k) \notin Before(l)
          \/ at[r] = InDebt[l] /\ sleep[r] = 0 /\ NextLayer(k) \notin Before(l)
    BY <2>1, Places DEF NextLayer
  <2> QED BY <1>2, <2>1, <2>2, MoveRate
<1>5. ASSUME EnterSemaphore(r) \/ TimesOut(r) \/ WorkerTakes(r) \/ (CallEnds(r) /\ Heard(r))
      PROVE  RateInv'
  <2>1. PICK place \in Behind : at' = [at EXCEPT ![r] = place]
    BY <1>5 DEF EnterSemaphore, TimesOut, WorkerTakes, CallEnds, Answer, Goto
  <2>2. at[r] \in Behind
    BY <1>5 DEF EnterSemaphore, TimesOut, WorkerTakes, Heard, Awaiting
  <2>3. \A l \in Layer : at[r] \notin Before(l) /\ place \notin Before(l)
    BY <1>1, <2>1, <2>2
  <2> QED BY <1>2, <2>1, <2>3, MoveRate
<1>6. ASSUME CallEnds(r), ~ Heard(r) PROVE RateInv'
  <2>1. at' = at
    BY <1>6 DEF CallEnds
  <2>2. \A l \in Layer : /\ Refilled(l)' = Refilled(l) /\ Took(l)' = Took(l)
                         /\ \A n \in Nat : Paid(l, n)' \subseteq Paid(l, n)
    BY <1>2, <2>1 DEF Refilled, Took, Passed, Paid
  <2> QED BY <1>2, <2>2, NothingTaken DEF RateInv
<1> QED BY <1>3, <1>4, <1>5, <1>6

(* NeverAheadOfRate for any number of requests and any rates, capacities and *)
(* needs, larger than the bucket or not: by any time, no more has been let   *)
(* through a layer than its bucket held at first and has been refilled with. *)
THEOREM RateLimited == Spec => []NeverAheadOfRate
<1>1. Init => RateInv
  <2> SUFFICES ASSUME Init, NEW l \in Layer PROVE RateKept(l)
    BY DEF RateInv
  <2>1. LInv /\ Took(l) = {} /\ clock = 0
    BY InitLimits, Places DEF Init, Took, Passed
  <2>2. Cardinality({}) = 0 /\ \A n \in Nat : Paid(l, n) = {}
    BY <2>1, FS_EmptySet DEF Paid
  <2>3. /\ Need[l] \in Nat /\ Rate[l] \in Nat /\ Capacity[l] \in Nat
        /\ Refilled(l) \in Int /\ Refilled(l) <= Capacity[l]
    BY <2>1, RateTypes
  <2>4. \A n \in Nat : Rate[l] * (clock + n) \in Nat
    BY <2>1, <2>3
  <2>5. ASSUME NEW n \in Nat
        PROVE  Cardinality(Paid(l, n)) * Need[l] <= Capacity[l] + Rate[l] * (clock + n)
    <3>1. Paid(l, n) = {}
      BY <2>2, Zenon
    <3>2. Cardinality(Paid(l, n)) = 0 /\ 0 * Need[l] = 0
      BY <2>2, <2>3, <3>1
    <3>3. Cardinality(Paid(l, n)) * Need[l] = 0
      BY <3>2
    <3> QED BY <2>3, <2>4, <3>3
  <2>6. Cardinality(Took(l)) * Need[l] + Refilled(l) <= Capacity[l] + Rate[l] * clock
    BY <2>1, <2>2, <2>3
  <2> QED BY <2>5, <2>6 DEF RateKept
<1>2. ASSUME LInv, LInv', RateInv, [Next]_vars
      PROVE  RateInv'
  <2>1. CASE Tick
    BY <1>2, <2>1, TickRate DEF RateInv
  <2>2. ASSUME NEW r \in Request, Manager(r) \/ Score(r)
        PROVE  RateInv'
    BY <1>2, <2>2, TakeOrSleepRate, TakeInDebtRate, OtherRate DEF Manager, Score, Acquire
  <2>3. CASE UNCHANGED vars
    <3>1. UNCHANGED <<clock, tokens, elapsed, sleep, at>>
      BY <2>3 DEF vars, bucket, call
    <3>2. \A l \in Layer : /\ Refilled(l)' = Refilled(l) /\ Took(l)' = Took(l)
                           /\ \A n \in Nat : Paid(l, n)' \subseteq Paid(l, n)
      BY <3>1 DEF Refilled, Took, Passed, Paid
    <3> QED BY <1>2, <3>1, <3>2, NothingTaken DEF RateInv
  <2> QED BY <1>2, <2>1, <2>2, <2>3 DEF Next
<1>3. LInv /\ RateInv => NeverAheadOfRate
  <2> SUFFICES ASSUME LInv, RateInv, NEW l \in Layer, clock < Horizon
               PROVE  Cardinality(Passed(l)) * Need[l] <= Capacity[l] + Rate[l] * clock
    BY DEF NeverAheadOfRate
  <2> DEFINE passed == Passed(l)
             paid == Paid(l, 0)
  <2>1. passed \subseteq paid /\ paid \subseteq Request
    BY DEF Paid, Took, Passed, Before
  <2>2. /\ Need[l] \in Nat /\ Rate[l] \in Nat /\ Capacity[l] \in Nat /\ clock \in Nat
    BY RateTypes
  <2>3. Cardinality(paid) * Need[l] <= Capacity[l] + Rate[l] * (clock + 0)
    BY DEF RateInv, RateKept
  <2> HIDE DEF passed, paid
  <2>4. /\ Cardinality(passed) * Need[l] <= Cardinality(paid) * Need[l]
        /\ Cardinality(passed) * Need[l] \in Nat /\ Cardinality(paid) * Need[l] \in Nat
    BY <2>1, <2>2, FewerTokens
  <2>5. clock + 0 = clock /\ Rate[l] * clock \in Nat
    BY <2>2
  <2>6. Cardinality(passed) * Need[l] <= Capacity[l] + Rate[l] * clock
    BY <2>2, <2>3, <2>4, <2>5
  <2> QED BY <2>6 DEF passed
<1> QED BY <1>1, <1>2, <1>3, LimitsKept, PTL DEF Spec
=============================================================================
