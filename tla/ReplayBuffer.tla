---------------------------- MODULE ReplayBuffer ----------------------------
(***************************************************************************)
(* Rollout and sampling of verl/trainer/main_ppo_sync.py: the trainer      *)
(* dispatches a batch of prompts, the agent-loop workers put trajectories  *)
(* into the transfer queue (an external key-value store) as they finish,   *)
(* a polling thread copies the queue's keys and tags into the trainer's    *)
(* ReplayBuffer, the trainer waits until no prompt of the step is marked   *)
(* running, uses what is marked success, and cleans both up.  A key is a   *)
(* triple <<round, prompt, session>>, with session 0 for the prompt's uid. *)
(***************************************************************************)
EXTENDS Integers, Sequences

CONSTANTS
  Rounds,       (* the batches dispatched in turn: a sequence of records     *)
                (* [partition, step]; the batches of one validation share    *)
                (* their step, those of the training do not                  *)
  BatchSize,    (* prompts of a batch                                        *)
  N,            (* rollout.n: sessions of a prompt                           *)
  MaxFailures   (* bound of the model: sessions that raise                   *)

ASSUME ReplayBufferAssumption ==
  /\ Rounds \in Seq([partition : {"train", "val"}, step : Nat])
  /\ Rounds # <<>>
  /\ {BatchSize, N} \subseteq Nat \ {0}
  /\ MaxFailures \in Nat
  /\ \A r, q \in DOMAIN Rounds :
       Rounds[r] = Rounds[q] /\ Rounds[r].partition = "train" => r = q

Round == DOMAIN Rounds
Key == Round \X (1 .. BatchSize) \X (0 .. N)
Uid(r, i) == <<r, i, 0>>
IsUid(k) == k[3] = 0
Uids == {k \in Key : IsUid(k)}
Sessions == {k \in Key : ~IsUid(k)}
SessionsOf(u) == {k \in Sessions : k[1] = u[1] /\ k[2] = u[2]}
UidOf(s) == <<s[1], s[2], 0>>
OfRound(r) == {k \in Key : k[1] = r}
(* Keys of the partition and of the global step that sample() looks at. *)
SameStep(r) == {k \in Key : Rounds[k[1]] = Rounds[r]}

Nothing == [k \in Key |-> "none"]

VARIABLES
  tq,         (* transfer queue: status tag of each key, "none" if absent    *)
  polling,    (* the polling thread holds an answer of kv_list ...           *)
  snapshot,   (* ... with these tags                                         *)
  partition,  (* the ReplayBuffer's copy of tags                             *)
  session,    (* [Sessions -> "none", "running", "done", "empty", "failed"]  *)
  prompt,     (* [Uids -> "none", "running", "finished", "failure"]          *)
  failures,
  round,      (* index in Rounds of the current batch                        *)
  trainer,    (* "mark", "dispatch", "sample", "use", "remove" or "done"     *)
  batch       (* keys of the KVBatchMeta that sample returned                *)

workers == <<session, prompt, failures>>
poll == <<polling, snapshot>>
driver == <<round, trainer, batch>>
vars == <<tq, poll, partition, workers, driver>>

Init ==
  /\ tq = Nothing
  /\ polling = FALSE
  /\ snapshot = Nothing
  /\ partition = Nothing
  /\ session = [s \in Sessions |-> "none"]
  /\ prompt = [u \in Uids |-> "none"]
  /\ failures = 0
  /\ round = 1
  /\ trainer = "mark"
  /\ batch = {}

Set(f, keys, v) == [k \in DOMAIN f |-> IF k \in keys THEN v ELSE f[k]]

-----------------------------------------------------------------------------
(* AgentLoopManagerTQ.generate_sequences: the uids are marked in the buffer, *)
(* then the workers are called; they only create their tasks.                *)
MarkRunning ==
  /\ trainer = "mark"
  /\ partition' = Set(partition, OfRound(round) \cap Uids, "running")
  /\ trainer' = "dispatch"
  /\ UNCHANGED <<tq, poll, workers, round, batch>>

Dispatch ==
  /\ trainer = "dispatch"
  /\ session' = Set(session, OfRound(round), "running")
  /\ prompt' = Set(prompt, OfRound(round), "running")
  /\ trainer' = "sample"
  /\ UNCHANGED <<tq, poll, partition, failures, round, batch>>

(* _run_agent_loop with _agent_loop_postprocess: a trajectory is put, there  *)
(* is no output, or something raises.                                        *)
SessionPuts(s) ==
  /\ session[s] = "running"
  /\ session' = [session EXCEPT ![s] = "done"]
  /\ tq' = [tq EXCEPT ![s] = "success"]
  /\ UNCHANGED <<poll, partition, prompt, failures, driver>>

SessionEmpty(s) ==
  /\ session[s] = "running"
  /\ session' = [session EXCEPT ![s] = "empty"]
  /\ UNCHANGED <<tq, poll, partition, prompt, failures, driver>>

SessionRaises(s) ==
  /\ session[s] = "running"
  /\ failures < MaxFailures
  /\ session' = [session EXCEPT ![s] = "failed"]
  /\ failures' = failures + 1
  /\ UNCHANGED <<tq, poll, partition, prompt, driver>>

(* _run_prompt: gather returns when all sessions have, raises as soon as one *)
(* of them does; the others run on.                                          *)
GatheredFaulty(u) == \E s \in SessionsOf(u) : session[s] \in {"done", "empty"}
Gathered(u) == \A s \in SessionsOf(u) : session[s] \in {"done", "empty"}

PromptFinishes(u) ==
  /\ prompt[u] = "running"
  /\ Gathered(u)
  /\ prompt' = [prompt EXCEPT ![u] = "finished"]
  /\ tq' = [tq EXCEPT ![u] = "finished"]
  /\ UNCHANGED <<poll, partition, session, failures, driver>>

FailureTagFaulty(u) == tq[u]     (* the exception is only logged *)
FailureTag(u) == "failure"
PromptFails(u) ==
  /\ prompt[u] = "running"
  /\ \E s \in SessionsOf(u) : session[s] = "failed"
  /\ prompt' = [prompt EXCEPT ![u] = "failure"]
  /\ tq' = [tq EXCEPT ![u] = FailureTag(u)]
  /\ UNCHANGED <<poll, partition, session, failures, driver>>

-----------------------------------------------------------------------------
(* _poll_from_transfer_queue: kv_list answers, later add() merges it. *)
PollTakes ==
  /\ ~polling
  /\ polling' = TRUE
  /\ snapshot' = tq
  /\ UNCHANGED <<tq, partition, workers, driver>>

Merged ==
  [k \in Key |-> IF snapshot[k] = "none" THEN partition[k] ELSE snapshot[k]]

PollAdds ==
  /\ polling
  /\ partition' = Merged
  /\ polling' = FALSE
  /\ snapshot' = Nothing
  /\ UNCHANGED <<tq, workers, driver>>

SampledFaulty == {k \in Key : partition[k] = "success"}    (* of any step *)
(* ReplayBuffer.sample, one pass under the lock that finds nothing running. *)
Sampled == {k \in SameStep(round) : partition[k] = "success"}
Sample ==
  /\ trainer = "sample"
  /\ \A k \in SameStep(round) : partition[k] # "running"
  /\ batch' = Sampled
  /\ trainer' = "use"
  /\ UNCHANGED <<tq, poll, partition, workers, round>>

(* The batch has been used; the cleanup of the queue, then of the buffer. *)
ClearQueue ==
  /\ trainer = "use"
  /\ tq' = Set(tq, batch, "none")
  /\ trainer' = "remove"
  /\ UNCHANGED <<poll, partition, workers, round, batch>>

RemoveKeys ==
  /\ trainer = "remove"
  /\ partition' = Set(partition, batch, "none")
  /\ batch' = {}
  /\ IF round < Len(Rounds)
     THEN round' = round + 1 /\ trainer' = "mark"
     ELSE trainer' = "done" /\ UNCHANGED round
  /\ UNCHANGED <<tq, poll, workers>>

-----------------------------------------------------------------------------
SessionStep(s) == SessionPuts(s) \/ SessionEmpty(s) \/ SessionRaises(s)
PromptStep(u) == PromptFinishes(u) \/ PromptFails(u)
Poll == PollTakes \/ PollAdds
Driver == MarkRunning \/ Dispatch \/ Sample \/ ClearQueue \/ RemoveKeys

Next ==
  \/ \E s \in Sessions : SessionStep(s)
  \/ \E u \in Uids : PromptStep(u)
  \/ Poll
  \/ Driver

Spec == Init /\ [][Next]_vars

(* A session ends, a coroutine whose gather has returned goes on, the thread *)
(* polls at its interval, and the trainer runs on.                           *)
Fairness ==
  /\ \A s \in Sessions : WF_vars(SessionStep(s))
  /\ \A u \in Uids : WF_vars(PromptStep(u))
  /\ WF_vars(Poll)
  /\ WF_vars(Driver)
FairSpec == Spec /\ Fairness

-----------------------------------------------------------------------------
BufferTypeOK ==
  /\ tq \in [Key -> {"none", "success", "finished", "failure"}]
  /\ polling \in BOOLEAN
  /\ snapshot \in [Key -> {"none", "success", "finished", "failure"}]
  /\ partition \in [Key -> {"none", "running", "success", "finished", "failure"}]
  /\ session \in [Sessions -> {"none", "running", "done", "empty", "failed"}]
  /\ prompt \in [Uids -> {"none", "running", "finished", "failure"}]
  /\ failures \in 0 .. MaxFailures
  /\ round \in Round
  /\ trainer \in {"mark", "dispatch", "sample", "use", "remove", "done"}
  /\ batch \subseteq Sessions

(* A sampled batch holds every trajectory of each of its prompts that        *)
(* finished: a poll never shows the mark "finished" before the trajectories  *)
(* that were put before it.                                                  *)
FinishedAreWhole ==
  trainer = "use" =>
    \A u \in Uids \cap OfRound(round) :
      prompt[u] = "finished" =>
        \A s \in SessionsOf(u) : session[s] = "done" => s \in batch

(* A training batch holds trajectories of its own prompts and no others, and *)
(* those are still in the transfer queue.                                    *)
TrainsOnItsOwn ==
  trainer = "use" /\ Rounds[round].partition = "train" =>
    /\ batch \subseteq OfRound(round)
    /\ \A k \in batch : tq[k] = "success"

(* What the cleanup leaves of an earlier batch's trajectories in the         *)
(* transfer queue belongs to a prompt one of whose sessions failed.          *)
LateOnlyOfFailed ==
  \A s \in Sessions :
    s[1] < round /\ tq[s] = "success" => prompt[UidOf(s)] = "failure"

(* Every sampling returns, also when sessions fail or give no output. *)
SampleReturns == trainer = "sample" ~> trainer = "use"

(* The comment on the cleanup: "cleanup transfer queue and replay buffer".   *)
(* A batch cleaned up is not sampled again; but an answer of the transfer    *)
(* queue from before the cleanup, added after it, brings the keys back, and  *)
(* the next batch of the same validation takes them.                         *)
CleanedUp ==
  trainer = "use" => \A k \in batch : tq[k] # "none"
=============================================================================
