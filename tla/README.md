# VoteRisk / verl: a TLA+ development of the asynchronous training pipeline

This directory specifies the control core of the repository in TLA+, model-checks
it with TLC on small instances and proves its main invariants with TLAPS for every
value of the constants. VoteRisk is a fork of verl, a reinforcement-learning
trainer for language models. Most of its code is numerical; what is hard to test is
the code that keeps generation and training running concurrently, that saves and
resumes such a run, and the algorithms that deal out and shape a batch. Paths below
are relative to `src/`; `FA/` stands for `verl/experimental/fully_async_policy/`.

## 1. Inventory

| Part | State | Operations | Interacts with | What is hard, what must hold |
|---|---|---|---|---|
| Message queue actor, `FA/message_queue.py` | bounded deque, validation deque, running flag, statistics, condition variable | put, get (waits), size, statistics, clear, shutdown, put and get of validation results | rollouter puts, trainer gets, main clears | wake-ups against concurrent callers; the oldest entry dropped at the limit; statistics that add up |
| Rollouter, `FA/fully_async_rollouter.py` | pending queue, active tasks, staleness count, pause flag and event, asyncio lock | feed, process, generate, monitor, reset_staleness, end | queue; trainer through reset_staleness; LLM servers | five kinds of coroutine interleaved at awaits; decisions on stale figures; lock held over waits; staleness budget; termination |
| Trainer, `FA/fully_async_trainer.py` | local step, parameter version, batch | collect, update, synchronise, validate, save, stop | queue, rollouter, checkpoint engine | end marker in the middle of a batch; last updates of a run |
| Main, `FA/fully_async_main.py` | the two fit futures | create, run, clear | all actors | failure of one side |
| LLM servers: balancer, clients, manager, `verl/workers/rollout/llm_server.py`, rollouter lines 50-366 | in-flight counts, sticky sessions, hybrid replicas | acquire, release, add, remove; generate with resume | servers, trainer-side validation | late releases, removed servers, aborts that race with requests |
| Weight synchronisation, `verl/checkpoint_engine/base.py`, `verl/workers/rollout/vllm_rollout/vllm_async_server.py` | paused, asleep, weights version of each replica | abort, transfer, resume, sleep, wake | clients, trainer | no token while weights change; partial samples resumed, with the right version range |
| Checkpoints of an asynchronous run, trainer lines 588-739, rollouter lines 602-674 | files, tracker file, dataloader position | save, crash, load | trainer, rollouter, engines | a crash between any two writes; samples skipped or repeated on resume |
| Checkpoint managers of the engines, `verl/utils/checkpoint/` | list of saved paths, directories | make room, write, register | the trainer's save | retention that removes what the tracker still names |
| Synchronous trainer over the transfer queue, `verl/trainer/main_ppo_sync.py` | replay buffer, polled copy, transfer queue | mark, dispatch, put, poll, sample, clean up | agent-loop workers | answers of a poll that are older than a cleanup; sessions later than their batch |
| Sequence-length balancing, `verl/utils/seqlen_balancing.py`, `_balance_batch` of `verl/trainer/ppo/ray_trainer.py` | a heap of partial solutions | push, merge, arrange, restore | actor, critic, trainer | no empty partition, balance, order restored, groups kept whole |
| Reward loop, `verl/experimental/reward_loop/reward_manager/limited.py` | two token buckets, semaphore, executor | acquire, enter, call, time out | reward functions | unordered waiters, negative balance, threads that outlive their timeout |
| VoteRisk shaping, `experiments/voterisk/vote_risk_impl.py` and the copy in `verl/trainer/ppo/core_algos.py` | modes found so far | cluster, risk, correct, clip | advantage computation of the DAPO and PPO launchers | signs, order and zero-sum of the corrections; two versions that differ |
| EDAS, GRPO, warmup, `verl/trainer/ppo/core_algos.py`, `ray_trainer.py` | none | group, adjust, scale | trainer | not modelled, section 6 |

How the asynchronous pipeline works: the feeder numbers prompts and puts them into
a bounded asyncio queue. The processor pulls them and starts one task per sample, at
most `max_concurrent_samples` of them; a task generates and puts its sample into the
message queue, which drops its oldest entry when full. The trainer takes
`required_samples` at a time, updates, and after `trigger_parameter_sync_step`
updates completes a parameter version, synchronises weights and calls
`reset_staleness` on the rollouter. The processor counts what it pulls in
`staleness_samples` and pauses when that reaches `max_required_samples`, or the queue
is full; `reset_staleness` or the monitor resumes it. After the last sample an end
marker follows through the same queue.

## 2. Modules

**Asynchronous pipeline**

* `MessageQueue.tla`: the samples' side of the queue actor. One action per method; `get_sample`, which can
  give the lock up, is three (`GetSample`, `GetWaits`, `GetClosed`) over the sets of
  sleeping and of notified callers. `cleared` is an auxiliary count of what
  `clear_queue` removes, which the code only logs.
* `QueueActor.tla`: the whole actor, with the queue of validation results beside it.
* `DropOldestChannel.tla`: the abstract promise, without deque or lock: the log of everything put, how much of it
  has left at its old end, and the sequence of what was handed out.
* `QueueHistory.tla`: the actor with a recorder of what `put_sample` was given (`log`) and what `get_sample`
  returned (`got`), and the mapping to the channel. The recorder reads the arguments and results of the
  calls, not the deque, so that a put that dropped the newest entry, or a get from the wrong end, would
  hand out something the channel does not.
* `FullyAsync.tla`: rollouter, trainer and end of main, composed with an instance of
  `MessageQueue`. An action is a maximal stretch of code without a suspension
  point, so coroutines of one actor interleave exactly at awaits. Coroutines have a
  "where" variable: `feeder`, `processor`, `task[s]`, `streaming`, `monitor`,
  `trainer` (which includes the `reset_staleness` call it waits for). A local of
  a coroutine is forgotten (set to 0) once the code no longer reads it.

**Serving**

* `LoadBalancer.tla`: the Ray actor that routes requests. One action per method,
  the pool, the counts, the sticky sessions with their LRU order, and which server each
  request has acquired and not yet released (`ticket`; the code keeps it in the client).
  `MCLoadBalancer.tla` adds the history by which sticky sessions are judged: where each
  conversation went last and in which order conversations were routed.
* `Serving.tla`: agent loops with their clients, the servers and the trainer's calls,
  over the load balancer (EXTENDS: it uses the balancer's actions as its methods).
  `MCServing.tla` says how many turns each conversation has.
* `Generation.tla`: what an agent loop may count on, without servers, routing or
  interruptions; `ImplementsGeneration` is the refinement.

The pipeline and serving are two models: in `FullyAsync` a generation is one task that ends
or raises, and `Serving` is what happens inside it. The trainer's synchronisation, one
step of the first, is the script of calls in the second.

**Saving and resuming**

* `RunCheckpoint.tla` (`MCRunCheckpoint.tla`): the job of section 1 with the pipeline reduced to
  the set of samples in it, and every write of `_save_checkpoint` as an action: for each part
  making room, creating the directory, the shards, the registration; `data.pt` opened and
  written; the tracker truncated and written. `Crash` may come between any two, or after the
  end. `Start` is `load_checkpoint` of trainer and rollouter. What survives a crash is
  `dir`, `weights`, `dataFile` and `tracker`; all else is the memory of a job.

**Synchronous trainer**

* `ReplayBuffer.tla` (`MCReplayBuffer.tla`): trainer, agent-loop workers, transfer queue (external: a map
  of tags) and the polling thread, whose answer and merge are two steps.

**Batches, rewards, advantages**

* `KarmarkarKarp.tla`: `karmarkar_karp` by its heap; `Start` is the call, `Merge` one
  iteration. Ties the heap breaks in an unspecified way are choices.
* `MicroBatches.tla` (`MCMicroBatches.tla`): its callers, over `KarmarkarKarp`: `rearrange_micro_batches`
  with and without groups, `_balance_batch` with and without prefix groups, and the way back.
* `RewardLimits.tla` (`MCRewardLimits.tla`): `run_single` over the two buckets, the semaphore, the timeout
  and the threads of the executor. Time is what is left of each sleep and what has passed
  since each refill; `clock` is a history variable for one invariant.
* `VoteRisk.tla` (`MCVoteRisk.tla`): one group of responses shaped by either version (`launcher`), answers
  clustered one after another. Integers over a common denominator stand for the quotients. The risk of a mode is
  the closed form of `vote_risk_single_mode`, which `VoteThreat.tla` states beside the probability it stands for.

**Proofs**: `MessageQueueProofs`, `FullyAsyncProofs`, `ServingProofs` (with the load balancer), `RunCheckpointProofs`,
`ReplayBufferProofs`, `KarmarkarKarpProofs` (with its callers), `RewardLimitsProofs`, `VoteRiskProofs`.

Definitions marked `fault:` (their name mostly ends in `Faulty`) are plausible mistakes in the code (a dropped
count, an off-by-one, a forgotten notify), written before the definition they vary;
nothing in the models uses them. They record that the properties notice such
mistakes: with the faulty variant in place of the real definition, TLC reports the
property that `PROJECT.json` pairs with it.

### Correspondence with the code

| Code | Model |
|---|---|
| `asyncio.Lock` of the rollouter | `lock`: the holder followed by the waiters in FIFO order, for the two parties that keep it over an await (processor, reset). Parties that hold it for one stretch without awaits (monitor, streaming main) act when it is free. |
| `_resume_event`, `resume_future` | `resume_event`; the future is taken to be resolved when the event is set, and a resumed processor leaves the drain at its next step |
| `await get_statistics()` / `get_queue_size()` | two steps: the size is read when the queue answers and used later (`seenSize`, `monitorSize`; in `reset_staleness`, `countedTasks` is read first and the size last) |
| `await put_sample()` in a task | two steps: the entry is in the queue, later the reply ends the task ("replying") |
| `asyncio.wait(active_tasks)`, reaping | any number of finished tasks is reaped; awaiting one that raised makes the processor fail, after an unknown part of the drain |
| `staleness_samples += 1` outside the lock | part of `ProcessorPulls` |
| exception in a generation | `TaskRaises`, at most `MaxFailures` per behaviour |
| `TrainingStopException` | `stopping` |
| a turn of an agent loop, `FullyAsyncLLMServerClient.generate` | `turn[r]`, a record: `pc` is idle, sent, running or resting (the second of sleep before it goes on); `got`, `lo`, `stop` are `final_output`'s, forgotten when `generate` returns; `first`, `last` what the agent loop keeps over the turns; `used` is auxiliary |
| `LLMServerClient.generate` and `_release_server` | acquire and send are one step (`CallServer`); the release is a step of its own (`Release`), before the same conversation's next acquire because a worker's messages arrive in order |
| abort, drain, transfer, label, resume, sleep: `asyncio.gather` over replicas | one action per server, any order; `todo` holds those that have not answered; `script` is the sequence of calls the trainer has yet to make |
| `engine.pause_generation` / `resume_generation` | `paused`; a request sent to a paused engine waits (pc "sent") |
| `global_steps` of a server, and the weights it computes with | `label` and `weights`, two variables because two calls set them |
| `dataloader.state_dict()` in `data.pt` | the number of samples read; a sample is its position in the data |
| `open(tracker, "w")` and the write | `OpenTracker`, `WriteTracker`; between them the file is empty (`Torn`), and `int("")` of the next start raises |
| key `f"{uid}_{session}_{index}"` and `uid` of the transfer queue | `<<round, prompt, session>>`, session 0 for the uid |
| `kv_list` and `ReplayBuffer.add` of the polling thread | `PollTakes`, `PollAdds` |
| `asyncio.gather` of a prompt's sessions | `Gathered`; on a failure the prompt is marked while the other sessions run on |
| `heapq` of `State` | a set of states, popped by `Before` |
| `asyncio.sleep` in a bucket, `asyncio.wait_for` | `sleep[r]`, `patience[r]`, counted down by `Tick` |
| `run_in_executor` | `calls`, at most `Workers` when `compute_score` is synchronous; a timed-out call stays in `calls` |

### Abstractions: pipeline

Samples are numbers, weights and batches are not modelled. Timing, logging, metrics and
the monitor's ten-second sleep are left out: the monitor may act at any time. Before the
model starts, `fully_async_main.py` has created the actors and made the first weight
synchronisation, whose `reset_staleness` finds everything empty. Validation
(`do_validate` blocks the rollouter's event loop, which only slows it) and failure of a
whole actor are not in `FullyAsync`; checkpoints are `RunCheckpoint`'s. The model assumes
`test_freq > 0`: with 0, legal elsewhere in the trainer, line 409 of
`fully_async_trainer.py` divides by zero at the end of the run.

### Abstractions: serving

The behaviour starts after the first weight synchronisation: standalone servers at
version 0, hybrid servers asleep and out of the pool. A validation at version 0 comes
before any request and is left out.

* Tokens are counted, not chosen. Agent loops give no `max_tokens`, so the server computes
  the budget (`Budget`); `Slack` is what the prompt leaves of `prompt_length`.
* An answer of the server and the client's merge of it are one step. The merge touches
  client-local state only, and the abort's answer takes its label before a later
  `set_global_steps` on the same server.
* An aborted answer may be empty and without label (`lost`), as at line 544 of
  `vllm_async_server.py`; which ones are is a choice of the model.
* A weight transfer is atomic per engine (it is a collective RPC between engine steps),
  its label is set by the call that follows.
* vLLM is external: it is modelled from how the server uses it. A request that waits in a
  paused engine is not counted by the drain.
* Validation requests are requests like any others, and `do_validate` ends at any time.
* Hybrid replicas are added and removed together, as the trainer does, and the calls
  succeed: the branches that log an exception and return 0 are a hazard no property covers.
* Agent loops come and go as they like: a turn may never be asked for.
* KV cache release, tensors' transport and failures of a server are left out.
* `EnginePauses` is FALSE for a vLLM older than 0.12, whose `abort_all_requests` does not
  pause the engine (`vllm_async_server.py:684`). The runs and `IdleDuringTransfer` are about
  TRUE. With FALSE, in an otherwise equal instance of one server, TLC
  finds a turn that starts after the drain and computes while weights change.

### Abstractions: saving and resuming

`FullyAsync` models the pipeline in detail; here it is the set `inFlight`, of at most
`MaxInFlight` samples, from which a training step takes any `RequiredSamples`. That allows every
order in which samples can arrive. Losing a sample (a full queue, a failure) is left out: it can
only raise what is skipped. The engines' shards are one write per part, complete at the
barrier. One epoch; copies to remote storage are left out. With `Esi`, saving may be due at any
version (`should_save_ckpt_esi` looks at the clock).

### Abstractions: synchronous trainer

What is computed on a batch, its checkpoints and the dynamic filtering of groups are left out;
the cycle is dispatch, sample, use, clean up, for a given sequence of training and validation
batches. The trajectories of a
session are put in one call, so one key stands for them; a session may yield none. The transfer queue is a map from keys to
tags with atomic calls.

### Abstractions: batches, rewards, advantages

Workload is the code's `24576 * l + l * l` on integers. Other data-parallel ranks are the maximum their
`all_reduce` contributes. In the reward limits, one rate of requests and one of tokens per tick stand
for requests and tokens a second; a request's estimate of tokens is the same for all, as in the code.
In VoteRisk the rounding of floats and the guards against division by almost zero (1e-12, 1e-9) are left
out; the answer checker is any relation on answers, which need be neither symmetric nor transitive.

## 3. Runs

| Run | Instance | Shows |
|---|---|---|
| `message_queue` | 2 items, 3 callers, capacity 2, 5 puts, 2 waiting validation results | `NoLostWakeup`, `EntriesAccountedFor`, what is handed out is what was put, oldest first (`ImplementsChannel`) |
| `pipeline` | 5 samples, batches of 2, threshold 3/4 (3.5 truncated to 3 samples), two tasks, one failure, fair, no timing assumption | `ConcurrencyLimit`, `NeverTwice`, `SamplesAccountedFor`, `RolloutBudget`, `PlannedStepsDone`, `TerminatesOrStarves` |
| `trainer_starved` | 5 samples, batch 1, threshold 1/2, one task, fair | a counterexample to the README's "continues" (`TrainerKeepsConsuming`) |
| `load_balancer` | 4 conversations, 2 standalone and 2 hybrid servers, cache of 2 | `NeverOvercounts`, `StickySession` |
| `serving` | 2 conversations, one of 2 turns, 1 standalone and 1 hybrid server, 2 synchronisations with a validation after the first, cache of 1, fair | types with the budget of resumed requests (`ServingTypeOK`), `ServersAsExpected`, `VersionsBracketed`, `IdleDuringTransfer`, `ImplementsGeneration`, `TurnsAnswered` |
| `safe_sleep` | 2 conversations, 1 standalone and 1 hybrid server, one validation | a counterexample to "safe sleep" |
| `replay_buffer` | a validation of two batches, then two training steps; batch of 1, 2 sessions, one failure, fair | `FinishedAreWhole`, `TrainsOnItsOwn`, `LateOnlyOfFailed`, `SampleReturns` |
| `replay_cleanup` | a validation of two batches, no failure | a counterexample to the cleanup's comment (`CleanedUp`) |
| `run_checkpoint` | 6 samples planned of 8, versions of 2, at most 2 in flight, save_freq 2 with early saves, actor and critic, 1 or 2 checkpoints kept, 2 restarts, fair | `NamedIsComplete`, `NeverTwice`, `SkippedBounded`, `NoMoreThanPlanned`, `EndSaved`, `Retained`, `EndsOrTorn` |
| `micro_batches` | every choice of lengths {1, 3, 4} for 5 or 6 samples, at most 4 tokens a micro-batch, divisors 1 and 2, 1 to 4 ranks, groups of 2 | `BalancedHeap`, `PartitionsSound`, `Restored`, `GroupsTogether` |
| `vote_risk` | every group of 5 responses with 1 to 4 correct ones, answers of three kinds, three equivalence checkers (one not transitive), K = 3 | `SignsKept`, `RiskDecidesOrder`, `ZeroSum`, `RiskIsProbability`, for both versions |
| `reward_limits` | 3 requests, one a tick, requests larger than the token bucket, semaphore of 1, timeout of 1, 2 threads, both kinds of compute_score, fair | `NeverAheadOfRate`, `SimultaneousCalls`, `EveryoneAnswered` |

### Bounds

All bounds are constants of the .cfg files or definitions of an MC module. What they were chosen for:

* Pipeline: the feeder's bounded queue blocks, the processor pauses and is resumed, the message queue
  reaches its limit and drops, the budget is exceeded by its one sample, tasks raise, are
  cancelled and are reaped late, a reset queues behind the processor's wait for a slot, the end marker meets a partial
  batch, and the rollouter starves the trainer. TLC reaches each of them (checked with the negation as an invariant). The literals 16 and 128
  of the code are constants (`TasksPerReplica`, `PendingSize`) so that the limits are
  reached. `MaxPuts` and `MaxValidate` bound the queue actor's own run.
* Serving: `MaxTurns` and `MaxVersion` bound the behaviour: two turns are needed for the agent loop's
  minimum and maximum, two versions for a turn that is interrupted twice or resumed on
  another server, two conversations for two requests on one server, a cache of one for an
  evicted session. There are one validation and two versions, for the size of the liveness check: with a second validation
  or a third version the safety properties and the refinement hold in up to 3.4 million
  states, and for any numbers they are proved.
* Replay buffer: two validation batches share a step, two training steps do not; two
  sessions for one that fails while the other is late.
* Checkpoints: two restarts for a checkpoint of a resumed run; `TotalSteps` three versions, so that
  retention removes something, with an early save between the scheduled ones; fewer planned samples than data for a feeder
  that stops, more restarts' samples than data for an iterator that ends.
* Micro-batches: six samples give three groups of two, and more partitions than a merge
  can fill by chance.
* VoteRisk: five responses are the fewest with two modes of different size beside a
  correct response and one that does not vote.
* Reward limits: `Horizon` stops the clock of `NeverAheadOfRate` and nothing else.

No symmetry is used: samples are ordered. Deadlock is checked except in `run_checkpoint`,
`micro_batches`, `vote_risk` and `reward_limits`, which really stop: a job that has ended or cannot be
loaded, a computation that is finished, requests that are all answered. In `FullyAsync` and `Serving` the
one final state is the explicit `Terminated`.

### Fairness

* Pipeline: every coroutine that can run is run in the end: an asyncio event loop is FIFO, and so is
  `asyncio.Lock`. Each generation ends (the servers answer); none is obliged to raise.
  Nothing is assumed of who wins a race, nor of how long a training step takes. A run therefore may starve
  (finding 1), and `TerminatesOrStarves` says that this is the only way not to end.
* Serving: clients come back after their rest, messages arrive, engines that have weights go
  on, a training step ends, and each call of the trainer is answered when it can be. Weak fairness
  is enough: every one of these steps stays possible until it is taken. No agent loop is obliged to
  begin a turn, and nothing is expected of an engine whose weights are released
  (`OnSleepingServer`), which is the exception `TurnsAnswered` names.
* Replay buffer: a session ends in one of its ways, a coroutine whose gather has returned goes on,
  the thread polls at its interval, the trainer runs on.
* Checkpoints: the job's processes are scheduled and a job that is down is started again
  (a cluster scheduler's part); a crash is never owed, and at most `MaxRestarts` happen.
* Reward limits: time passes, the event loop runs every coroutine, a call of compute_score returns at last.
* Queue, balancer, micro-batches and VoteRisk are checked for safety and refinement only.

### Findings

1. `trainer_starved`. `len(active_tasks)` includes finished tasks that have not been
   reaped, and a task whose sample reaches the queue before `get_queue_size` is answered
   is counted twice. If that fills the budget, the rollouter stays paused, the monitor
   agrees, and the trainer waits for a sample that will not come (`FA/README.md:142` says that
   it continues). It takes a training step shorter than the rollouter's bookkeeping, so
   it is a latent fault.
2. `safe_sleep`. A request that acquires a hybrid server between its abort and its removal
   from the balancer (trainer lines 578-580) waits in the paused engine, is not drained, and
   runs when the sleeping server is resumed (line 583). If it is still there at the next validation, the
  server wakes with weights newer than its label and may answer with both: the history field `stray`
  marks such a conversation, and `VersionsBracketed` excepts it; so does `Generation` (`HoldUp`), which otherwise
  promises an answer no more than one version old.
3. `replay_cleanup`. The polling thread merges an answer taken before the cleanup of a batch
   after it (`main_ppo_sync.py:214-216`): the batch's keys are back with the tag success and nothing removes
   them. The batches of one validation carry the same step, so the next one samples them, with no data in the transfer
   queue. Training batches have steps of their own: `TrainsOnItsOwn` holds.

Seen while modelling, and stated by the properties as the code has it:

* `FA/README.md:136-140` bounds what is generated between two updates by `rollout_num`. One sample
  more is possible, the one the processor holds during a reset; `RolloutBudget` states the bound plus one.
* `FA/README.md:214-217` says that without `partial_rollout` a synchronisation waits for ongoing
  tasks. `update_weights` aborts them all the same (`checkpoint_engine/base.py:461`), and the
  client returns the stump as the answer.
* With `max_actor_ckpt_to_keep` 1 an engine removes the checkpoint the tracker names before the new
  one is complete: `NamedIsComplete` excepts a save in progress in that case. A tracker truncated by
  a crash (lines 685-686) keeps every later start from coming up: `EndsOrTorn`.
* `sample()` returns as soon as a prompt is marked failed; trajectories its other sessions put later
  are never cleaned up (`LateOnlyOfFailed`), nor are the keys of finished prompts themselves.
* `max_concurrent` of the reward manager does not limit synchronous calls that outlive their timeout;
  the executor's threads do (`SimultaneousCalls`).
* `max_token_len` bounds the number of micro-batches, not the tokens of each; with a minimum number
  above the number of samples `rearrange_micro_batches` raises (phase "refused").
* The balancer's count of a hybrid server is an estimate: `add_servers` sets it to 0 while a
  request of its earlier life may still hold the server, and that request's late release then
  takes another's count away (`llm_server.py:97,111`). `NeverOvercounts` says that this error is in one
  direction only and never touches standalone servers.
* The version of VoteRisk in `core_algos.py`, which the PPO launchers use, rewards the wrong answers the
  reviewed one penalises, as `experiments/voterisk/REVIEW_20260910.md` says; `RiskDecidesOrder` states both.
* A `get_sample` of a queue that was shut down returns a bare None, which the trainer unpacks as a pair
  (`fully_async_trainer.py:292`); nothing in the pipeline calls `shutdown`.

## 4. Proofs

`MessageQueueProofs` (for every item set, set of callers and capacity):
`MQTypeCorrect`, `NoWakeupLost`, `EntriesAccounted`, `ActorCorrect`, which
carries them over to the actor with its second queue, and `QueueImplementsChannel`. The only
assumption is a positive capacity. `NoLostWakeup` is inductive with the types;
`EntriesAccountedFor` needs that a get and a drop happen only on a non-empty queue. The refinement maps contents and
order: its invariant `HistoryInv` says that the deque is, entry for entry, the log of all puts without its first
consumed + dropped + cleared entries. `HistoryStep` shows that each recorded
step is one of the actor's; that none is missing is to be read off `HistoryNext`, which goes through the alternatives of `ActorNext`.

`FullyAsyncProofs` (for every configuration that satisfies `FullyAsyncAssumption`):
`TypeCorrect`, `BudgetKept`, `LimitKept`, all from `Invariance: Spec => []IInv`, and `SamplesOnce`. `IInv`
conjoins, and TLC has checked each on small instances before the proof:

* `LockInv`: `lock` is exactly the queue of those who want it. Without it a release
  (`Tail(lock)`) could wake the wrong party.
* `HeldInv`: where the processor has an item in its hands. It gives the "+1" of the budget.
* `TaskInv`, `CountInv`: a generating task is active, and `reset_staleness`'s count is
  not overtaken during its await, since the processor submits only with the lock.
* `TrainerInv`: batch and local step by the trainer's position; at a reset nothing of the
  next round has been consumed.
* `BudgetInv`: the load is at most `staleness_samples + 1` (the held item is what the
  reset misses), at most `MaxRequired + 1`, and at most `MaxRequired` when the processor
  has decided to pull. The last part is what makes the middle one inductive: the decision
  was made with `staleness_samples < MaxRequired`.
* `LimitInv`: room is left for the sample that waits for the lock to be submitted.

`SamplesOnce` (`NeverTwice`) adds `OnceInv`: samples not yet fed are nowhere (`Unfed`), those that
wait for a task are in the pending queue or the processor's hands and once there (`Waiting`), and those whose task has put them are
in the message queue or the batch, once (`Arrived`). Where a sample may be follows from its task's state.

`LossesCounted` (`SamplesAccountedFor`) counts what is nowhere any more: `LossInv` bounds the vanished samples by those the
queue dropped, those cleared and, once the trainer stops, the batch it gives up; a trainer that has stopped neither collects nor
trains any more (`StoppedInv`), so that this happens once. `PlanDone` (`PlannedStepsDone`) rests on `BooksInv`, the accounts of every run: entries put
and entries got, of which `RoundInv` says that updates and batch use them up; and on `PlanInv`, of runs without a failure: the feeder
leaves out no sample (`FeedPlan`), and behind the end marker nothing comes, in either queue (`NoneLast`, `QueuePlan`).

`ServingProofs`, of the load balancer (for every number of servers, requests and sessions; assumption
`LBAssumption`: at least one standalone server and a cache of one, finitely many requests):
`CountsKept` and `NoOvercount`. The property speaks of servers in the pool; the inductive
`CountInv` adds that counts are 0 outside it, without which a server added with a count
left over would break the bound. Two lemmas on the cardinality of the holders carry acquire and
release; for the counts sticky sessions only choose among servers of the pool.
`BalancerTypeCorrect` (`LBTypeOK`) is about the cache (`CacheInv`), whose entries are renewed, deleted when their server
is gone, and evicted: they stay distinct and within its size, and have the routes. `SessionsStick` (`StickySession`) is proved
of the balancer with its history (`MCLoadBalancer`): `StickyInv` says that the cache is the newest part of the history of
acquisitions (`Newest`: a suffix, and all of it while there is room) and agrees with it about the servers. A session deleted because its server was gone is the one that
is being routed, which is why no entry is ever missing in between.

`ServingProofs`, of serving (for every number of servers, conversations, turns, synchronisations and validations;
`ServingAssumption`): `ServingUsesBalancer`, every behaviour of serving is a
behaviour of the balancer, so `ServingCounts`: the counts are right whatever agent loops,
engines and trainer do. `ServersKept` is the invariant of the rest. The calls of a synchronisation and of the
validation that may follow are numbered 1 to 20, 21 is outside (`Position`); the number and the servers still to answer
say of each standalone and each hybrid server which weights it has, which label, whether it is paused, and what the
pool is (`ServersAt`). A conversation is in order (`Order`) against the newest label it can meet, which
the fourth call, the label of the standalone servers, raises by one while all of them are paused and so
run nothing. From it follow `ServersReady` (`ServersAsExpected`, with any engine), `TransfersIdle`
(`IdleDuringTransfer`, assuming `EnginePauses`) and `VersionsKept` (`VersionsBracketed`, assuming also
`PartialRollout`: without it an aborted request may end a turn without any version).
`ServingImplementsGeneration`, under the same two, is the refinement. `PromiseInv` adds what no conversation knows:
none has been told a version that a server it may be sent to does not answer with yet, and hybrid servers
never answer with a newer label than standalone ones, asleep or not.
`ServingTypeCorrect` (`ServingTypeOK`) is the balancer's types, by `ServingUsesBalancer`, and `BudgetInv`: what a conversation has got
and what its engine has made since stay short of the budget (`Spent`), whatever is lost by an abort, and the versions it knows are versions.

`RunCheckpointProofs` (for every size of run, version and save, any number of restarts, crashes anywhere;
`RunCheckpointAssumption`): `CheckpointTypeCorrect`, `CheckpointsKept`, `TrainedOnce`, `FewSkipped`,
`PlanKept`. The invariant `CkInv` has to say what a file means to a life of the job that has
not begun: `Named` (what the tracker names was trained up to the position saved with it, short of as many
samples as its lineage can have skipped), `Lineage` (the same of the model in memory), `Counted` (versions, local
steps and samples in flight use up what the feeder has counted), `Saving` (what has been written so far is
the model, and the tracker still names the last version).
`FilesKept`, `TrackerNamesComplete` and `EndIsSaved` add what the retention of old checkpoints needs. The code that
removes a folder never looks at the tracker, so that it spares what the tracker names follows from an order:
`FilesInv` says that the lists of saved paths increase, that the version named is the newest on each until the
save in progress registers its own (`Listed`), and how many updates there are since the last save (`Behind`). A limit of 1
breaks it, and is excepted in `NamedIsComplete`.
`DisksBounded` (`Retained`): what is on disk and not of this life of the job (`OwnDirs`: on its list of saved paths, or being written)
is what the lives before have left, no more than the limit each; and the list is one short of its limit while a folder is written.

`ReplayBufferProofs` (for every sequence of batches, batch size, number of sessions and failures;
`ReplayBufferAssumption`: training batches have steps of their own): `BufferTypeCorrect`, `BatchesWhole`,
`OwnBatches`, `OnlyLateLeft`. The tags exist in three copies, the transfer queue, the answer on its way and the
buffer; `RInv` says of each that it shows nothing that has not happened (`Tags`) and never the mark of a prompt without
its trajectories (`Whole`), except for batches the trainer is done with, which is where finding 3 lives.

`KarmarkarKarpProofs` (for every list of weights and number of partitions): `Balanced`. Merging the
heaviest bins of one state with the lightest of the other, the differences work against each other, so the
larger of the two spreads bounds the new one; for this every state must be in descending order, which is the invariant. The heap's order plays no part in it: which two states are merged does not matter.
`PartitionsRight` (`PartitionsSound`): `ItemInv` says that every item is in exactly one place of the heap (`Covers`, `Once`) and that a state
has either no empty bin or nowhere more than one item, its empty bins last (`Stocked`), which needs that an
empty bin is the lightest; so merging in mirrored order fills bins before it doubles them. At the end, counting the
items of the one state left gives both asserts. `ChunkPlaces` is the arithmetic of the first chunks.

The same module then proves the callers, for every batch, budget, group size and number of ranks (`MicroAssumption`: every
sample has tokens, batches are whole groups, and the counts are positive): `BatchesBalanced` (`BalancedHeap` and `PartitionsSound`
hold of their partitions: what they pass is what `karmarkar_karp` accepts, by the lemma `CallersPartition`, so the two theorems above apply), `SamplesRestored` (`Restored`) and `GroupsStay` (`GroupsTogether`). `MicroInv` is the invariant
of the partitioning with the batch behind the weights (`BatchInv`) and the size of the call in progress; the argument is in the last step, `Arrange`.
`Deals` says that sequences hold every sample once, and each rearrangement keeps it: sorting by a strict order
(`OrderedInOrder`), the shuffles that put the light ones at both ends (`ShufflesPermute`, which give the place each element comes from), whole groups for items
(`BlocksPartition`), and flattening (`FlattenRenumbers`). A sorted list of numbers keeps consecutive ones
together (`RunTogether`), hence the groups. `NumMicroBatches` is at least 1 because the lengths sum to at least 1, which takes
the same construction of sums as `VoteRiskProofs`; `CountUp` replaces induction over the natural numbers, whose library
theorem no prover here can instantiate, by induction on the subsets of `1 .. n`.

`RewardLimitsProofs` (for finitely many requests, any rates and limits): `LimitsTypeCorrect`,
`CallsLimited`. `LInv` adds that a running call belongs to a request that waits for it or, with threads only, was
answered by its timeout, and that whoever waits holds the semaphore.
`RateLimited` (`NeverAheadOfRate`): the inequality alone is not inductive, because a balance may be negative and
those in debt are let through later without a further look at it. `RateKept` says it for every time to come: those who have passed a layer, and
those whose sleep ends within `n` ticks (`Paid`), need no more than the capacity and the refill until then; and what
has been taken (`Took`), with what the bucket holds, comes from the same two.

`VoteRiskProofs` (for groups of any size, any advantages, any equivalence checker, transitive or not, any number of
draws and any smoothing; `VoteRiskAssumption` and `VoteThreatAssumption`): `ShapingKeepsSigns` (`SignsKept`),
`CorrectionsSumToZero` (`ZeroSum`), `RiskIsProbable` (`RiskIsProbability`) and `MoreVotesMoreNegative` (`RiskDecidesOrder`).
The invariant `VoteInv` is short: only responses
that vote are clustered, and shaped scores are what `Shape` made of the clusters. The work is in what the code
sums. The library's `SumFunction` is a fold whose order is not given; the first part of the module proves, by induction on the
subsets of a finite set, that there is such a sum (`SumsExist`), that any element can be taken out of it
(`SumRemove`), that it is linear (`SumAffine`), and that a sum over values, each as often as it is taken, is the sum over
what takes them (`SumRegroup`). The last is why the reviewed mean, weighted by votes, makes the corrections cancel,
and why that of the other version does not. A sign is kept because the clip is half of the advantage or less
(`Kappa > 1`, `KeepsSign`).

The second part is about the closed form itself, for every number K of draws. Factorials, powers and the library's `choose` are
recursive functions: that such a function exists is proved once (`Recursion`, by the same induction on subsets, since
the library's theorem takes an operator), and Pascal's triangle follows from the factorials (`ChooseInside`, `ChooseIs`).
The argument is then a count, with no arithmetic of polynomials: let a group be a box of ballots, as many of each kind as its
smoothed counts say (`BallotBox`). One draw more splits the sequences of draws by the kind of
the last (`SplitsStep`), the multinomial coefficients obey the same recursion (`ArrangementsStep`, `SplitWeightStep`),
so their product with the powers is the number of sequences with a given split (`SplitsCount`), and
the closed form is the number of sequences in which the mode ties or beats the correct answer (`ThreatCounts`). Hence it is at most the
number of all sequences, and with one ballot of each kind the same count gives the weight of a
split in `DrawnThreat` (`ThreatIsProbability`). `MoreVotesMoreRisk` compares two boxes that differ in ballots that went over from the others to
the mode: that loses the mode no sequence and wins it one, in which the correct answer is drawn once and the ballot that went over ever after.
It needs two draws. With K = 1 the mode wins whenever the correct answer is not drawn (`SingleDraw`), no two risks
differ, and nothing is redistributed (`EqualRisksDeviateNot`, `ShapedDraws`), so `MoreVotesMoreNegative` holds for every K.
Its two hypotheses are real limits of the code: lambda is not 0, which turns the method off, and no group
is larger than `vote_risk_G`, over which the version of `core_algos` takes the probabilities whatever the group's size is (the
default of 10 does not follow the number of rollouts; a larger group may give it negative weights). The reviewed version
needs only the first (`ReviewedMoreNegative`).

Only model-checked: everything temporal under fairness (`TerminatesOrStarves`, `TurnsAnswered`, `SampleReturns`,
`EndsOrTorn`, `EveryoneAnswered`), which is outside the prover's reach. Every invariant a passing run checks is stated by a theorem.

## 5. Where to start

A change of the rollouter's or the trainer's coroutines belongs in `FullyAsync.tla`, one action per stretch between two
awaits; a change of what a synchronisation does, in `Synchronisation` and `TrainerSideValidate` of `Serving.tla`; a
new file of a checkpoint, in `RunCheckpoint.tla`, where it becomes one more pair of steps between which a crash can come.

## 6. Not modelled

* EDAS and the group-relative advantages: quotients of logarithms and standard deviations, real numbers that
  neither tool computes. Clusters, signs and clips, which EDAS shares with VoteRisk, are checked there.
* Training engines, rollout correction, kernels, model code: numerical, without control of their own.
* `DataProto` and the tensor containers, reward functions, datasets, utilities, scripts: data.
* Worker groups and resource pools: the dispatch of remote calls over Ray; modelled only as calls of the actors that are.
* The synchronous PPO driver (`ray_trainer.py`), its warm-up, the separated base class and the one-step-off-policy
  trainer: sequential calls on tensors; of the driver, the balancing of the batch is modelled.
* The Megatron checkpoint manager (the same calls in another layout), copies of checkpoints to remote storage, several epochs.
* SGLang and TensorRT-LLM servers: other servers behind the same calls.
* Failures of `add_replicas` and `remove_replicas`, which the code logs and ignores, and of whole actors: the code has
  no way to go on after them.
* Balancing by mini-batch (`keep_minibatch`, `ray_trainer.py:1288-1300`), which no caller in the repository asks for, and `greedy_partition`, which nothing calls.
