----------------------------- MODULE FullyAsync -----------------------------
(***************************************************************************)
(* The streaming pipeline of verl/experimental/fully_async_policy: a       *)
(* FullyAsyncRollouter actor (coroutines on one event loop: the feeder,    *)
(* the processor, one task per sample, the monitor, the streaming main and *)
(* the reset_staleness RPC), the MessageQueue actor, and the               *)
(* FullyAsyncTrainer actor.  An action is a maximal stretch of code with   *)
(* no suspension point: coroutines of one actor interleave only at their   *)
(* awaits, the three actors interleave everywhere.  A figure read in one   *)
(* action and used in a later one is forgotten (0) by its use.             *)
(***************************************************************************)
EXTENDS Integers, Sequences, SequencesExt, FiniteSets

CONSTANTS
  TotalSteps,       (* total_rollout_steps: samples to feed                  *)
  RequiredSamples,  (* required_samples: samples of one trainer step         *)
  TriggerSync,      (* trigger_parameter_sync_step                           *)
  StaleNum,         (* staleness_threshold = StaleNum / StaleDen             *)
  StaleDen,
  Replicas,         (* number of rollout replicas                            *)
  TasksPerReplica,  (* the literal 16 of set_max_required_samples            *)
  PendingSize,      (* the literal 128: pending_queue's maxsize              *)
  TestFreq,         (* trainer.test_freq                                     *)
  MaxFailures       (* bound of the model: generations that raise            *)

ASSUME FullyAsyncAssumption ==
  /\ {TotalSteps, RequiredSamples, TriggerSync, StaleDen, Replicas,
      TasksPerReplica, PendingSize, TestFreq} \subseteq Nat \ {0}
  /\ {StaleNum, MaxFailures} \subseteq Nat

Sample == 1 .. TotalSteps
None == 0                   (* the end signal put after the last sample      *)
NoItem == -1                (* the processor holds nothing                   *)
Item == Sample \cup {None}
Trainer == "trainer"        (* the one caller of get_sample                  *)

(* set_max_required_samples: int(required * (threshold + 1) * trigger),      *)
(* also the bound of the message queue, and the limit on active tasks.       *)
MaxRequired ==
  (RequiredSamples * (StaleNum + StaleDen) * TriggerSync) \div StaleDen
MaxConcurrent ==
  IF Replicas * TasksPerReplica < MaxRequired
  THEN Replicas * TasksPerReplica ELSE MaxRequired

VARIABLES
  (* MessageQueue actor: see that module *)
  queue, mqRunning, total_produced, total_consumed, dropped_samples, cleared,
  sleeping, awake,
  (* Rollouter: feeder *)
  feeder,             (* where _feed_samples is                              *)
  global_steps,
  pending_queue,
  (* Rollouter: processor *)
  processor,          (* where _processor_worker is                          *)
  held,               (* rollout_sample, pulled and not yet submitted        *)
  seenSize,           (* queue_size as last answered to the processor        *)
  (* Rollouter: tasks *)
  active_tasks,       (* self.active_tasks: submitted and not yet reaped     *)
  task,               (* what has become of each sample's task               *)
  failures,
  (* Rollouter: shared control *)
  staleness_samples, paused, resume_event, running,
  lock,               (* asyncio.Lock: the holder, then the FIFO of waiters  *)
  streaming,          (* where _streaming_generation_main is                 *)
  monitor,            (* where _async_monitor_loop is                        *)
  monitorSize,        (* queue_size as last answered to the monitor          *)
  (* Trainer, and the reset_staleness call it makes on the rollouter *)
  trainer,            (* where fit is                                        *)
  batch,              (* queue_samples of _get_samples_from_queue            *)
  local_trigger_step,
  current_param_version,
  countedTasks,       (* len(active_tasks) as reset_staleness has read it    *)
  stopping,           (* TrainingStopException has been raised               *)
  trained             (* samples the actor has been updated with             *)

mq == <<queue, mqRunning, total_produced, total_consumed, dropped_samples,
        cleared, sleeping, awake>>
feed == <<feeder, global_steps>>
tasks == <<task, failures>>
control == <<staleness_samples, paused, resume_event, running, lock>>
mon == <<monitor, monitorSize>>
train == <<trainer, batch, local_trigger_step, current_param_version,
           countedTasks, stopping, trained>>
vars == <<mq, feed, pending_queue, processor, held, seenSize, active_tasks,
          tasks, control, streaming, mon, train>>

MQ == INSTANCE MessageQueue WITH
        Consumers <- {Trainer}, MaxQueueSize <- MaxRequired, MaxPuts <- 0

Init ==
  /\ MQ!MQInit
  /\ feeder = "feeding"
  /\ global_steps = 1
  /\ pending_queue = <<>>
  /\ processor = "check"
  /\ held = NoItem
  /\ seenSize = 0
  /\ active_tasks = {}
  /\ task = [s \in Sample |-> "none"]
  /\ failures = 0
  /\ staleness_samples = 0
  /\ paused = FALSE
  /\ resume_event = TRUE
  /\ running = TRUE
  /\ lock = <<>>
  /\ streaming = "running"
  /\ monitor = "waiting"
  /\ monitorSize = 0
  /\ trainer = "collect"
  /\ batch = <<>>
  /\ local_trigger_step = 1
  /\ current_param_version = 0
  /\ countedTasks = 0
  /\ stopping = FALSE
  /\ trained = {}

-----------------------------------------------------------------------------
(* _feed_samples.  The bound is tested after the put. *)
LastFedFaulty == global_steps + 1 >= TotalSteps   (* fault: stops one early *)
LastFed == global_steps >= TotalSteps

FeedSample ==
  /\ feeder = "feeding"
  /\ Len(pending_queue) < PendingSize
  /\ pending_queue' = Append(pending_queue, global_steps)
  /\ IF LastFed
     THEN feeder' = "ending" /\ UNCHANGED global_steps
     ELSE global_steps' = global_steps + 1 /\ UNCHANGED feeder
  /\ UNCHANGED <<mq, processor, held, seenSize, active_tasks, tasks, control,
                 streaming, mon, train>>

FeedEndSignal ==
  /\ feeder = "ending"
  /\ Len(pending_queue) < PendingSize
  /\ pending_queue' = Append(pending_queue, None)
  /\ feeder' = "done"
  /\ UNCHANGED <<mq, global_steps, processor, held, seenSize, active_tasks,
                 tasks, control, streaming, mon, train>>

-----------------------------------------------------------------------------
(* _process_single_sample_streaming, one task per sample.  Between the put   *)
(* reaching the message queue and the task being done lies the RPC's reply.  *)
(* Fault: the put is retried while its reply is outstanding.                 *)
TaskPutsFaulty(s) ==
  /\ task[s] \in {"generating", "replying"}
  /\ MQ!PutSample(s)
  /\ task' = [task EXCEPT ![s] = "replying"]
  /\ UNCHANGED <<feed, pending_queue, processor, held, seenSize, active_tasks,
                 failures, control, streaming, mon, train>>

TaskPuts(s) ==
  /\ task[s] = "generating"
  /\ MQ!PutSample(s)
  /\ task' = [task EXCEPT ![s] = "replying"]
  /\ UNCHANGED <<feed, pending_queue, processor, held, seenSize, active_tasks,
                 failures, control, streaming, mon, train>>

TaskDone(s) ==
  /\ task[s] = "replying"
  /\ task' = [task EXCEPT ![s] = "done"]
  /\ UNCHANGED <<mq, feed, pending_queue, processor, held, seenSize,
                 active_tasks, failures, control, streaming, mon, train>>

TaskRaises(s) ==
  /\ task[s] = "generating"
  /\ failures < MaxFailures
  /\ failures' = failures + 1
  /\ task' = [task EXCEPT ![s] = "raised"]
  /\ UNCHANGED <<mq, feed, pending_queue, processor, held, seenSize,
                 active_tasks, control, streaming, mon, train>>

Finished == {s \in active_tasks : task[s] \in {"done", "raised"}}
Raised(S) == \E s \in S : task[s] = "raised"

-----------------------------------------------------------------------------
ShouldPauseFaulty(size) == size >= MaxRequired   (* fault: the queue alone *)

(* _should_pause_generation, once the queue has answered with its size. *)
ShouldPause(size) ==
  size >= MaxRequired \/ staleness_samples >= MaxRequired

Holds(who) == lock # <<>> /\ Head(lock) = who

(* The processor's head of loop: self.paused, or the statistics RPC. *)
ProcessorAsks ==
  /\ processor = "check"
  /\ seenSize' = Len(queue)
  /\ processor' = "decide"
  /\ UNCHANGED <<mq, feed, pending_queue, held, active_tasks, tasks, control,
                 streaming, mon, train>>

(* paused and the event that tells resume_future change together. *)
ResumeFaulty == paused' = FALSE /\ UNCHANGED resume_event  (* fault: no set *)
Resume == paused' = FALSE /\ resume_event' = TRUE

Pause ==
  /\ paused' = TRUE
  /\ resume_event' = FALSE
  /\ processor' = "drain"

ProcessorDecides ==
  /\ processor = "decide"
  /\ \/ /\ ~ (paused \/ ShouldPause(seenSize))
        /\ processor' = "pull"
        /\ UNCHANGED <<paused, resume_event, lock>>
     \/ /\ paused \/ ShouldPause(seenSize)
        /\ lock = <<>>
        /\ Pause
        /\ UNCHANGED lock
     \/ /\ paused \/ ShouldPause(seenSize)
        /\ lock # <<>>
        /\ lock' = Append(lock, "processor")
        /\ processor' = "pauseLock"
        /\ UNCHANGED <<paused, resume_event>>
  /\ seenSize' = 0
  /\ UNCHANGED <<mq, feed, pending_queue, held, active_tasks, tasks,
                 staleness_samples, running, streaming, mon, train>>

ProcessorPauses ==
  /\ processor = "pauseLock"
  /\ Holds("processor")
  /\ Pause
  /\ lock' = Tail(lock)
  /\ UNCHANGED <<mq, feed, pending_queue, held, seenSize, active_tasks, tasks,
                 staleness_samples, running, streaming, mon, train>>

(* Awaiting the reaped tasks re-raises the exception of one that raised. *)
Reap(S, next) ==
  /\ active_tasks' = active_tasks \ S
  /\ processor' = IF Raised(S) THEN "failed" ELSE next

(* The drain discards and awaits the tasks of S one by one, in no particular *)
(* order: it stops at the first that raised.                                 *)
Drain(S) ==
  IF Raised(S)
  THEN /\ processor' = "failed"
       /\ \E gone \in SUBSET S :
            /\ Cardinality({s \in gone : task[s] = "raised"}) = 1
            /\ active_tasks' = active_tasks \ gone
  ELSE Reap(S, "drain")

(* The drain: some task has finished.  The lock is taken to reap it; when    *)
(* it is free, or else ("reapLock") after a wait during which more may end.  *)
ProcessorReaps ==
  /\ processor = "drain"
  /\ Finished # {}
  /\ IF lock = <<>>
     THEN Drain(Finished) /\ UNCHANGED lock
     ELSE /\ lock' = Append(lock, "processor")
          /\ processor' = "reapLock"
          /\ UNCHANGED active_tasks
  /\ UNCHANGED <<mq, feed, pending_queue, held, seenSize, tasks,
                 staleness_samples, paused, resume_event, running, streaming,
                 mon, train>>

ProcessorReapsLate ==
  /\ processor = "reapLock"
  /\ Holds("processor")
  /\ \E S \in SUBSET Finished : S # {} /\ Drain(S)
  /\ lock' = Tail(lock)
  /\ UNCHANGED <<mq, feed, pending_queue, held, seenSize, tasks,
                 staleness_samples, paused, resume_event, running, streaming,
                 mon, train>>

(* resume_future is done: the drain, or the block after it, ends. *)
ProcessorResumes ==
  /\ processor = "drain"
  /\ resume_event
  /\ processor' = "check"
  /\ UNCHANGED <<mq, feed, pending_queue, held, seenSize, active_tasks, tasks,
                 control, streaming, mon, train>>

Submit(s, left) ==
  /\ active_tasks' = left \cup {s}
  /\ task' = [task EXCEPT ![s] = "generating"]
  /\ held' = NoItem
  /\ processor' = "check"

(* max_concurrent_samples tasks have been submitted and not reaped. *)
AtLimitFaulty == Cardinality(active_tasks) > MaxConcurrent  (* fault: +1 *)
AtLimit == Cardinality(active_tasks) >= MaxConcurrent

(* pending_queue.get() returns.  The end signal: wait for the tasks, with    *)
(* the lock.  A sample: wait with the lock at the concurrency limit, else    *)
(* submit it with the lock.                                                  *)
ProcessorPulls ==
  /\ processor = "pull"
  /\ pending_queue # <<>>
  /\ pending_queue' = Tail(pending_queue)
  /\ staleness_samples' = staleness_samples + 1
  /\ LET s == Head(pending_queue) IN
     \/ /\ s = None /\ active_tasks = {}
        /\ held' = s
        /\ processor' = "exit"
        /\ UNCHANGED <<active_tasks, task, lock>>
     \/ /\ s = None /\ active_tasks # {}
        /\ held' = s
        /\ processor' = "endWait"
        /\ lock' = Append(lock, "processor")
        /\ UNCHANGED <<active_tasks, task>>
     \/ /\ s # None /\ AtLimit
        /\ held' = s
        /\ processor' = "limitWait"
        /\ lock' = Append(lock, "processor")
        /\ UNCHANGED <<active_tasks, task>>
     \/ /\ s # None /\ ~ AtLimit
        /\ lock = <<>>
        /\ Submit(s, active_tasks)
        /\ UNCHANGED lock
     \/ /\ s # None /\ ~ AtLimit
        /\ lock # <<>>
        /\ held' = s
        /\ processor' = "submitLock"
        /\ lock' = Append(lock, "processor")
        /\ UNCHANGED <<active_tasks, task>>
  /\ UNCHANGED <<mq, feed, seenSize, failures, paused, resume_event, running,
                 streaming, mon, train>>

(* At the limit, lock held: asyncio.wait returns, the lock is released and   *)
(* asked for again to submit, behind a reset_staleness already waiting.      *)
ProcessorPassesLimit ==
  /\ processor = "limitWait"
  /\ Holds("processor")
  /\ Finished # {}
  /\ \/ /\ Raised(Finished)
        /\ Reap(Finished, "failed")
        /\ lock' = Tail(lock)
        /\ held' = NoItem
        /\ UNCHANGED task
     \/ /\ ~ Raised(Finished)
        /\ Tail(lock) = <<>>
        /\ Submit(held, active_tasks \ Finished)
        /\ lock' = <<>>
     \/ /\ ~ Raised(Finished)
        /\ Tail(lock) # <<>>
        /\ Reap(Finished, "submitLock")
        /\ lock' = Append(Tail(lock), "processor")
        /\ UNCHANGED <<held, task>>
  /\ UNCHANGED <<mq, feed, pending_queue, seenSize, failures,
                 staleness_samples, paused, resume_event, running, streaming,
                 mon, train>>

ProcessorSubmits ==
  /\ processor = "submitLock"
  /\ Holds("processor")
  /\ ~ paused
  /\ Submit(held, active_tasks)
  /\ lock' = Tail(lock)
  /\ UNCHANGED <<mq, feed, pending_queue, seenSize, failures,
                 staleness_samples, paused, resume_event, running, streaming,
                 mon, train>>

(* After the end signal, lock held: asyncio.wait returns; while tasks are    *)
(* left the lock is released and asked for again.                            *)
ProcessorEnds ==
  /\ processor = "endWait"
  /\ Holds("processor")
  /\ Finished # {}
  /\ LET left == active_tasks \ Finished IN
     /\ Reap(Finished, IF left = {} THEN "exit" ELSE "endWait")
     /\ lock' = IF Raised(Finished) \/ left = {}
                THEN Tail(lock) ELSE Append(Tail(lock), "processor")
  /\ held' = IF Raised(Finished) THEN NoItem ELSE held
  /\ UNCHANGED <<mq, feed, pending_queue, seenSize, tasks, staleness_samples,
                 paused, resume_event, running, streaming, mon, train>>

-----------------------------------------------------------------------------
(* _streaming_generation_main: the processor has returned or raised; cancel  *)
(* the feeder, put the end marker, then clear running under the lock.        *)
StreamingPutsEnd ==
  /\ streaming = "running"
  /\ processor \in {"exit", "failed"}
  /\ feeder' = IF feeder = "done" THEN "done" ELSE "cancelled"
  /\ MQ!PutSample(None)
  /\ held' = NoItem
  /\ streaming' = "stopping"
  /\ UNCHANGED <<global_steps, pending_queue, processor, seenSize,
                 active_tasks, tasks, control, mon, train>>

StreamingStops ==
  /\ streaming = "stopping"
  /\ lock = <<>>
  /\ running' = FALSE
  /\ streaming' = "done"
  /\ UNCHANGED <<mq, feed, pending_queue, processor, held, seenSize,
                 active_tasks, tasks, staleness_samples, paused, resume_event,
                 lock, mon, train>>

-----------------------------------------------------------------------------
(* _async_monitor_loop. *)
MonitorAsks ==
  /\ monitor = "waiting"
  /\ running
  /\ paused
  /\ monitorSize' = Len(queue)
  /\ monitor' = "decide"
  /\ UNCHANGED <<mq, feed, pending_queue, processor, held, seenSize,
                 active_tasks, tasks, control, streaming, train>>

MonitorDecides ==
  /\ monitor = "decide"
  /\ monitor' = IF ShouldPause(monitorSize) THEN "waiting" ELSE "resume"
  /\ monitorSize' = 0
  /\ UNCHANGED <<mq, feed, pending_queue, processor, held, seenSize,
                 active_tasks, tasks, control, streaming, train>>

MonitorResumes ==
  /\ monitor = "resume"
  /\ lock = <<>>
  /\ Resume
  /\ monitor' = "waiting"
  /\ UNCHANGED <<mq, feed, pending_queue, processor, held, seenSize,
                 active_tasks, tasks, staleness_samples, running, lock,
                 streaming, monitorSize, train>>

MonitorStops ==
  /\ monitor = "waiting"
  /\ ~ running
  /\ lock = <<>>
  /\ monitor' = "done"
  /\ UNCHANGED <<mq, feed, pending_queue, processor, held, seenSize,
                 active_tasks, tasks, control, streaming, monitorSize, train>>

-----------------------------------------------------------------------------
(* _get_samples_from_queue: the end marker, or a sample of the batch. *)
TrainerGets ==
  /\ trainer = "collect"
  /\ LET s == Head(queue) IN
     /\ MQ!GetSample(Trainer, s)
     /\ IF s = None
        THEN /\ batch' = <<>>
             /\ stopping' = TRUE
             /\ trainer' = "final"
        ELSE /\ batch' = Append(batch, s)
             /\ trainer' = IF Len(batch) + 1 = RequiredSamples
                           THEN "train" ELSE "collect"
             /\ UNCHANGED stopping
  /\ UNCHANGED <<feed, pending_queue, processor, held, seenSize, active_tasks,
                 tasks, control, streaming, mon, local_trigger_step,
                 current_param_version, countedTasks, trained>>

TrainerWaits ==
  /\ trainer = "collect"
  /\ MQ!GetWaits(Trainer)
  /\ UNCHANGED <<feed, pending_queue, processor, held, seenSize, active_tasks,
                 tasks, control, streaming, mon, train>>

(* _fit_update_local_step: more local updates before the next version. *)
RoundContinues == local_trigger_step < TriggerSync

(* fit_step up to _fit_update_local_step. *)
TrainerUpdates ==
  /\ trainer = "train"
  /\ trained' = trained \cup ToSet(batch)
  /\ batch' = <<>>
  /\ IF RoundContinues
     THEN /\ local_trigger_step' = local_trigger_step + 1
          /\ trainer' = "collect"
          /\ UNCHANGED current_param_version
     ELSE /\ local_trigger_step' = 1
          /\ current_param_version' = current_param_version + 1
          /\ trainer' = "sync"
  /\ UNCHANGED <<mq, feed, pending_queue, processor, held, seenSize,
                 active_tasks, tasks, control, streaming, mon, countedTasks,
                 stopping>>

(* fit, after the loop: one more _fit_update_weights, which returns at once  *)
(* unless local_trigger_step is 1.                                           *)
TrainerFinishes ==
  /\ trainer = "final"
  /\ trainer' = IF /\ \/ current_param_version % TestFreq # 0
                      \/ local_trigger_step > 1
                   /\ local_trigger_step = 1
                THEN "sync" ELSE "done"
  /\ UNCHANGED <<mq, feed, pending_queue, processor, held, seenSize,
                 active_tasks, tasks, control, streaming, mon, batch,
                 local_trigger_step, current_param_version, countedTasks,
                 stopping, trained>>

(* reset_staleness, first part, with the rollouter's lock: up to its await. *)
ResetReadsTasks ==
  /\ Resume
  /\ countedTasks' = Cardinality(active_tasks)
  /\ trainer' = "resetting"

(* _fit_update_weights: the weights are synchronised, reset_staleness is     *)
(* called and asks for the lock.                                             *)
TrainerSyncs ==
  /\ trainer = "sync"
  /\ \/ /\ lock = <<>>
        /\ lock' = <<"reset">>
        /\ ResetReadsTasks
     \/ /\ lock # <<>>
        /\ lock' = Append(lock, "reset")
        /\ trainer' = "resetLock"
        /\ UNCHANGED <<paused, resume_event, countedTasks>>
  /\ UNCHANGED <<mq, feed, pending_queue, processor, held, seenSize,
                 active_tasks, tasks, staleness_samples, running, streaming,
                 mon, batch, local_trigger_step, current_param_version,
                 stopping, trained>>

ResetBegins ==
  /\ trainer = "resetLock"
  /\ Holds("reset")
  /\ ResetReadsTasks
  /\ UNCHANGED <<mq, feed, pending_queue, processor, held, seenSize,
                 active_tasks, tasks, staleness_samples, running, lock,
                 streaming, mon, batch, local_trigger_step,
                 current_param_version, stopping, trained>>

(* The new staleness_samples: what is being generated and what is queued. *)
FreshStaleness == countedTasks + Len(queue)

(* reset_staleness, second part: get_queue_size has answered. *)
ResetEnds ==
  /\ trainer = "resetting"
  /\ staleness_samples' = FreshStaleness
  /\ lock' = Tail(lock)
  /\ trainer' = IF stopping THEN "done" ELSE "collect"
  /\ countedTasks' = 0
  /\ UNCHANGED <<mq, feed, pending_queue, processor, held, seenSize,
                 active_tasks, tasks, paused, resume_event, running, streaming,
                 mon, batch, local_trigger_step, current_param_version,
                 stopping, trained>>

-----------------------------------------------------------------------------
AllReturned ==
  trainer \in {"done", "cleared"} /\ streaming = "done" /\ monitor = "done"

(* _run_training_loop: both fit calls have returned; clear the queue. *)
MainClears ==
  /\ AllReturned
  /\ trainer = "done"
  /\ MQ!ClearQueue
  /\ trainer' = "cleared"
  /\ UNCHANGED <<feed, pending_queue, processor, held, seenSize, active_tasks,
                 tasks, control, streaming, mon, batch, local_trigger_step,
                 current_param_version, countedTasks, stopping, trained>>

Terminated ==
  /\ trainer = "cleared"
  /\ UNCHANGED vars

Feeder == FeedSample \/ FeedEndSignal
Processor ==
  \/ ProcessorAsks \/ ProcessorDecides \/ ProcessorPauses
  \/ ProcessorReaps \/ ProcessorReapsLate \/ ProcessorResumes
  \/ ProcessorPulls \/ ProcessorPassesLimit \/ ProcessorSubmits
  \/ ProcessorEnds
Task(s) == TaskPuts(s) \/ TaskDone(s) \/ TaskRaises(s)
Streaming == StreamingPutsEnd \/ StreamingStops
Monitor == MonitorAsks \/ MonitorDecides \/ MonitorResumes \/ MonitorStops
Training ==
  \/ TrainerGets \/ TrainerWaits \/ TrainerUpdates \/ TrainerFinishes
  \/ TrainerSyncs \/ ResetBegins \/ ResetEnds

Next ==
  \/ Feeder \/ Processor \/ Streaming \/ Monitor \/ Training \/ MainClears
  \/ \E s \in Sample : Task(s)
  \/ Terminated

(* Every coroutine that can run is eventually run by its event loop, and     *)
(* every generation ends; a generation is never obliged to raise.            *)
Fairness ==
  /\ WF_vars(Feeder) /\ WF_vars(Processor) /\ WF_vars(Streaming)
  /\ WF_vars(Monitor) /\ WF_vars(Training) /\ WF_vars(MainClears)
  /\ \A s \in Sample : WF_vars(TaskPuts(s)) /\ WF_vars(TaskDone(s))

Spec == Init /\ [][Next]_vars
FairSpec == Spec /\ Fairness

-----------------------------------------------------------------------------
FeedTypeOK ==
  /\ feeder \in {"feeding", "ending", "done", "cancelled"}
  /\ global_steps \in Sample
  /\ pending_queue \in Seq(Item)
  /\ Len(pending_queue) <= PendingSize

ProcessorTypeOK ==
  /\ processor \in {"check", "decide", "pauseLock", "drain", "reapLock",
                    "pull", "limitWait", "submitLock", "endWait", "exit",
                    "failed"}
  /\ held \in Item \cup {NoItem}
  /\ seenSize \in Nat
  /\ active_tasks \in SUBSET Sample
  /\ task \in [Sample -> {"none", "generating", "replying", "done", "raised"}]
  /\ failures \in Nat

ControlTypeOK ==
  /\ staleness_samples \in Nat
  /\ paused \in BOOLEAN
  /\ resume_event \in BOOLEAN
  /\ running \in BOOLEAN
  /\ lock \in Seq({"processor", "reset"})
  /\ streaming \in {"running", "stopping", "done"}
  /\ monitor \in {"waiting", "decide", "resume", "done"}
  /\ monitorSize \in Nat

TrainTypeOK ==
  /\ trainer \in {"collect", "train", "final", "sync", "resetLock",
                  "resetting", "done", "cleared"}
  /\ batch \in Seq(Sample)
  /\ local_trigger_step \in 1 .. TriggerSync
  /\ current_param_version \in Nat
  /\ countedTasks \in Nat
  /\ stopping \in BOOLEAN
  /\ trained \in SUBSET Sample

TypeOK ==
  MQ!MQTypeOK /\ FeedTypeOK /\ ProcessorTypeOK /\ ControlTypeOK /\ TrainTypeOK

-----------------------------------------------------------------------------
(* Items pulled from pending_queue that the trainer has not consumed: being  *)
(* generated, queued, or in the processor's hands.                           *)
InFlight == {s \in Sample : task[s] = "generating"}
Outstanding ==
  Cardinality(InFlight) + Len(queue) + (IF held = NoItem THEN 0 ELSE 1)
ConsumedInRound == (local_trigger_step - 1) * RequiredSamples + Len(batch)

(* Freshness: what is outstanding, plus what the trainer has consumed since  *)
(* the last parameter update, exceeds max_required_samples by at most one,   *)
(* however reset_staleness, whose count of tasks and of queue entries is     *)
(* taken at two moments (line 573), races with the processor, which counts   *)
(* without the lock (line 887).  README.md:136-140 and 212 promise the limit  *)
(* itself; without the extra one the invariant is false.                     *)
RolloutBudget ==
  processor # "failed" => Outstanding + ConsumedInRound <= MaxRequired + 1

(* Never more than max_concurrent_samples tasks at once, the limit enforced  *)
(* at line 904 and the submit at line 916 being separated by lock waits.     *)
ConcurrencyLimit == Cardinality(active_tasks) <= MaxConcurrent

(* No sample is ever in two places, so none is trained on twice: not while   *)
(* the lock changes hands between limit and submit, not when the trainer     *)
(* gives up a partial batch (lines 290-312 of fully_async_trainer.py).       *)
Count(q, s) == Cardinality({i \in 1 .. Len(q) : q[i] = s})
Copies(s) ==
  Count(pending_queue, s) + Count(queue, s) + Count(batch, s)
    + Cardinality({s} \cap ({held} \cup trained))
    + Cardinality({s} \cap InFlight)
NeverTwice == \A s \in Sample : Copies(s) <= 1

(* A sample that was put and is nowhere any more was dropped by a full       *)
(* queue, was in the one partial batch the trainer gives up when it stops,   *)
(* or was cleared at the very end; nothing else loses samples.               *)
Vanished == {s \in Sample : task[s] \in {"replying", "done"} /\ Copies(s) = 0}
SamplesAccountedFor ==
  Cardinality(Vanished) <=
    dropped_samples + cleared + (IF stopping THEN RequiredSamples - 1 ELSE 0)

(* A run in which nothing failed and nothing was dropped ends with every     *)
(* sample and the end signal handed over, having trained on every full batch *)
(* and having reached the version total_train_steps that                     *)
(* set_max_required_samples announced to the trainer (lines 534-537).        *)
PlannedStepsDone ==
  trainer \in {"done", "cleared"} /\ failures = 0 /\ dropped_samples = 0 =>
    /\ total_consumed = TotalSteps + 1
    /\ Cardinality(trained) =
         (TotalSteps \div RequiredSamples) * RequiredSamples
    /\ current_param_version = TotalSteps \div (RequiredSamples * TriggerSync)

(* Both sides wait for the other: staleness_samples counts more samples than *)
(* there are, so the rollouter stays paused, the monitor finds it should,    *)
(* and the trainer waits for samples of a round that will not come.          *)
Starved ==
  /\ processor = "drain" /\ paused /\ staleness_samples >= MaxRequired
  /\ InFlight = {} /\ queue = <<>>
  /\ trainer = "collect" /\ Trainer \in sleeping

(* The whole run ends, both fit calls returning, also when a generation      *)
(* raises; the overcount is the one way not to end.                          *)
TerminatesOrStarves == <>(trainer = "cleared" \/ []Starved)

(* README.md:142: "Since it's a streaming system, rollout continues to       *)
(* generate and trainer continues to consume."                               *)
TrainerKeepsConsuming == trainer = "collect" ~> trainer # "collect"
=============================================================================
