-------------------------- MODULE FullyAsyncProofs --------------------------
(***************************************************************************)
(* For every number of samples, batch size, threshold and pool size: the   *)
(* pipeline is type correct, never runs more than max_concurrent_samples   *)
(* tasks, stays within the rollout budget, never has a sample twice, loses *)
(* none that no counter reports, and makes every step planned of those the *)
(* trainer got before the end of the stream.                               *)
(***************************************************************************)
EXTENDS FullyAsync, FiniteSetTheorems, SequenceTheorems, TLAPS

(* Where the processor holds the lock or queues for it; same for the reset. *)
ProcessorWantsLock ==
  processor \in {"pauseLock", "reapLock", "limitWait", "submitLock", "endWait"}
ResetWantsLock == trainer \in {"resetLock", "resetting"}

(* What the lock protects: it is exactly the queue of those who want it, and *)
(* the reset keeps it across its await.                                      *)
LockInv ==
  /\ ~ ProcessorWantsLock /\ ~ ResetWantsLock => lock = <<>>
  /\ ProcessorWantsLock /\ ~ ResetWantsLock => lock = <<"processor">>
  /\ ~ ProcessorWantsLock /\ ResetWantsLock => lock = <<"reset">>
  /\ ProcessorWantsLock /\ ResetWantsLock =>
       \/ lock = <<"processor", "reset">> /\ trainer = "resetLock"
       \/ lock = <<"reset", "processor">>

(* The processor has a pulled item in its hands just when it waits to submit *)
(* it, waits for the tasks before the end, or has returned at the end.       *)
HeldInv ==
  /\ processor \in {"limitWait", "submitLock"} => held \in Sample
  /\ processor \in {"check", "decide", "pauseLock", "drain", "reapLock",
                    "pull", "failed"} => held = NoItem
  /\ \/ processor = "endWait"
     \/ processor = "exit" /\ streaming = "running"
     => held = None

(* A task that is generating has not been reaped. *)
TaskInv == InFlight \subseteq active_tasks

(* A full batch when training; nothing of the next round before the reset.   *)
TrainerInv ==
  /\ trainer = "collect" => Len(batch) < RequiredSamples
  /\ trainer = "train" => Len(batch) = RequiredSamples
  /\ trainer \notin {"collect", "train"} => batch = <<>>
  /\ trainer \in {"sync", "resetLock", "resetting"} => local_trigger_step = 1

(* The reset's count of tasks is not overtaken while its await lasts. *)
CountInv == trainer = "resetting" => Cardinality(InFlight) <= countedTasks

Load == Outstanding + ConsumedInRound

(* The two counts that reset_staleness adds up miss at most the one item in  *)
(* the processor's hands; the processor decides to pull on that count.       *)
BudgetInv ==
  processor # "failed" =>
    /\ Load <= staleness_samples + 1
    /\ Load <= MaxRequired + 1
    /\ processor = "pull" => Load <= MaxRequired

(* Room for the sample that is about to be submitted. *)
LimitInv ==
  /\ Cardinality(active_tasks) <= MaxConcurrent
  /\ processor = "submitLock" => Cardinality(active_tasks) < MaxConcurrent

IInv == /\ TypeOK /\ LockInv /\ HeldInv /\ TaskInv /\ TrainerInv /\ CountInv
        /\ BudgetInv /\ LimitInv

-----------------------------------------------------------------------------
(* max_required_samples and max_concurrent_samples are positive: int() of a  *)
(* product of positive numbers that is at least required * trigger.          *)
LEMMA MaxRequiredType == MaxRequired \in Nat \ {0}
<1> USE FullyAsyncAssumption
<1> DEFINE total == RequiredSamples * (StaleNum + StaleDen) * TriggerSync
<1>1. total \in Nat /\ total >= StaleDen
  <2>1. /\ RequiredSamples * (StaleNum + StaleDen) \in Nat
        /\ RequiredSamples * (StaleNum + StaleDen) >= StaleDen
    OBVIOUS
  <2> HIDE DEF total
  <2>2. \A a, b, c \in Nat : a >= c /\ b >= 1 => a * b \in Nat /\ a * b >= c
    OBVIOUS
  <2> QED BY <2>1, <2>2 DEF total
<1> HIDE DEF total
<1>2. total \div StaleDen \in Nat /\ total \div StaleDen >= 1
  BY <1>1
<1> QED BY <1>2 DEF MaxRequired, total

(* max_concurrent_samples is positive: at least one task may run. *)
LEMMA MaxConcurrentType == MaxConcurrent \in Nat \ {0}
<1>1. Replicas * TasksPerReplica \in Nat \ {0}
  BY FullyAsyncAssumption
<1> QED BY <1>1, MaxRequiredType DEF MaxConcurrent

(* A set of samples is finite, so the counts below are numbers. *)
LEMMA SampleSets ==
  ASSUME NEW S \in SUBSET Sample
  PROVE  IsFiniteSet(S) /\ Cardinality(S) \in Nat
<1>1. IsFiniteSet(Sample)
  BY FullyAsyncAssumption, FS_Interval DEF Sample
<1>2. IsFiniteSet(S)
  BY <1>1, FS_Subset
<1> QED BY <1>2, FS_CardinalityType

(* A put leaves the queue well typed and at most one entry longer. *)
LEMMA PutType ==
  ASSUME MQ!MQTypeOK, NEW s \in Item, MQ!PutSample(s)
  PROVE  MQ!MQTypeOK' /\ Len(queue') <= Len(queue) + 1
<1> USE MaxRequiredType DEF MQ!MQTypeOK, MQ!PutSample, MQ!NotifyAll, MQ!Full
<1>1. CASE MQ!Full
  BY <1>1
<1>2. CASE ~ MQ!Full
  BY <1>2
<1> QED BY <1>1, <1>2

(* A get keeps the queue well typed and hands out one of its entries. *)
LEMMA GetType ==
  ASSUME MQ!MQTypeOK, NEW data, MQ!GetSample(Trainer, data)
  PROVE  /\ MQ!MQTypeOK' /\ data = Head(queue) /\ Head(queue) \in Item
         /\ Len(queue') = Len(queue) - 1
<1>1. queue \in Seq(Item) /\ queue # <<>> /\ queue' = Tail(queue)
  BY DEF MQ!MQTypeOK, MQ!GetSample
<1>2. /\ queue' \in Seq(Item) /\ Head(queue) \in Item
      /\ Len(queue') = Len(queue) - 1
  BY <1>1
<1>3. Len(queue') <= MaxRequired
  BY <1>1, <1>2, MaxRequiredType DEF MQ!MQTypeOK
<1> QED BY <1>2, <1>3 DEF MQ!MQTypeOK, MQ!GetSample

(* The trainer's going to sleep leaves the queue as it is. *)
LEMMA WaitType ==
  ASSUME MQ!MQTypeOK, MQ!GetWaits(Trainer)
  PROVE  MQ!MQTypeOK' /\ queue' = queue
  BY DEF MQ!MQTypeOK, MQ!GetWaits, MQ!counters

(* clear_queue leaves an empty, well typed queue. *)
LEMMA ClearType ==
  ASSUME MQ!MQTypeOK, MQ!ClearQueue
  PROVE  MQ!MQTypeOK' /\ Len(queue') = 0
  BY MaxRequiredType DEF MQ!MQTypeOK, MQ!ClearQueue

(* A step that does not touch the message queue keeps its type. *)
LEMMA QuietType ==
  ASSUME MQ!MQTypeOK, UNCHANGED mq
  PROVE  MQ!MQTypeOK'
  BY DEF mq, MQ!MQTypeOK

-----------------------------------------------------------------------------
(* Untouched groups of variables keep their types. *)
LEMMA QuietFeed ==
  ASSUME FeedTypeOK, UNCHANGED <<feed, pending_queue>>
  PROVE  FeedTypeOK'
  BY DEF feed, FeedTypeOK

(* Nor does the processor's state lose its type when left alone. *)
LEMMA QuietProcessor ==
  ASSUME ProcessorTypeOK,
         UNCHANGED <<processor, held, seenSize, active_tasks, tasks>>
  PROVE  ProcessorTypeOK'
  BY DEF tasks, ProcessorTypeOK

(* Nor the shared control state. *)
LEMMA QuietControl ==
  ASSUME ControlTypeOK, UNCHANGED <<control, streaming, mon>>
  PROVE  ControlTypeOK'
  BY DEF control, mon, ControlTypeOK

(* Nor the trainer's. *)
LEMMA QuietTrain ==
  ASSUME TrainTypeOK, UNCHANGED train
  PROVE  TrainTypeOK'
  BY DEF train, TrainTypeOK

(* asyncio.Lock: whoever joins at the end or leaves at the head, the queue   *)
(* holds the processor and the reset only.                                   *)
LEMMA LockOps ==
  ASSUME ControlTypeOK
  PROVE  /\ <<>> \in Seq({"processor", "reset"})
         /\ <<"reset">> \in Seq({"processor", "reset"})
         /\ Append(lock, "processor") \in Seq({"processor", "reset"})
         /\ Append(lock, "reset") \in Seq({"processor", "reset"})
         /\ lock # <<>> =>
              /\ Tail(lock) \in Seq({"processor", "reset"})
              /\ Append(Tail(lock), "processor") \in Seq({"processor", "reset"})
  BY DEF ControlTypeOK

(* A second caller of the lock queues behind its holder. *)
LEMMA AppendPair ==
  ASSUME NEW P, NEW R
  PROVE  Append(<<P>>, R) = <<P, R>>
<1> DEFINE s == Append(<<P>>, R) t == <<P, R>>
<1>1. <<P>> \in Seq({P, R}) /\ Len(<<P>>) = 1 /\ <<P>>[1] = P
  OBVIOUS
<1>2. s \in Seq({P, R}) /\ Len(s) = 2 /\ s[1] = P /\ s[2] = R
  BY <1>1, AppendProperties
<1>3. t \in Seq({P, R}) /\ Len(t) = 2 /\ t[1] = P /\ t[2] = R
  OBVIOUS
<1> HIDE DEF s, t
<1>4. s = t
  BY <1>2, <1>3, SeqEqual
<1> QED BY <1>4 DEF s, t

(* The four shapes of the lock, and what joining and leaving make of them. *)
LEMMA LockShapes ==
  /\ Append(<<>>, "processor") = <<"processor">>
  /\ Append(<<"reset">>, "processor") = <<"reset", "processor">>
  /\ Append(<<"processor">>, "reset") = <<"processor", "reset">>
  /\ Tail(<<"processor">>) = <<>>
  /\ Tail(<<"reset">>) = <<>>
  /\ Tail(<<"processor", "reset">>) = <<"reset">>
  /\ Tail(<<"reset", "processor">>) = <<"processor">>
  /\ Head(<<"processor">>) = "processor"
  /\ Head(<<"reset">>) = "reset"
  /\ Head(<<"processor", "reset">>) = "processor"
  /\ Head(<<"reset", "processor">>) = "reset"
  /\ <<"processor">> # <<>> /\ <<"reset">> # <<>>
  /\ <<"processor", "reset">> # <<>> /\ <<"reset", "processor">> # <<>>
<1> DEFINE P == "processor" R == "reset"
<1> HIDE DEF P, R
<1>1. /\ Append(<<>>, P) = <<P>>
      /\ Append(<<R>>, P) = <<R, P>> /\ Append(<<P>>, R) = <<P, R>>
  <2>1. Append(<<>>, P) = <<P>>
    OBVIOUS
  <2> QED BY <2>1, AppendPair
<1>2. Tail(<<P>>) = <<>> /\ Tail(<<R>>) = <<>>
  OBVIOUS
<1>3. Tail(<<P, R>>) = <<R>> /\ Tail(<<R, P>>) = <<P>>
  OBVIOUS
<1>4. /\ Head(<<P>>) = P /\ Head(<<R>>) = R
      /\ Head(<<P, R>>) = P /\ Head(<<R, P>>) = R
  OBVIOUS
<1>5. /\ <<P>> # <<>> /\ <<R>> # <<>>
      /\ <<P, R>> # <<>> /\ <<R, P>> # <<>>
  OBVIOUS
<1> QED BY <1>1, <1>2, <1>3, <1>4, <1>5 DEF P, R

(* Whoever holds or awaits the lock is in its FIFO, so it is not empty. *)
LEMMA LockWanted ==
  ASSUME LockInv, ProcessorWantsLock \/ ResetWantsLock
  PROVE  lock # <<>>
  BY LockShapes DEF LockInv

(* Submitting a sample adds a task that generates it. *)
LEMMA SubmitType ==
  ASSUME ProcessorTypeOK, NEW s \in Sample, NEW left \in SUBSET Sample,
         Submit(s, left), UNCHANGED <<seenSize, failures>>
  PROVE  ProcessorTypeOK'
  BY DEF ProcessorTypeOK, Submit

(* Reaping finished tasks keeps the processor's state well typed. *)
LEMMA ReapType ==
  ASSUME ProcessorTypeOK, NEW S, NEW next, Reap(S, next),
         next \in {"drain", "exit", "endWait", "submitLock", "failed"}
  PROVE  active_tasks' \in SUBSET Sample /\ processor' \in
         {"drain", "exit", "endWait", "submitLock", "failed"}
  BY DEF ProcessorTypeOK, Reap

(* Every step of the pipeline keeps every variable in its type. *)
LEMMA TypeStep ==
  ASSUME TypeOK, LockInv, HeldInv, [Next]_vars
  PROVE  TypeOK'
<1> USE FullyAsyncAssumption
<1>1. CASE FeedSample
  <2>1. FeedTypeOK'
    <3>1. /\ pending_queue' = Append(pending_queue, global_steps)
          /\ global_steps \in Item /\ pending_queue \in Seq(Item)
      BY <1>1 DEF TypeOK, FeedTypeOK, FeedSample, Item
    <3>2. /\ pending_queue' \in Seq(Item)
          /\ Len(pending_queue') = Len(pending_queue) + 1
      BY <3>1
    <3>3. Len(pending_queue') <= PendingSize
      BY <1>1, <3>1, <3>2 DEF FeedSample
    <3>4. global_steps' \in Sample /\ feeder' \in {"feeding", "ending"}
      BY <1>1 DEF TypeOK, FeedTypeOK, FeedSample, LastFed, Sample
    <3> QED BY <3>2, <3>3, <3>4 DEF FeedTypeOK
  <2> QED BY <1>1, <2>1, QuietType, QuietProcessor, QuietControl, QuietTrain
             DEF TypeOK, FeedSample, feed, tasks, control, mon, train
<1>2. CASE FeedEndSignal
  <2>1. FeedTypeOK'
    BY <1>2 DEF TypeOK, FeedTypeOK, FeedEndSignal, Item, feed
  <2> QED BY <1>2, <2>1, QuietType, QuietProcessor, QuietControl, QuietTrain
             DEF TypeOK, FeedEndSignal, feed, tasks, control, mon, train
<1>3. CASE ProcessorAsks
  <2>1. ProcessorTypeOK'
    BY <1>3, HeldInv DEF TypeOK, ProcessorTypeOK, ProcessorAsks, tasks
  <2> QED BY <1>3, <2>1, QuietType, QuietFeed, QuietControl, QuietTrain
             DEF TypeOK, ProcessorAsks, feed, tasks, control, mon, train
<1>4. CASE ProcessorDecides
  <2>1. ProcessorTypeOK'
    BY <1>4, HeldInv DEF TypeOK, ProcessorTypeOK, ProcessorDecides, Pause,
       tasks
  <2>2. ControlTypeOK'
    BY <1>4, LockOps DEF TypeOK, ControlTypeOK, ProcessorDecides, Pause,
       control, mon
  <2> QED BY <1>4, <2>1, <2>2, QuietType, QuietFeed, QuietTrain DEF TypeOK,
             ProcessorDecides, feed, tasks, control, mon, train
<1>5. CASE ProcessorPauses
  <2>1. ProcessorTypeOK'
    BY <1>5, HeldInv DEF TypeOK, ProcessorTypeOK, ProcessorPauses, Pause,
       Holds, tasks
  <2>2. ControlTypeOK'
    BY <1>5, LockOps DEF TypeOK, ControlTypeOK, ProcessorPauses, Pause, Holds,
       control, mon
  <2> QED BY <1>5, <2>1, <2>2, QuietType, QuietFeed, QuietTrain DEF TypeOK,
             ProcessorPauses, feed, tasks, control, mon, train
<1>6. CASE ProcessorReaps
  <2>1. ProcessorTypeOK'
    BY <1>6, HeldInv DEF TypeOK, ProcessorTypeOK, ProcessorReaps, Drain, Reap,
       Finished, tasks
  <2>2. ControlTypeOK'
    BY <1>6, LockOps DEF TypeOK, ControlTypeOK, ProcessorReaps, Drain, Reap,
       Finished, control, mon
  <2> QED BY <1>6, <2>1, <2>2, QuietType, QuietFeed, QuietTrain DEF TypeOK,
             ProcessorReaps, feed, tasks, control, mon, train
<1>7. CASE ProcessorReapsLate
  <2>1. ProcessorTypeOK'
    BY <1>7, HeldInv DEF TypeOK, ProcessorTypeOK, ProcessorReapsLate, Drain,
       Reap, Finished, Holds, tasks
  <2>2. ControlTypeOK'
    BY <1>7, LockOps DEF TypeOK, ControlTypeOK, ProcessorReapsLate, Drain,
       Reap, Finished, Holds, control, mon
  <2> QED BY <1>7, <2>1, <2>2, QuietType, QuietFeed, QuietTrain DEF TypeOK,
             ProcessorReapsLate, feed, tasks, control, mon, train
<1>8. CASE ProcessorResumes
  <2>1. ProcessorTypeOK'
    BY <1>8, HeldInv DEF TypeOK, ProcessorTypeOK, ProcessorResumes, tasks
  <2> QED BY <1>8, <2>1, QuietType, QuietFeed, QuietControl, QuietTrain
             DEF TypeOK, ProcessorResumes, feed, tasks, control, mon, train
<1>9. CASE ProcessorPulls
  <2>1. FeedTypeOK'
    BY <1>9 DEF TypeOK, FeedTypeOK, ProcessorPulls, Submit, Item, feed
  <2>2. ProcessorTypeOK'
    <3>1. Head(pending_queue) \in Sample \cup {None}
      BY <1>9 DEF TypeOK, FeedTypeOK, ProcessorPulls, Item
    <3>2. CASE Head(pending_queue) # None /\ ~ AtLimit /\ lock = <<>>
      <4>1. Head(pending_queue) \in Sample
        BY <3>1, <3>2
      <4>2. /\ Submit(Head(pending_queue), active_tasks)
            /\ UNCHANGED <<seenSize, failures>>
        BY <1>9, <3>2 DEF ProcessorPulls
      <4> QED BY <4>1, <4>2, SubmitType DEF TypeOK, ProcessorTypeOK
    <3>3. CASE ~ (Head(pending_queue) # None /\ ~ AtLimit /\ lock = <<>>)
      <4>1. /\ held' = Head(pending_queue)
            /\ processor' \in {"exit", "endWait", "limitWait", "submitLock"}
            /\ UNCHANGED <<active_tasks, task, seenSize, failures>>
        BY <1>9, <3>3 DEF ProcessorPulls
      <4> QED BY <3>1, <4>1 DEF TypeOK, ProcessorTypeOK, Item
    <3> QED BY <3>2, <3>3
  <2>3. ControlTypeOK'
    <3>1. lock' \in Seq({"processor", "reset"})
      BY <1>9, LockOps DEF TypeOK, ControlTypeOK, ProcessorPulls
    <3>2. /\ staleness_samples' = staleness_samples + 1
          /\ UNCHANGED <<paused, resume_event, running, streaming, monitor,
                         monitorSize>>
      BY <1>9 DEF ProcessorPulls, mon
    <3>3. ControlTypeOK
      BY DEF TypeOK
    <3>4. staleness_samples' \in Nat
      BY <3>2, <3>3 DEF ControlTypeOK
    <3> QED BY <3>1, <3>2, <3>3, <3>4 DEF ControlTypeOK
  <2> QED BY <1>9, <2>1, <2>2, <2>3, QuietType, QuietTrain DEF TypeOK,
             ProcessorPulls, feed, tasks, control, mon, train
<1>10. CASE ProcessorPassesLimit
  <2>1. ProcessorTypeOK'
    <3>1. held \in Sample /\ UNCHANGED <<seenSize, failures>>
      BY <1>10, HeldInv DEF ProcessorPassesLimit, HeldInv
    <3>2. CASE Submit(held, active_tasks \ Finished)
      <4>1. active_tasks \ Finished \in SUBSET Sample
        BY DEF TypeOK, ProcessorTypeOK
      <4> QED BY <3>1, <3>2, <4>1, SubmitType DEF TypeOK
    <3>3. CASE Reap(Finished, "failed") /\ held' = NoItem /\ UNCHANGED task
      BY <3>1, <3>3, ReapType DEF TypeOK, ProcessorTypeOK
    <3>4. CASE Reap(Finished, "submitLock") /\ UNCHANGED <<held, task>>
      BY <3>1, <3>4, ReapType DEF TypeOK, ProcessorTypeOK
    <3> QED BY <1>10, <3>2, <3>3, <3>4 DEF ProcessorPassesLimit
  <2>2. ControlTypeOK'
    BY <1>10, LockOps DEF TypeOK, ControlTypeOK, ProcessorPassesLimit, Submit,
       Reap, Finished, Holds, control, mon
  <2> QED BY <1>10, <2>1, <2>2, QuietType, QuietFeed, QuietTrain DEF TypeOK,
             ProcessorPassesLimit, feed, tasks, control, mon, train
<1>11. CASE ProcessorSubmits
  <2>1. ProcessorTypeOK'
    <3>1. held \in Sample /\ active_tasks \in SUBSET Sample
      BY <1>11 DEF HeldInv, ProcessorSubmits, TypeOK, ProcessorTypeOK
    <3>2. Submit(held, active_tasks) /\ UNCHANGED <<seenSize, failures>>
      BY <1>11 DEF ProcessorSubmits
    <3> QED BY <3>1, <3>2, SubmitType DEF TypeOK
  <2>2. ControlTypeOK'
    BY <1>11, LockOps DEF TypeOK, ControlTypeOK, ProcessorSubmits, Submit,
       Holds, control, mon
  <2> QED BY <1>11, <2>1, <2>2, QuietType, QuietFeed, QuietTrain DEF TypeOK,
             ProcessorSubmits, feed, tasks, control, mon, train
<1>12. CASE ProcessorEnds
  <2>1. ProcessorTypeOK'
    BY <1>12, HeldInv DEF TypeOK, ProcessorTypeOK, ProcessorEnds, Reap,
       Finished, Holds, tasks
  <2>2. ControlTypeOK'
    BY <1>12, LockOps DEF TypeOK, ControlTypeOK, ProcessorEnds, Reap, Finished,
       Holds, control, mon
  <2> QED BY <1>12, <2>1, <2>2, QuietType, QuietFeed, QuietTrain DEF TypeOK,
             ProcessorEnds, feed, tasks, control, mon, train
<1>13. CASE StreamingPutsEnd
  <2>1. MQ!MQTypeOK'
    BY <1>13, PutType DEF TypeOK, StreamingPutsEnd, Item
  <2>2. FeedTypeOK'
    BY <1>13 DEF TypeOK, FeedTypeOK, StreamingPutsEnd, feed
  <2>3. ProcessorTypeOK'
    BY <1>13, HeldInv DEF TypeOK, ProcessorTypeOK, StreamingPutsEnd, tasks
  <2>4. ControlTypeOK'
    BY <1>13, LockOps DEF TypeOK, ControlTypeOK, StreamingPutsEnd, control, mon
  <2> QED BY <1>13, <2>1, <2>2, <2>3, <2>4, QuietTrain DEF TypeOK,
             StreamingPutsEnd, feed, tasks, control, mon, train
<1>14. CASE StreamingStops
  <2>1. ControlTypeOK'
    BY <1>14, LockOps DEF TypeOK, ControlTypeOK, StreamingStops, control, mon
  <2> QED BY <1>14, <2>1, QuietType, QuietFeed, QuietProcessor, QuietTrain
             DEF TypeOK, StreamingStops, feed, tasks, control, mon, train
<1>15. CASE MonitorAsks
  <2>1. ControlTypeOK'
    BY <1>15, LockOps DEF TypeOK, ControlTypeOK, MonitorAsks, control, mon
  <2> QED BY <1>15, <2>1, QuietType, QuietFeed, QuietProcessor, QuietTrain
             DEF TypeOK, MonitorAsks, feed, tasks, control, mon, train
<1>16. CASE MonitorDecides
  <2>1. ControlTypeOK'
    BY <1>16, LockOps DEF TypeOK, ControlTypeOK, MonitorDecides, control, mon
  <2> QED BY <1>16, <2>1, QuietType, QuietFeed, QuietProcessor, QuietTrain
             DEF TypeOK, MonitorDecides, feed, tasks, control, mon, train
<1>17. CASE MonitorResumes
  <2>1. ControlTypeOK'
    BY <1>17, LockOps DEF TypeOK, ControlTypeOK, MonitorResumes, Resume,
       control, mon
  <2> QED BY <1>17, <2>1, QuietType, QuietFeed, QuietProcessor, QuietTrain
             DEF TypeOK, MonitorResumes, feed, tasks, control, mon, train
<1>18. CASE MonitorStops
  <2>1. ControlTypeOK'
    BY <1>18, LockOps DEF TypeOK, ControlTypeOK, MonitorStops, control, mon
  <2> QED BY <1>18, <2>1, QuietType, QuietFeed, QuietProcessor, QuietTrain
             DEF TypeOK, MonitorStops, feed, tasks, control, mon, train
<1>19. CASE TrainerGets
  <2>1. MQ!MQTypeOK'
    BY <1>19, GetType DEF TypeOK, TrainerGets, Item
  <2>2. TrainTypeOK'
    <3>1. Head(queue) \in Sample \cup {None}
      BY <1>19, GetType DEF TypeOK, TrainerGets, Item
    <3>2. CASE Head(queue) = None
      BY <1>19, <3>2 DEF TypeOK, TrainTypeOK, TrainerGets
    <3>3. CASE Head(queue) # None
      <4>1. /\ batch' = Append(batch, Head(queue))
            /\ trainer' \in {"train", "collect"}
            /\ UNCHANGED <<stopping, local_trigger_step,
                           current_param_version, countedTasks, trained>>
        BY <1>19, <3>3 DEF TrainerGets
      <4> QED BY <3>1, <3>3, <4>1 DEF TypeOK, TrainTypeOK
    <3> QED BY <3>2, <3>3
  <2> QED BY <1>19, <2>1, <2>2, QuietFeed, QuietProcessor, QuietControl
             DEF TypeOK, TrainerGets, feed, tasks, control, mon, train
<1>20. CASE TrainerWaits
  <2>1. MQ!MQTypeOK'
    BY <1>20, WaitType DEF TypeOK, TrainerWaits, Item
  <2> QED BY <1>20, <2>1, QuietFeed, QuietProcessor, QuietControl, QuietTrain
             DEF TypeOK, TrainerWaits, feed, tasks, control, mon, train
<1>21. CASE TrainerUpdates
  <2>1. TrainTypeOK'
    <3>1. ToSet(batch) \in SUBSET Sample
      BY DEF ToSet, TypeOK, TrainTypeOK
    <3>2. /\ local_trigger_step' \in 1 .. TriggerSync
          /\ current_param_version' \in Nat
          /\ trainer' \in {"collect", "sync"}
      <4>1. /\ local_trigger_step \in 1 .. TriggerSync
            /\ current_param_version \in Nat /\ TriggerSync \in Nat \ {0}
        BY DEF TypeOK, TrainTypeOK
      <4>2. CASE RoundContinues
        <5>1. /\ local_trigger_step' = local_trigger_step + 1
              /\ trainer' = "collect"
              /\ current_param_version' = current_param_version
          BY <1>21, <4>2 DEF TrainerUpdates
        <5> QED BY <4>1, <4>2, <5>1 DEF RoundContinues
      <4>3. CASE ~ RoundContinues
        <5>1. /\ local_trigger_step' = 1
              /\ trainer' = "sync"
              /\ current_param_version' = current_param_version + 1
          BY <1>21, <4>3 DEF TrainerUpdates
        <5> QED BY <4>1, <5>1
      <4> QED BY <4>2, <4>3
    <3>3. /\ batch' = <<>> /\ trained' = trained \cup ToSet(batch)
          /\ UNCHANGED <<countedTasks, stopping>>
      BY <1>21 DEF TrainerUpdates
    <3> QED BY <3>1, <3>2, <3>3 DEF TypeOK, TrainTypeOK
  <2> QED BY <1>21, <2>1, QuietType, QuietFeed, QuietProcessor, QuietControl
             DEF TypeOK, TrainerUpdates, feed, tasks, control, mon, train
<1>22. CASE TrainerFinishes
  <2>1. TrainTypeOK'
    BY <1>22 DEF TypeOK, TrainTypeOK, TrainerFinishes, train
  <2> QED BY <1>22, <2>1, QuietType, QuietFeed, QuietProcessor, QuietControl
             DEF TypeOK, TrainerFinishes, feed, tasks, control, mon, train
<1>23. CASE TrainerSyncs
  <2>1. ControlTypeOK'
    BY <1>23, LockOps DEF TypeOK, ControlTypeOK, TrainerSyncs, ResetReadsTasks,
       Resume, control, mon
  <2>2. TrainTypeOK'
    <3>1. Cardinality(active_tasks) \in Nat
      BY SampleSets DEF TypeOK, ProcessorTypeOK
    <3> QED BY <1>23, <3>1
            DEF TypeOK, TrainTypeOK, TrainerSyncs, ResetReadsTasks
  <2> QED BY <1>23, <2>1, <2>2, QuietType, QuietFeed, QuietProcessor
             DEF TypeOK, TrainerSyncs, feed, tasks, control, mon, train
<1>24. CASE ResetBegins
  <2>1. ControlTypeOK'
    BY <1>24, LockOps DEF TypeOK, ControlTypeOK, ResetBegins, ResetReadsTasks,
       Resume, control, mon
  <2>2. TrainTypeOK'
    <3>1. Cardinality(active_tasks) \in Nat
      BY SampleSets DEF TypeOK, ProcessorTypeOK
    <3> QED BY <1>24, <3>1
            DEF TypeOK, TrainTypeOK, ResetBegins, ResetReadsTasks
  <2> QED BY <1>24, <2>1, <2>2, QuietType, QuietFeed, QuietProcessor
             DEF TypeOK, ResetBegins, feed, tasks, control, mon, train
<1>25. CASE ResetEnds
  <2>1. ControlTypeOK'
    <3>1. staleness_samples' \in Nat
      BY <1>25 DEF TypeOK, TrainTypeOK, MQ!MQTypeOK, ResetEnds, FreshStaleness
    <3>2. lock' \in Seq({"processor", "reset"})
      <4>1. lock # <<>> /\ lock' = Tail(lock)
        BY <1>25, LockWanted DEF ResetEnds, ResetWantsLock
      <4> QED BY <4>1, LockOps DEF TypeOK
    <3> QED BY <1>25, <3>1, <3>2 DEF TypeOK, ControlTypeOK, ResetEnds, mon
  <2>2. TrainTypeOK'
    BY <1>25 DEF TypeOK, TrainTypeOK, ResetEnds, FreshStaleness, train
  <2> QED BY <1>25, <2>1, <2>2, QuietType, QuietFeed, QuietProcessor
             DEF TypeOK, ResetEnds, feed, tasks, control, mon, train
<1>26. CASE MainClears
  <2>1. MQ!MQTypeOK'
    BY <1>26, ClearType DEF TypeOK, MainClears, Item
  <2>2. TrainTypeOK'
    BY <1>26 DEF TypeOK, TrainTypeOK, MainClears, train
  <2> QED BY <1>26, <2>1, <2>2, QuietFeed, QuietProcessor, QuietControl
             DEF TypeOK, MainClears, feed, tasks, control, mon, train
<1>27. ASSUME NEW s \in Sample, TaskPuts(s) PROVE TypeOK'
  <2>1. MQ!MQTypeOK'
    BY <1>27, PutType DEF TypeOK, TaskPuts, Item
  <2>2. ProcessorTypeOK'
    BY <1>27, HeldInv DEF TypeOK, ProcessorTypeOK, TaskPuts, tasks
  <2> QED BY <1>27, <2>1, <2>2, QuietFeed, QuietControl, QuietTrain DEF TypeOK,
             TaskPuts, feed, tasks, control, mon, train
<1>28. ASSUME NEW s \in Sample, TaskDone(s) PROVE TypeOK'
  <2>1. ProcessorTypeOK'
    BY <1>28, HeldInv DEF TypeOK, ProcessorTypeOK, TaskDone, tasks
  <2> QED BY <1>28, <2>1, QuietType, QuietFeed, QuietControl, QuietTrain
             DEF TypeOK, TaskDone, feed, tasks, control, mon, train
<1>29. ASSUME NEW s \in Sample, TaskRaises(s) PROVE TypeOK'
  <2>1. ProcessorTypeOK'
    BY <1>29, HeldInv DEF TypeOK, ProcessorTypeOK, TaskRaises, tasks
  <2> QED BY <1>29, <2>1, QuietType, QuietFeed, QuietControl, QuietTrain
             DEF TypeOK, TaskRaises, feed, tasks, control, mon, train
<1>30. CASE UNCHANGED vars
  BY <1>30, QuietType, QuietFeed, QuietProcessor, QuietControl, QuietTrain
     DEF TypeOK, vars
<1> QED BY <1>1, <1>2, <1>3, <1>4, <1>5, <1>6, <1>7, <1>8, <1>9, <1>10, <1>11,
           <1>12, <1>13, <1>14, <1>15, <1>16, <1>17, <1>18, <1>19, <1>20,
           <1>21, <1>22, <1>23, <1>24, <1>25, <1>26, <1>27, <1>28, <1>29, <1>30
    DEF Next, Feeder, Processor, Streaming, Monitor, Training, Task, Terminated

-----------------------------------------------------------------------------
(* The processor joins the lock's queue behind a reset, if there is one. *)
LEMMA ProcessorJoins ==
  ASSUME LockInv, ~ ProcessorWantsLock
  PROVE  /\ Append(lock, "processor") =
              IF ResetWantsLock THEN <<"reset", "processor">>
                                ELSE <<"processor">>
         /\ lock = <<>> <=> ~ ResetWantsLock
  BY LockShapes DEF LockInv

(* The processor gives the lock up: to the reset that waits, or to nobody. *)
LEMMA ProcessorLeaves ==
  ASSUME LockInv, ProcessorWantsLock, Holds("processor")
  PROVE  /\ ResetWantsLock => trainer = "resetLock"
         /\ Tail(lock) = IF ResetWantsLock THEN <<"reset">> ELSE <<>>
         /\ Append(Tail(lock), "processor") =
              IF ResetWantsLock THEN <<"reset", "processor">>
                                ELSE <<"processor">>
<1>1. "processor" # "reset"
  OBVIOUS
<1>2. Head(lock) = "processor"
  BY DEF Holds
<1> QED BY <1>1, <1>2, LockShapes DEF LockInv

(* reset_staleness asks for the lock: the FIFO keeps its shape. *)
LEMMA ResetJoins ==
  ASSUME LockInv, ~ ResetWantsLock
  PROVE  /\ lock = <<>> <=> ~ ProcessorWantsLock
         /\ lock # <<>> => Append(lock, "reset") = <<"processor", "reset">>
  BY LockShapes DEF LockInv

(* reset_staleness gives the lock to the processor, or frees it. *)
LEMMA ResetLeaves ==
  ASSUME LockInv, trainer = "resetting"
  PROVE  Tail(lock) = IF ProcessorWantsLock THEN <<"processor">> ELSE <<>>
<1>1. ResetWantsLock
  BY DEF ResetWantsLock
<1> QED BY <1>1, LockShapes DEF LockInv

(* reset_staleness keeps the lock across its await. *)
LEMMA ResetHolds ==
  ASSUME LockInv, ResetWantsLock, Holds("reset")
  PROVE  lock = IF ProcessorWantsLock THEN <<"reset", "processor">>
                                      ELSE <<"reset">>
<1>1. "processor" # "reset"
  OBVIOUS
<1>2. Head(lock) = "reset"
  BY DEF Holds
<1> QED BY <1>1, <1>2, LockShapes DEF LockInv

(* Every step that touches the lock, or starts or stops wanting it, keeps    *)
(* LockInv.                                                                  *)
LEMMA LockStep ==
  ASSUME LockInv, [Next]_vars
  PROVE  LockInv'
<1> USE DEF LockInv, ProcessorWantsLock, ResetWantsLock
<1>1. CASE ProcessorDecides
  BY <1>1, ProcessorJoins DEF ProcessorDecides, Pause, train
<1>2. CASE ProcessorPauses
  BY <1>2, ProcessorLeaves DEF ProcessorPauses, Pause, train
<1>3. CASE ProcessorReaps
  BY <1>3, ProcessorJoins DEF ProcessorReaps, Drain, Reap, train
<1>4. CASE ProcessorReapsLate
  BY <1>4, ProcessorLeaves DEF ProcessorReapsLate, Drain, Reap, train
<1>5. CASE ProcessorPulls
  BY <1>5, ProcessorJoins DEF ProcessorPulls, Submit, train
<1>6. CASE ProcessorPassesLimit
  BY <1>6, ProcessorLeaves DEF ProcessorPassesLimit, Submit, Reap, train
<1>7. CASE ProcessorSubmits
  BY <1>7, ProcessorLeaves DEF ProcessorSubmits, Submit, train
<1>8. CASE ProcessorEnds
  BY <1>8, ProcessorLeaves DEF ProcessorEnds, Reap, train
<1>9. CASE ProcessorAsks
  BY <1>9 DEF ProcessorAsks, control, train
<1>10. CASE ProcessorResumes
  BY <1>10 DEF ProcessorResumes, control, train
<1>11. CASE TrainerGets
  BY <1>11 DEF TrainerGets, control
<1>12. CASE TrainerUpdates
  BY <1>12 DEF TrainerUpdates, control
<1>13. CASE TrainerFinishes
  BY <1>13 DEF TrainerFinishes, control
<1>14. CASE TrainerSyncs
  BY <1>14, ResetJoins DEF TrainerSyncs, ResetReadsTasks
<1>15. CASE ResetBegins
  BY <1>15, ResetHolds DEF ResetBegins, ResetReadsTasks
<1>16. CASE ResetEnds
  BY <1>16, ResetLeaves DEF ResetEnds
<1>17. CASE MainClears
  BY <1>17 DEF MainClears, control
<1>18. CASE \/ Feeder \/ Streaming \/ Monitor \/ TrainerWaits \/ Terminated
            \/ (\E s \in Sample : Task(s)) \/ UNCHANGED vars
  <2>1. UNCHANGED <<processor, trainer, lock>>
    BY <1>18 DEF Feeder, FeedSample, FeedEndSignal, Streaming,
       StreamingPutsEnd, StreamingStops, Monitor, MonitorAsks, MonitorDecides,
       MonitorResumes, MonitorStops, TrainerWaits, Terminated, Task, TaskPuts,
       TaskDone, TaskRaises, control, train, vars
  <2> QED BY <2>1
<1> QED BY <1>1, <1>2, <1>3, <1>4, <1>5, <1>6, <1>7, <1>8, <1>9, <1>10, <1>11,
           <1>12, <1>13, <1>14, <1>15, <1>16, <1>17, <1>18
    DEF Next, Processor, Training

-----------------------------------------------------------------------------
(* What the processor has in its hands follows where it is: _processor_worker *)
(* lines 885-921, and the finally of _streaming_generation_main.              *)
LEMMA HeldStep ==
  ASSUME TypeOK, HeldInv, [Next]_vars
  PROVE  HeldInv'
<1> USE DEF HeldInv
<1>1. CASE ProcessorAsks
  BY <1>1 DEF ProcessorAsks
<1>2. CASE ProcessorDecides
  BY <1>2 DEF ProcessorDecides, Pause
<1>3. CASE ProcessorPauses
  BY <1>3 DEF ProcessorPauses, Pause
<1>4. CASE ProcessorReaps
  BY <1>4 DEF ProcessorReaps, Drain, Reap
<1>5. CASE ProcessorReapsLate
  BY <1>5 DEF ProcessorReapsLate, Drain, Reap
<1>6. CASE ProcessorResumes
  BY <1>6 DEF ProcessorResumes
<1>7. CASE ProcessorPulls
  <2>1. Head(pending_queue) \in Sample \cup {None}
    BY <1>7 DEF TypeOK, FeedTypeOK, ProcessorPulls, Item
  <2> QED BY <1>7, <2>1 DEF ProcessorPulls, Submit
<1>8. CASE ProcessorPassesLimit
  BY <1>8 DEF ProcessorPassesLimit, Submit, Reap
<1>9. CASE ProcessorSubmits
  BY <1>9 DEF ProcessorSubmits, Submit
<1>10. CASE ProcessorEnds
  BY <1>10 DEF ProcessorEnds, Reap
<1>11. CASE StreamingPutsEnd
  BY <1>11 DEF StreamingPutsEnd
<1>12. CASE StreamingStops
  BY <1>12 DEF StreamingStops
<1>13. CASE \/ Feeder \/ Monitor \/ Training \/ MainClears \/ Terminated
            \/ (\E s \in Sample : Task(s)) \/ UNCHANGED vars
  <2>1. UNCHANGED <<processor, held, streaming>>
    BY <1>13 DEF Feeder, FeedSample, FeedEndSignal, Monitor, MonitorAsks,
       MonitorDecides, MonitorResumes, MonitorStops, Training, TrainerGets,
       TrainerWaits, TrainerUpdates, TrainerFinishes, TrainerSyncs,
       ResetBegins, ResetEnds, MainClears, Terminated, Task, TaskPuts,
       TaskDone, TaskRaises, vars
  <2> QED BY <2>1
<1> QED BY <1>1, <1>2, <1>3, <1>4, <1>5, <1>6, <1>7, <1>8, <1>9, <1>10, <1>11,
           <1>12, <1>13 DEF Next, Processor, Streaming

(* The trainer's batch follows where fit is: fully_async_trainer.py:290-312, *)
(* 487-503.                                                                  *)
LEMMA TrainerStep ==
  ASSUME TypeOK, TrainerInv, [Next]_vars
  PROVE  TrainerInv'
<1> USE FullyAsyncAssumption DEF TrainerInv
<1>1. CASE TrainerGets
  <2>1. Len(batch) < RequiredSamples /\ batch \in Seq(Sample)
    BY <1>1 DEF TrainerGets, TypeOK, TrainTypeOK
  <2>2. CASE Head(queue) = None
    BY <1>1, <2>2 DEF TrainerGets
  <2>3. CASE Head(queue) # None
    <3>1. /\ batch' = Append(batch, Head(queue))
          /\ trainer' = IF Len(batch) + 1 = RequiredSamples
                        THEN "train" ELSE "collect"
      BY <1>1, <2>3 DEF TrainerGets
    <3>2. Len(batch') = Len(batch) + 1 /\ Len(batch) \in Nat
      BY <2>1, <3>1
    <3> QED BY <2>1, <3>1, <3>2
  <2> QED BY <2>2, <2>3
<1>2. CASE TrainerUpdates
  <2>1. batch' = <<>> /\ Len(batch') < RequiredSamples
    BY <1>2 DEF TrainerUpdates
  <2> QED BY <1>2, <2>1 DEF TrainerUpdates
<1>3. CASE TrainerFinishes
  BY <1>3 DEF TrainerFinishes
<1>4. CASE TrainerSyncs
  BY <1>4 DEF TrainerSyncs, ResetReadsTasks
<1>5. CASE ResetBegins
  BY <1>5 DEF ResetBegins, ResetReadsTasks
<1>6. CASE ResetEnds
  <2>1. batch' = <<>> /\ Len(batch') < RequiredSamples
    BY <1>6 DEF ResetEnds
  <2> QED BY <1>6, <2>1 DEF ResetEnds
<1>7. CASE MainClears
  BY <1>7 DEF MainClears
<1>8. CASE \/ Feeder \/ Processor \/ Streaming \/ Monitor \/ TrainerWaits
           \/ Terminated \/ (\E s \in Sample : Task(s)) \/ UNCHANGED vars
  <2>1. UNCHANGED <<trainer, batch, local_trigger_step>>
    <3>1. CASE Processor
      BY <3>1 DEF Processor, ProcessorAsks, ProcessorDecides, ProcessorPauses,
         ProcessorReaps, ProcessorReapsLate, ProcessorResumes, ProcessorPulls,
         ProcessorPassesLimit, ProcessorSubmits, ProcessorEnds, train
    <3>2. CASE ~ Processor
      BY <1>8, <3>2 DEF Feeder, FeedSample, FeedEndSignal, Streaming,
         StreamingPutsEnd, StreamingStops, Monitor, MonitorAsks,
         MonitorDecides, MonitorResumes, MonitorStops, TrainerWaits,
         Terminated, Task, TaskPuts, TaskDone, TaskRaises, train, vars
    <3> QED BY <3>1, <3>2
  <2> QED BY <2>1
<1> QED BY <1>1, <1>2, <1>3, <1>4, <1>5, <1>6, <1>7, <1>8 DEF Next, Training

-----------------------------------------------------------------------------
(* What a step can do to the tasks: some stop generating and some finished   *)
(* ones are reaped, or one sample is submitted, which takes the lock that a  *)
(* reset_staleness in its await is holding.                                  *)
SubmitsOne(s) ==
  /\ InFlight' = InFlight \cup {s}
  /\ s \in active_tasks'
  /\ active_tasks \ Finished \subseteq active_tasks'
  /\ trainer # "resetting" /\ trainer' = trainer

OnlyReaps ==
  /\ InFlight' \subseteq InFlight
  /\ active_tasks \ Finished \subseteq active_tasks'

(* Submitting makes one more sample generating, one of the active ones. *)
LEMMA SubmitFrame ==
  ASSUME TypeOK, NEW s \in Sample, NEW left \in SUBSET Sample, Submit(s, left)
  PROVE  InFlight' = InFlight \cup {s} /\ active_tasks' = left \cup {s}
  BY DEF TypeOK, ProcessorTypeOK, Submit, InFlight

(* Reaping finished tasks touches none that is generating. *)
LEMMA LeaveFrame ==
  ASSUME TypeOK, NEW s \in Sample, NEW v, v # "generating",
         task' = [task EXCEPT ![s] = v]
  PROVE  InFlight' = InFlight \ {s}
  BY DEF TypeOK, ProcessorTypeOK, InFlight

(* A task that puts, ends or raises starts no other. *)
LEMMA TaskFrame ==
  ASSUME TypeOK, LockInv, HeldInv, [Next]_vars
  PROVE  OnlyReaps \/ \E s \in Sample : SubmitsOne(s)
<1> USE DEF OnlyReaps, SubmitsOne
<1>1. CASE ProcessorReaps
  BY <1>1 DEF ProcessorReaps, Drain, Reap, InFlight, tasks
<1>2. CASE ProcessorReapsLate
  BY <1>2 DEF ProcessorReapsLate, Drain, Reap, InFlight, tasks
<1>3. CASE ProcessorPulls
  <2>1. Head(pending_queue) \in Sample \cup {None}
    BY <1>3 DEF TypeOK, FeedTypeOK, ProcessorPulls, Item
  <2>2. CASE Submit(Head(pending_queue), active_tasks) /\ lock = <<>>
             /\ Head(pending_queue) # None
    <3>1. /\ InFlight' = InFlight \cup {Head(pending_queue)}
          /\ active_tasks' = active_tasks \cup {Head(pending_queue)}
      BY <2>1, <2>2, SubmitFrame DEF TypeOK, ProcessorTypeOK
    <3>2. trainer # "resetting" /\ trainer' = trainer
      BY <1>3, <2>2, LockWanted DEF ResetWantsLock, ProcessorPulls, train
    <3> QED BY <2>1, <2>2, <3>1, <3>2
  <2>3. CASE UNCHANGED <<active_tasks, task>>
    BY <2>3 DEF InFlight
  <2> QED BY <1>3, <2>2, <2>3 DEF ProcessorPulls
<1>4. CASE ProcessorPassesLimit
  <2>1. held \in Sample /\ trainer # "resetting" /\ trainer' = trainer
    BY <1>4, ProcessorLeaves
       DEF ProcessorPassesLimit, HeldInv, train, ProcessorWantsLock,
           ResetWantsLock
  <2>2. CASE Submit(held, active_tasks \ Finished)
    <3>1. active_tasks \ Finished \in SUBSET Sample
      BY DEF TypeOK, ProcessorTypeOK
    <3> QED BY <2>1, <2>2, <3>1, SubmitFrame
  <2>3. CASE active_tasks' = active_tasks \ Finished /\ UNCHANGED task
    BY <2>3 DEF InFlight
  <2> QED BY <1>4, <2>2, <2>3 DEF ProcessorPassesLimit, Reap
<1>5. CASE ProcessorSubmits
  <2>1. held \in Sample /\ trainer # "resetting" /\ trainer' = trainer
    BY <1>5, ProcessorLeaves
       DEF ProcessorSubmits, HeldInv, train, ProcessorWantsLock,
           ResetWantsLock
  <2>2. Submit(held, active_tasks) /\ active_tasks \in SUBSET Sample
    BY <1>5 DEF ProcessorSubmits, TypeOK, ProcessorTypeOK
  <2> QED BY <2>1, <2>2, SubmitFrame
<1>6. CASE ProcessorEnds
  BY <1>6 DEF ProcessorEnds, Reap, InFlight, tasks
<1>7. ASSUME NEW s \in Sample, Task(s)
      PROVE  OnlyReaps
  <2>1. active_tasks' = active_tasks
    BY <1>7 DEF Task, TaskPuts, TaskDone, TaskRaises
  <2>2. \E v \in {"replying", "done", "raised"} :
          task' = [task EXCEPT ![s] = v]
    BY <1>7 DEF Task, TaskPuts, TaskDone, TaskRaises
  <2> QED BY <2>1, <2>2, LeaveFrame
<1>8. CASE \/ Feeder \/ Streaming \/ Monitor \/ Training \/ MainClears
           \/ Terminated \/ ProcessorAsks \/ ProcessorDecides
           \/ ProcessorPauses \/ ProcessorResumes \/ UNCHANGED vars
  <2>1. UNCHANGED <<task, active_tasks>>
    BY <1>8 DEF Feeder, FeedSample, FeedEndSignal, Streaming,
       StreamingPutsEnd, StreamingStops, Monitor, MonitorAsks, MonitorDecides,
       MonitorResumes, MonitorStops, Training, TrainerGets, TrainerWaits,
       TrainerUpdates, TrainerFinishes, TrainerSyncs, ResetBegins, ResetEnds,
       MainClears, Terminated, ProcessorAsks, ProcessorDecides,
       ProcessorPauses, ProcessorResumes, tasks, vars
  <2> QED BY <2>1 DEF InFlight
<1> QED BY <1>1, <1>2, <1>3, <1>4, <1>5, <1>6, <1>7, <1>8 DEF Next, Processor

(* A generating task is never reaped. *)
LEMMA TaskStep ==
  ASSUME TypeOK, LockInv, HeldInv, TaskInv, [Next]_vars
  PROVE  TaskInv'
<1>1. InFlight \subseteq active_tasks \ Finished
  BY DEF TaskInv, InFlight, Finished
<1>2. CASE OnlyReaps
  BY <1>1, <1>2 DEF TaskInv, OnlyReaps
<1>3. ASSUME NEW s \in Sample, SubmitsOne(s) PROVE TaskInv'
  BY <1>1, <1>3 DEF TaskInv, SubmitsOne
<1> QED BY <1>2, <1>3, TaskFrame

(* The count that reset_staleness takes at line 573, before its await, still *)
(* bounds the generating tasks after it.                                     *)
LEMMA CountStep ==
  ASSUME TypeOK, LockInv, HeldInv, TaskInv, CountInv, [Next]_vars
  PROVE  CountInv'
<1> SUFFICES ASSUME trainer' = "resetting"
             PROVE  Cardinality(InFlight') <= countedTasks'
  BY DEF CountInv
<1>1. InFlight \in SUBSET Sample /\ active_tasks \in SUBSET Sample
  BY DEF InFlight, TypeOK, ProcessorTypeOK
<1>2. InFlight' \subseteq InFlight
  <2>1. ASSUME NEW s \in Sample, SubmitsOne(s) PROVE FALSE
    BY <2>1 DEF SubmitsOne
  <2> QED BY <2>1, TaskFrame DEF OnlyReaps
<1>3. Cardinality(InFlight') <= Cardinality(InFlight)
  BY <1>1, <1>2, SampleSets, FS_Subset
<1>4. \A S \in SUBSET Sample : Cardinality(S) \in Nat
  BY SampleSets
<1>5. CASE trainer = "resetting" /\ countedTasks' = countedTasks
  <2>1. InFlight' \in SUBSET Sample /\ countedTasks \in Nat
    BY <1>1, <1>2 DEF TypeOK, TrainTypeOK
  <2> QED BY <1>1, <1>3, <1>4, <1>5, <2>1 DEF CountInv
<1>6. CASE countedTasks' = Cardinality(active_tasks)
  <2>1. Cardinality(InFlight) <= Cardinality(active_tasks)
    BY <1>1, SampleSets, FS_Subset DEF TaskInv
  <2>2. InFlight' \in SUBSET Sample
    BY <1>1, <1>2
  <2> QED BY <1>1, <1>3, <1>4, <1>6, <2>1, <2>2
<1>7. \/ trainer = "resetting" /\ countedTasks' = countedTasks
      \/ countedTasks' = Cardinality(active_tasks)
  <2>1. CASE Training \/ MainClears
    BY <2>1 DEF Training, TrainerGets, TrainerWaits, TrainerUpdates,
       TrainerFinishes, TrainerSyncs, ResetBegins, ResetEnds, ResetReadsTasks,
       MainClears, train
  <2>2. CASE ~ (Training \/ MainClears)
    <3>1. UNCHANGED <<trainer, countedTasks>>
      <4>1. CASE Processor
        BY <4>1 DEF Processor, ProcessorAsks, ProcessorDecides,
           ProcessorPauses, ProcessorReaps, ProcessorReapsLate,
           ProcessorResumes, ProcessorPulls, ProcessorPassesLimit,
           ProcessorSubmits, ProcessorEnds, train
      <4>2. CASE ~ Processor
        BY <2>2, <4>2 DEF Next, Feeder, FeedSample, FeedEndSignal, Streaming,
           StreamingPutsEnd, StreamingStops, Monitor, MonitorAsks,
           MonitorDecides, MonitorResumes, MonitorStops, Terminated, Task,
           TaskPuts, TaskDone, TaskRaises, train, vars
      <4> QED BY <4>1, <4>2
    <3> QED BY <3>1
  <2> QED BY <2>1, <2>2
<1> QED BY <1>5, <1>6, <1>7

-----------------------------------------------------------------------------
(* max_concurrent_samples: the sample that waits to be submitted has room,   *)
(* because nobody else submits and the drain only takes tasks away (lines    *)
(* 904-921).                                                                 *)
LEMMA LimitStep ==
  ASSUME TypeOK, HeldInv, LimitInv, [Next]_vars
  PROVE  LimitInv'
<1> USE MaxConcurrentType
<1>1. /\ active_tasks \in SUBSET Sample /\ active_tasks' \in SUBSET active_tasks
         => /\ Cardinality(active_tasks') <= Cardinality(active_tasks)
            /\ Cardinality(active_tasks') \in Nat
  BY SampleSets, FS_Subset
<1>2. active_tasks \in SUBSET Sample /\ Cardinality(active_tasks) \in Nat
  BY SampleSets DEF TypeOK, ProcessorTypeOK
<1>3. ASSUME NEW s, NEW left \in SUBSET active_tasks, Submit(s, left),
             Cardinality(left) < MaxConcurrent
      PROVE  LimitInv'
  <2>1. IsFiniteSet(left) /\ Cardinality(left) \in Nat
    BY <1>2, SampleSets
  <2>2. /\ Cardinality(left \cup {s}) <= Cardinality(left) + 1
        /\ Cardinality(left \cup {s}) \in Nat
    <3>1. \/ Cardinality(left \cup {s}) = Cardinality(left)
          \/ Cardinality(left \cup {s}) = Cardinality(left) + 1
      BY <2>1, FS_AddElement
    <3> QED BY <2>1, <3>1
  <2>3. active_tasks' = left \cup {s} /\ processor' = "check"
    BY <1>3 DEF Submit
  <2> QED BY <1>3, <2>1, <2>2, <2>3 DEF LimitInv
<1>4. CASE ProcessorPulls
  <2>1. CASE Submit(Head(pending_queue), active_tasks) /\ ~ AtLimit
    BY <1>2, <1>3, <2>1 DEF AtLimit
  <2>2. CASE UNCHANGED active_tasks /\ (processor' = "submitLock" => ~ AtLimit)
    BY <1>2, <2>2 DEF LimitInv, AtLimit
  <2> QED BY <1>4, <2>1, <2>2 DEF ProcessorPulls
<1>5. CASE ProcessorPassesLimit
  <2> DEFINE left == active_tasks \ Finished
  <2>1. Finished # {} /\ Finished \subseteq active_tasks
    BY <1>5 DEF ProcessorPassesLimit, Finished
  <2>2. left \in SUBSET active_tasks /\ left # active_tasks
    BY <2>1
  <2>3. Cardinality(left) < Cardinality(active_tasks) /\ Cardinality(left) \in Nat
    <3>1. /\ Cardinality(left) <= Cardinality(active_tasks)
          /\ Cardinality(left) # Cardinality(active_tasks)
      BY <1>2, <2>2, SampleSets, FS_Subset
    <3>2. Cardinality(left) \in Nat
      BY <1>2, <2>2, SampleSets
    <3> QED BY <1>2, <3>1, <3>2
  <2>4. Cardinality(left) < MaxConcurrent
    BY <1>2, <2>3 DEF LimitInv
  <2>5. CASE Submit(held, left)
    BY <1>3, <2>2, <2>4, <2>5
  <2>6. CASE active_tasks' = left
    BY <2>4, <2>3, <2>6 DEF LimitInv
  <2> QED BY <1>5, <2>5, <2>6 DEF ProcessorPassesLimit, Reap
<1>6. CASE ProcessorSubmits
  <2>1. Cardinality(active_tasks) < MaxConcurrent
    BY <1>6 DEF ProcessorSubmits, LimitInv
  <2> QED BY <1>3, <1>6, <2>1 DEF ProcessorSubmits
<1>7. CASE ProcessorReaps \/ ProcessorReapsLate \/ ProcessorEnds
  <2>1. active_tasks' \in SUBSET active_tasks /\ processor' # "submitLock"
    BY <1>7 DEF ProcessorReaps, ProcessorReapsLate, ProcessorEnds, Drain, Reap
  <2> QED BY <1>1, <1>2, <2>1 DEF LimitInv
<1>8. CASE \/ Feeder \/ Streaming \/ Monitor \/ Training \/ MainClears
           \/ Terminated \/ ProcessorAsks \/ ProcessorDecides
           \/ ProcessorPauses \/ ProcessorResumes \/ UNCHANGED vars
           \/ \E s \in Sample : Task(s)
  <2>1. /\ UNCHANGED active_tasks
        /\ processor' = "submitLock" => processor = "submitLock"
    <3>1. CASE ProcessorAsks \/ ProcessorDecides \/ ProcessorPauses
               \/ ProcessorResumes
      BY <3>1 DEF ProcessorAsks, ProcessorDecides, ProcessorPauses,
                  ProcessorResumes, Pause
    <3>2. CASE ~ (ProcessorAsks \/ ProcessorDecides \/ ProcessorPauses
                  \/ ProcessorResumes)
      BY <1>8, <3>2 DEF Feeder, FeedSample, FeedEndSignal, Streaming,
         StreamingPutsEnd, StreamingStops, Monitor, MonitorAsks,
         MonitorDecides, MonitorResumes, MonitorStops, Training, TrainerGets,
         TrainerWaits, TrainerUpdates, TrainerFinishes, TrainerSyncs,
         ResetBegins, ResetEnds, MainClears, Terminated, Task, TaskPuts,
         TaskDone, TaskRaises, vars
    <3> QED BY <3>1, <3>2
  <2> QED BY <2>1 DEF LimitInv
<1> QED BY <1>4, <1>5, <1>6, <1>7, <1>8 DEF Next, Processor

-----------------------------------------------------------------------------
(* The four terms of Load are numbers. *)
LoadOK ==
  /\ Cardinality(InFlight) \in Nat
  /\ Len(queue) \in Nat
  /\ ConsumedInRound \in Nat
  /\ Load = Cardinality(InFlight) + Len(queue)
              + (IF held = NoItem THEN 0 ELSE 1) + ConsumedInRound

(* What the load is the sum of: all of it natural numbers. *)
LEMMA LoadParts == TypeOK => LoadOK
<1> SUFFICES ASSUME TypeOK PROVE LoadOK
  OBVIOUS
<1>1. InFlight \in SUBSET Sample
  BY DEF InFlight
<1>2. Cardinality(InFlight) \in Nat
  BY <1>1, SampleSets
<1>3. Len(queue) \in Nat /\ Len(batch) \in Nat
  BY DEF TypeOK, MQ!MQTypeOK, TrainTypeOK
<1>4. (local_trigger_step - 1) * RequiredSamples \in Nat
  <2>1. local_trigger_step - 1 \in Nat /\ RequiredSamples \in Nat
    BY FullyAsyncAssumption DEF TypeOK, TrainTypeOK
  <2> QED BY <2>1
<1> QED BY <1>2, <1>3, <1>4 DEF LoadOK, Load, Outstanding, ConsumedInRound

(* A sample taken from the queue goes to the batch, a local update carries   *)
(* the batch over, a new version starts a new round, a clear forgets: the    *)
(* trainer never makes the queue and the round together longer.              *)
LEMMA ConsumptionStep ==
  ASSUME TypeOK, TrainerInv, Training \/ MainClears, TypeOK'
  PROVE  Len(queue') + ConsumedInRound' <= Len(queue) + ConsumedInRound
<1> DEFINE before == (local_trigger_step - 1) * RequiredSamples
<1>1. /\ Len(queue) \in Nat /\ Len(queue') \in Nat
      /\ batch \in Seq(Sample) /\ Len(batch) \in Nat
      /\ local_trigger_step \in Nat /\ local_trigger_step >= 1
      /\ RequiredSamples \in Nat
  <2>1. Len(queue) \in Nat /\ Len(queue') \in Nat
    BY DEF TypeOK, MQ!MQTypeOK
  <2>2. batch \in Seq(Sample) /\ local_trigger_step \in 1 .. TriggerSync
    BY DEF TypeOK, TrainTypeOK
  <2> QED BY <2>1, <2>2, FullyAsyncAssumption
<1>2. before \in Nat
  <2>1. local_trigger_step - 1 \in Nat
    BY <1>1
  <2> QED BY <1>1, <2>1
<1>3. ASSUME Len(queue') <= Len(queue), UNCHANGED local_trigger_step,
             Len(batch') = 0 \/ UNCHANGED batch
      PROVE  Len(queue') + ConsumedInRound' <= Len(queue) + ConsumedInRound
  <2>1. ConsumedInRound = before + Len(batch)
    BY DEF ConsumedInRound
  <2>2. ConsumedInRound' = before + Len(batch')
    BY <1>3 DEF ConsumedInRound
  <2> HIDE DEF before
  <2> QED BY <1>1, <1>2, <1>3, <2>1, <2>2
<1>4. CASE TrainerGets
  <2>1. Len(queue') = Len(queue) - 1
    BY <1>4, GetType DEF TrainerGets, TypeOK
  <2>2. CASE Head(queue) = None
    <3>1. Len(batch') = 0 /\ UNCHANGED local_trigger_step
      BY <1>4, <2>2 DEF TrainerGets
    <3> QED BY <1>1, <1>3, <2>1, <3>1
  <2>3. CASE Head(queue) # None
    <3>1. Len(batch') = Len(batch) + 1 /\ UNCHANGED local_trigger_step
      BY <1>1, <1>4, <2>3 DEF TrainerGets
    <3>2. ConsumedInRound' = before + (Len(batch) + 1)
      BY <3>1 DEF ConsumedInRound
    <3>3. ConsumedInRound = before + Len(batch)
      BY DEF ConsumedInRound
    <3> HIDE DEF before
    <3> QED BY <1>1, <1>2, <2>1, <3>2, <3>3
  <2> QED BY <2>2, <2>3
<1>5. CASE TrainerUpdates
  <2>1. /\ Len(batch) = RequiredSamples /\ Len(batch') = 0
        /\ queue' = queue
    BY <1>5 DEF TrainerUpdates, TrainerInv, mq
  <2>2. CASE RoundContinues
    <3>1. local_trigger_step' = local_trigger_step + 1
      BY <1>5, <2>2 DEF TrainerUpdates
    <3>2. ConsumedInRound' = local_trigger_step * RequiredSamples
      BY <1>1, <2>1, <3>1 DEF ConsumedInRound
    <3>3. local_trigger_step * RequiredSamples = before + RequiredSamples
      BY <1>1
    <3>4. ConsumedInRound = before + RequiredSamples
      BY <2>1 DEF ConsumedInRound
    <3> HIDE DEF before
    <3> QED BY <1>1, <1>2, <2>1, <3>2, <3>3, <3>4
  <2>3. CASE ~ RoundContinues
    <3>1. local_trigger_step' = 1
      BY <1>5, <2>3 DEF TrainerUpdates
    <3>2. ConsumedInRound' = 0
      BY <1>1, <2>1, <3>1 DEF ConsumedInRound
    <3>3. ConsumedInRound \in Nat
      BY LoadParts DEF LoadOK
    <3> QED BY <1>1, <2>1, <3>2, <3>3
  <2> QED BY <2>2, <2>3
<1>6. CASE MainClears
  <2>1. Len(queue') = 0 /\ UNCHANGED <<local_trigger_step, batch>>
    BY <1>6, ClearType DEF MainClears, TypeOK
  <2> QED BY <1>1, <1>3, <2>1
<1>7. CASE TrainerWaits \/ TrainerFinishes \/ TrainerSyncs \/ ResetBegins
           \/ ResetEnds
  <2>1. UNCHANGED <<queue, local_trigger_step, batch>>
    BY <1>7 DEF TrainerWaits, TrainerFinishes, TrainerSyncs, ResetBegins,
       ResetEnds, MQ!GetWaits, mq, train
  <2> QED BY <1>1, <1>3, <2>1
<1> QED BY <1>4, <1>5, <1>6, <1>7 DEF Training

(* Only pulling an item from pending_queue makes the load grow, by one; the  *)
(* item then moves from the processor's hands to a task to the queue to the  *)
(* batch.                                                                    *)
LEMMA LoadStep ==
  ASSUME TypeOK, LockInv, HeldInv, TrainerInv, TypeOK', [Next]_vars,
         processor # "failed", processor' # "failed"
  PROVE  Load' <= Load + (IF ProcessorPulls THEN 1 ELSE 0)
<1> DEFINE H == IF held = NoItem THEN 0 ELSE 1
           G == Cardinality(InFlight)
<1>1. /\ G \in Nat /\ Len(queue) \in Nat /\ ConsumedInRound \in Nat
      /\ H \in Nat /\ Load = G + Len(queue) + H + ConsumedInRound
  BY LoadParts DEF LoadOK
<1>2. /\ G' \in Nat /\ Len(queue') \in Nat /\ ConsumedInRound' \in Nat
      /\ H' \in Nat /\ Load' = G' + Len(queue') + H' + ConsumedInRound'
  <2>1. LoadOK'
    BY LoadParts, PTL
  <2> QED BY <2>1 DEF LoadOK
<1>3. InFlight \in SUBSET Sample /\ IsFiniteSet(InFlight)
  BY SampleSets DEF InFlight
<1>4. ASSUME NEW s \in Sample, NEW left \in SUBSET Sample, Submit(s, left)
      PROVE  H' = 0 /\ G' <= G + 1
  <2>1. InFlight' = InFlight \cup {s}
    BY <1>4, SubmitFrame
  <2>2. \/ Cardinality(InFlight \cup {s}) = G
        \/ Cardinality(InFlight \cup {s}) = G + 1
    BY <1>3, FS_AddElement
  <2>3. G' = G \/ G' = G + 1
    BY <2>1, <2>2
  <2>4. H' = 0
    BY <1>4 DEF Submit
  <2> HIDE DEF G, H
  <2> QED BY <1>1, <1>2, <2>3, <2>4
<1>5. ASSUME UNCHANGED task PROVE G' = G
  BY <1>5 DEF InFlight
<1>6. ASSUME UNCHANGED <<local_trigger_step, batch>>
      PROVE  ConsumedInRound' = ConsumedInRound
  BY <1>6 DEF ConsumedInRound
<1>7. ASSUME UNCHANGED held PROVE H' = H
  BY <1>7
<1>8. held \in Sample => H = 1
  BY FullyAsyncAssumption DEF Sample, NoItem
<1>9. UNCHANGED <<mq, train>> =>
        ConsumedInRound' = ConsumedInRound /\ queue' = queue
  BY <1>6 DEF mq, train
<1> HIDE DEF G, H
<1>10. CASE ProcessorPulls
  <2>1. queue' = queue /\ ConsumedInRound' = ConsumedInRound
    BY <1>9, <1>10 DEF ProcessorPulls
  <2>2. H = 0 /\ Head(pending_queue) \in Sample \cup {None}
    BY <1>10 DEF ProcessorPulls, HeldInv, H, TypeOK, FeedTypeOK, Item
  <2>3. CASE Submit(Head(pending_queue), active_tasks)
             /\ Head(pending_queue) # None
    <3>1. H' = 0 /\ G' <= G + 1
      BY <1>4, <2>2, <2>3 DEF TypeOK, ProcessorTypeOK
    <3> QED BY <1>1, <1>2, <1>10, <2>1, <2>2, <3>1
  <2>4. CASE UNCHANGED <<active_tasks, task>>
    <3>1. G' = G
      BY <1>5, <2>4
    <3>2. H' <= 1
      BY DEF H
    <3> QED BY <1>1, <1>2, <1>10, <2>1, <2>2, <3>1, <3>2
  <2> QED BY <1>10, <2>3, <2>4 DEF ProcessorPulls
<1>11. CASE ProcessorPassesLimit
  <2>1. queue' = queue /\ ConsumedInRound' = ConsumedInRound
    BY <1>9, <1>11 DEF ProcessorPassesLimit
  <2>2. held \in Sample /\ H = 1
    BY <1>8, <1>11 DEF ProcessorPassesLimit, HeldInv
  <2>3. CASE Submit(held, active_tasks \ Finished)
    <3>1. active_tasks \ Finished \in SUBSET Sample
      BY DEF TypeOK, ProcessorTypeOK
    <3>2. H' = 0 /\ G' <= G + 1
      BY <1>4, <2>2, <2>3, <3>1
    <3> QED BY <1>1, <1>2, <2>1, <2>2, <3>2
  <2>4. CASE UNCHANGED <<held, task>>
    BY <1>1, <1>2, <1>5, <1>7, <2>1, <2>4
  <2>5. ~ Raised(Finished)
    BY <1>11 DEF ProcessorPassesLimit, Reap
  <2> QED BY <1>11, <2>3, <2>4, <2>5 DEF ProcessorPassesLimit
<1>12. CASE ProcessorSubmits
  <2>1. queue' = queue /\ ConsumedInRound' = ConsumedInRound
    BY <1>9, <1>12 DEF ProcessorSubmits
  <2>2. held \in Sample /\ H = 1
    BY <1>8, <1>12 DEF ProcessorSubmits, HeldInv
  <2>3. active_tasks \in SUBSET Sample
    BY DEF TypeOK, ProcessorTypeOK
  <2>4. H' = 0 /\ G' <= G + 1
    BY <1>4, <1>12, <2>2, <2>3 DEF ProcessorSubmits
  <2> QED BY <1>1, <1>2, <2>1, <2>2, <2>4
<1>13. CASE ProcessorEnds
  <2>1. UNCHANGED <<held, task>>
    BY <1>13 DEF ProcessorEnds, Reap, tasks
  <2>2. queue' = queue /\ ConsumedInRound' = ConsumedInRound
    BY <1>9, <1>13 DEF ProcessorEnds
  <2> QED BY <1>1, <1>2, <1>5, <1>7, <2>1, <2>2
<1>14. CASE StreamingPutsEnd
  <2>1. held = None /\ held' = NoItem
    BY <1>14 DEF StreamingPutsEnd, HeldInv
  <2>2. H = 1 /\ H' = 0
    BY <2>1 DEF H, None, NoItem
  <2>3. Len(queue') <= Len(queue) + 1
    BY <1>14, PutType DEF StreamingPutsEnd, TypeOK, Item
  <2>4. G' = G /\ ConsumedInRound' = ConsumedInRound
    BY <1>5, <1>6, <1>14 DEF StreamingPutsEnd, tasks, train
  <2> QED BY <1>1, <1>2, <2>2, <2>3, <2>4
<1>15. ASSUME NEW s \in Sample, Task(s)
       PROVE  Load' <= Load
  <2>1. task[s] \in {"generating", "replying"}
    BY <1>15 DEF Task, TaskPuts, TaskDone, TaskRaises
  <2>2. H' = H /\ ConsumedInRound' = ConsumedInRound
    BY <1>6, <1>7, <1>15 DEF Task, TaskPuts, TaskDone, TaskRaises, train
  <2>3. InFlight' = InFlight \ {s}
    BY <1>15, LeaveFrame DEF Task, TaskPuts, TaskDone, TaskRaises
  <2>4. CASE TaskPuts(s)
    <3>1. Len(queue') <= Len(queue) + 1
      BY <2>4, PutType DEF TaskPuts, TypeOK, Item
    <3>2. s \in InFlight
      BY <2>4 DEF TaskPuts, InFlight
    <3>3. G' = G - 1
      BY <1>3, <2>3, <3>2, FS_RemoveElement DEF G
    <3> QED BY <1>1, <1>2, <2>2, <3>1, <3>3
  <2>5. CASE ~ TaskPuts(s)
    <3>1. queue' = queue
      BY <1>15, <2>5 DEF Task, TaskDone, TaskRaises, mq
    <3>2. G' <= G
      BY <1>3, <2>3, FS_Subset DEF G
    <3> QED BY <1>1, <1>2, <2>2, <3>1, <3>2
  <2> QED BY <2>4, <2>5
<1>16. CASE Training \/ MainClears
  <2>1. Len(queue') + ConsumedInRound' <= Len(queue) + ConsumedInRound
    BY <1>16, ConsumptionStep
  <2>2. UNCHANGED <<task, held>>
    BY <1>16 DEF Training, TrainerGets, TrainerWaits, TrainerUpdates,
       TrainerFinishes, TrainerSyncs, ResetBegins, ResetEnds, MainClears, tasks
  <2> QED BY <1>1, <1>2, <1>5, <1>7, <2>1, <2>2
<1>17. CASE \/ Feeder \/ StreamingStops \/ Monitor \/ Terminated
            \/ ProcessorAsks \/ ProcessorDecides \/ ProcessorPauses
            \/ ProcessorReaps \/ ProcessorReapsLate \/ ProcessorResumes
            \/ UNCHANGED vars
  <2>1. UNCHANGED <<task, held, mq, train>>
    BY <1>17 DEF Feeder, FeedSample, FeedEndSignal, StreamingStops, Monitor,
       MonitorAsks, MonitorDecides, MonitorResumes, MonitorStops, Terminated,
       ProcessorAsks, ProcessorDecides, ProcessorPauses, ProcessorReaps,
       ProcessorReapsLate, ProcessorResumes, tasks, vars
  <2> QED BY <1>1, <1>2, <1>5, <1>7, <1>9, <2>1
<1> QED BY <1>1, <1>2, <1>10, <1>11, <1>12, <1>13, <1>14, <1>15, <1>16, <1>17
        DEF Next, Processor, Streaming

-----------------------------------------------------------------------------
(* The budget is inductive: the processor adds one to both sides when it     *)
(* pulls, having decided on a staleness below max_required_samples, and a    *)
(* reset leaves out at most the item in the processor's hands.               *)
LEMMA BudgetStep ==
  ASSUME TypeOK, LockInv, HeldInv, TrainerInv, CountInv, BudgetInv, TypeOK',
         [Next]_vars
  PROVE  BudgetInv'
<1> USE MaxRequiredType
<1> SUFFICES ASSUME processor' # "failed"
             PROVE  /\ Load' <= staleness_samples' + 1
                    /\ Load' <= MaxRequired + 1
                    /\ processor' = "pull" => Load' <= MaxRequired
  BY DEF BudgetInv
<1>1. processor # "failed"
  BY DEF Next, Feeder, FeedSample, FeedEndSignal, Processor, ProcessorAsks,
     ProcessorDecides, ProcessorPauses, ProcessorReaps, ProcessorReapsLate,
     ProcessorResumes, ProcessorPulls, ProcessorPassesLimit, ProcessorSubmits,
     ProcessorEnds, Streaming, StreamingPutsEnd, StreamingStops, Monitor,
     MonitorAsks, MonitorDecides, MonitorResumes, MonitorStops, Training,
     TrainerGets, TrainerWaits, TrainerUpdates, TrainerFinishes, TrainerSyncs,
     ResetBegins, ResetEnds, MainClears, Terminated, Task, TaskPuts, TaskDone,
     TaskRaises, vars
<1>2. /\ Load \in Nat /\ Load' \in Nat
      /\ staleness_samples \in Nat /\ staleness_samples' \in Nat
  <2>1. LoadOK /\ LoadOK'
    BY LoadParts, PTL
  <2>2. Load \in Nat
    BY <2>1 DEF LoadOK
  <2>3. Load' \in Nat
    BY <2>1 DEF LoadOK
  <2> QED BY <2>2, <2>3 DEF TypeOK, ControlTypeOK
<1>3. Load' <= Load + (IF ProcessorPulls THEN 1 ELSE 0)
  BY <1>1, LoadStep
<1>4. /\ Load <= staleness_samples + 1 /\ Load <= MaxRequired + 1
      /\ processor = "pull" => Load <= MaxRequired
  BY <1>1 DEF BudgetInv
<1>5. CASE ProcessorPulls
  <2>1. /\ processor = "pull" /\ processor' # "pull"
        /\ staleness_samples' = staleness_samples + 1
    BY <1>5 DEF ProcessorPulls, Submit
  <2> QED BY <1>2, <1>3, <1>4, <1>5, <2>1
<1>6. CASE ResetEnds
  <2>1. Len(batch) = 0 /\ local_trigger_step = 1
    BY <1>6 DEF ResetEnds, TrainerInv
  <2>2. ConsumedInRound = 0
    BY <2>1, FullyAsyncAssumption DEF ConsumedInRound
  <2>3. Cardinality(InFlight) <= countedTasks /\ countedTasks \in Nat
    BY <1>6 DEF ResetEnds, CountInv, TypeOK, TrainTypeOK
  <2>4. /\ staleness_samples' = countedTasks + Len(queue)
        /\ processor' = processor
    BY <1>6 DEF ResetEnds, FreshStaleness
  <2>5. Load <= staleness_samples' + 1
    BY <2>2, <2>3, <2>4, LoadParts DEF LoadOK
  <2>6. ~ ProcessorPulls
    BY <1>6 DEF ResetEnds, ProcessorPulls, train
  <2> QED BY <1>2, <1>3, <1>4, <2>4, <2>5, <2>6
<1>7. CASE ProcessorDecides
  <2>1. ~ ProcessorPulls /\ staleness_samples' = staleness_samples
    BY <1>7 DEF ProcessorDecides, ProcessorPulls
  <2>2. processor' = "pull" => ~ ShouldPause(seenSize)
    BY <1>7 DEF ProcessorDecides, Pause
  <2>3. processor' = "pull" => staleness_samples < MaxRequired
    BY <1>2, <2>2 DEF ShouldPause
  <2> QED BY <1>2, <1>3, <1>4, <2>1, <2>3
<1>8. CASE ~ (ProcessorPulls \/ ResetEnds \/ ProcessorDecides)
  <2>1. /\ staleness_samples' = staleness_samples
        /\ processor' = "pull" => processor = "pull"
    <3>1. CASE Processor
      BY <1>8, <3>1 DEF Processor, ProcessorAsks, ProcessorPauses,
         ProcessorReaps, ProcessorReapsLate, ProcessorResumes,
         ProcessorPassesLimit, ProcessorSubmits, ProcessorEnds, Pause, Drain,
         Reap, Submit, control
    <3>2. CASE ~ Processor
      BY <1>8, <3>2 DEF Next, Feeder, FeedSample, FeedEndSignal, Streaming,
         StreamingPutsEnd, StreamingStops, Monitor, MonitorAsks,
         MonitorDecides, MonitorResumes, MonitorStops, Training, TrainerGets,
         TrainerWaits, TrainerUpdates, TrainerFinishes, TrainerSyncs,
         ResetBegins, MainClears, Terminated, Task, TaskPuts, TaskDone,
         TaskRaises, control, vars
    <3> QED BY <3>1, <3>2
  <2> QED BY <1>2, <1>3, <1>4, <1>8, <2>1
<1> QED BY <1>5, <1>6, <1>7, <1>8

(* The state before fit satisfies the invariant. *)
LEMMA InitInv == Init => IInv
<1> SUFFICES ASSUME Init PROVE IInv
  OBVIOUS
<1> USE FullyAsyncAssumption
<1>1. TypeOK
  <2>1. MQ!MQTypeOK
    BY MaxRequiredType DEF Init, MQ!MQInit, MQ!MQTypeOK
  <2>2. FeedTypeOK
    BY DEF Init, FeedTypeOK, Sample
  <2>3. ProcessorTypeOK
    BY DEF Init, ProcessorTypeOK
  <2>4. ControlTypeOK
    <3>1. <<>> \in Seq({"processor", "reset"})
      OBVIOUS
    <3>2. lock \in Seq({"processor", "reset"})
      BY <3>1 DEF Init
    <3> QED BY <3>2 DEF Init, ControlTypeOK
  <2>5. TrainTypeOK
    <3>1. <<>> \in Seq(Sample) /\ 1 \in 1 .. TriggerSync
      OBVIOUS
    <3> QED BY <3>1 DEF Init, TrainTypeOK
  <2> QED BY <2>1, <2>2, <2>3, <2>4, <2>5 DEF TypeOK
<1>2. LockInv
  BY DEF Init, LockInv, ProcessorWantsLock, ResetWantsLock
<1>3. HeldInv
  BY DEF Init, HeldInv
<1>4. InFlight = {}
  BY DEF Init, InFlight
<1>5. TaskInv /\ CountInv
  BY <1>4 DEF Init, TaskInv, CountInv
<1>6. TrainerInv
  BY DEF Init, TrainerInv
<1>7. Cardinality({}) = 0
  BY FS_EmptySet
<1>8. LimitInv
  BY <1>7, MaxConcurrentType DEF Init, LimitInv
<1>9. BudgetInv
  <2>1. ConsumedInRound = 0 /\ Len(queue) = 0 /\ held = NoItem
    BY DEF Init, ConsumedInRound, MQ!MQInit
  <2>2. Load = 0
    BY <1>1, <1>4, <1>7, <2>1, LoadParts DEF LoadOK
  <2> QED BY <2>2, MaxRequiredType DEF Init, BudgetInv
<1> QED BY <1>1, <1>2, <1>3, <1>5, <1>6, <1>8, <1>9 DEF IInv

(* The pipeline never leaves the inductive invariant, from which follow    *)
(* its types, the concurrency limit and the rollout budget.                *)
THEOREM Invariance == Spec => []IInv
<1>1. IInv /\ [Next]_vars => IInv'
  <2> SUFFICES ASSUME IInv, [Next]_vars PROVE IInv'
    OBVIOUS
  <2> USE DEF IInv
  <2>1. TypeOK'
    BY TypeStep
  <2>2. LockInv' /\ HeldInv' /\ TrainerInv'
    BY LockStep, HeldStep, TrainerStep
  <2>3. TaskInv' /\ CountInv' /\ LimitInv'
    BY TaskStep, CountStep, LimitStep
  <2>4. BudgetInv'
    BY <2>1, BudgetStep
  <2> QED BY <2>1, <2>2, <2>3, <2>4
<1> QED BY <1>1, InitInv, PTL DEF Spec

(* Every variable keeps its type, for all values of the constants. *)
THEOREM TypeCorrect == Spec => []TypeOK
<1>1. IInv => TypeOK
  BY DEF IInv
<1> QED BY <1>1, Invariance, PTL

(* Between two parameter updates the rollouter has at most one sample more   *)
(* outstanding or consumed than max_required_samples (line 573 against lines *)
(* 887-921).                                                                 *)
THEOREM BudgetKept == Spec => []RolloutBudget
<1>1. IInv => RolloutBudget
  BY DEF IInv, BudgetInv, RolloutBudget, Load
<1> QED BY <1>1, Invariance, PTL

(* There are never more than max_concurrent_samples unreaped tasks (lines    *)
(* 904-921).                                                                 *)
THEOREM LimitKept == Spec => []ConcurrencyLimit
<1>1. IInv => ConcurrencyLimit
  BY DEF IInv, LimitInv, ConcurrencyLimit
<1> QED BY <1>1, Invariance, PTL

-----------------------------------------------------------------------------
(* NeverTwice.  A sample is fed once, in order, and its task tells where it *)
(* can be: pending or in the processor's hands before it is submitted, in   *)
(* the queue, the batch or the model after it has been put.                  *)
NoRepeats(q) ==
  \A i, j \in 1 .. Len(q) : q[i] = q[j] /\ q[i] \in Sample => i = j
Has(q, s) == \E i \in 1 .. Len(q) : q[i] = s
Delivered(s) == task[s] \in {"replying", "done"}

Unfed ==
  feeder = "feeding" =>
    \A s \in Sample : s >= global_steps =>
      task[s] = "none" /\ held # s /\ ~ Has(pending_queue, s)
Waiting ==
  /\ NoRepeats(pending_queue)
  /\ \A s \in Sample : Has(pending_queue, s) => task[s] = "none" /\ held # s
  /\ held \in Sample => task[held] = "none"
Arrived ==
  /\ NoRepeats(queue) /\ NoRepeats(batch)
  /\ \A s \in Sample :
       /\ Has(queue, s) => Delivered(s) /\ ~ Has(batch, s) /\ s \notin trained
       /\ Has(batch, s) => Delivered(s) /\ s \notin trained
       /\ s \in trained => Delivered(s)

OnceInv == Unfed /\ Waiting /\ Arrived

(* Sequences without repeated samples: what joins at the end and leaves at  *)
(* the head.                                                                *)
LEMMA AppendOnce ==
  ASSUME NEW S, NEW q \in Seq(S), NEW x \in S, NoRepeats(q),
         x \in Sample => ~ Has(q, x)
  PROVE  /\ NoRepeats(Append(q, x))
         /\ \A s : Has(Append(q, x), s) <=> Has(q, s) \/ s = x
<1> DEFINE t == Append(q, x)
<1>1. /\ Len(t) = Len(q) + 1 /\ Len(q) \in Nat
      /\ \A i \in 1 .. Len(q) : t[i] = q[i]
      /\ t[Len(q) + 1] = x
  OBVIOUS
<1>2. \A i \in 1 .. Len(t) : i \in 1 .. Len(q) \/ i = Len(q) + 1
  BY <1>1
<1>3. 1 .. Len(q) \subseteq 1 .. Len(t) /\ Len(q) + 1 \in 1 .. Len(t)
  BY <1>1
<1> HIDE DEF t
<1>4. NoRepeats(t)
  BY <1>1, <1>2 DEF NoRepeats, Has
<1>5. \A s : Has(t, s) <=> Has(q, s) \/ s = x
  BY <1>1, <1>2, <1>3 DEF Has
<1> QED BY <1>4, <1>5 DEF t

LEMMA TailOnce ==
  ASSUME NEW S, NEW q \in Seq(S), q # <<>>, NoRepeats(q)
  PROVE  /\ NoRepeats(Tail(q)) /\ Has(q, Head(q))
         /\ \A s : Has(Tail(q), s) => Has(q, s)
         /\ Head(q) \in Sample => ~ Has(Tail(q), Head(q))
<1> DEFINE t == Tail(q)
<1>1. /\ Len(t) = Len(q) - 1 /\ Len(q) \in Nat /\ Len(q) >= 1
      /\ \A i \in 1 .. Len(t) : t[i] = q[i + 1] /\ i + 1 \in 1 .. Len(q) /\ i + 1 # 1
      /\ Head(q) = q[1] /\ 1 \in 1 .. Len(q)
  OBVIOUS
<1> HIDE DEF t
<1>2. NoRepeats(t)
  <2> SUFFICES ASSUME NEW i \in 1 .. Len(t), NEW j \in 1 .. Len(t), t[i] = t[j], t[i] \in Sample
               PROVE  i = j
    BY DEF NoRepeats
  <2>1. i + 1 = j + 1
    BY <1>1 DEF NoRepeats
  <2> QED BY <2>1
<1>3. Has(q, Head(q)) /\ \A s : Has(t, s) => Has(q, s)
  BY <1>1 DEF Has
<1>4. Head(q) \in Sample => ~ Has(t, Head(q))
  BY <1>1 DEF Has, NoRepeats
<1> QED BY <1>2, <1>3, <1>4 DEF t

LEMMA EmptyOnce == NoRepeats(<<>>) /\ \A s : ~ Has(<<>>, s)
BY DEF NoRepeats, Has

LEMMA CountOnce ==
  ASSUME NEW S, NEW q \in Seq(S), NoRepeats(q), NEW s \in Sample
  PROVE  /\ Count(q, s) \in {0, 1}
         /\ ~ Has(q, s) => Count(q, s) = 0
<1> DEFINE at == {i \in 1 .. Len(q) : q[i] = s}
<1>1. Has(q, s) => \E i : at = {i}
  BY DEF Has, NoRepeats
<1>2. ~ Has(q, s) => at = {}
  BY DEF Has
<1>3. Cardinality(at) \in {0, 1} /\ (~ Has(q, s) => Cardinality(at) = 0)
  BY <1>1, <1>2, FS_EmptySet, FS_Singleton
<1> QED BY <1>3 DEF Count

(* A put drops at most the oldest entry and adds one. *)
LEMMA PutOnce ==
  ASSUME MQ!MQTypeOK, NoRepeats(queue), NEW s \in Item, s \in Sample => ~ Has(queue, s),
         MQ!PutSample(s)
  PROVE  /\ NoRepeats(queue')
         /\ \A x : Has(queue', x) => Has(queue, x) \/ x = s
<1> DEFINE kept == IF MQ!Full THEN Tail(queue) ELSE queue
<1>1. queue \in Seq(Item) /\ (MQ!Full => queue # <<>>) /\ queue' = Append(kept, s)
  BY MaxRequiredType DEF MQ!MQTypeOK, MQ!PutSample, MQ!Full
<1>2. /\ kept \in Seq(Item) /\ NoRepeats(kept)
      /\ \A x : Has(kept, x) => Has(queue, x)
  <2>1. CASE MQ!Full
    BY <1>1, <2>1, TailOnce
  <2>2. CASE ~ MQ!Full
    BY <1>1, <2>2
  <2> QED BY <2>1, <2>2
<1> HIDE DEF kept
<1> QED BY <1>1, <1>2, AppendOnce

-----------------------------------------------------------------------------
(* Steps that move no sample, and those that touch one side only.           *)
LEMMA UnfedKept ==
  ASSUME Unfed, feeder' = feeder, global_steps' = global_steps,
         \A s \in Sample : task[s] = "none" /\ held # s /\ ~ Has(pending_queue, s) =>
           task'[s] = "none" /\ held' # s /\ ~ Has(pending_queue', s)
  PROVE  Unfed'
BY DEF Unfed

LEMMA ArrivedKept ==
  ASSUME Arrived, UNCHANGED <<queue, batch, trained>>,
         \A s \in Sample : Delivered(s) => Delivered(s)'
  PROVE  Arrived'
BY DEF Arrived, NoRepeats, Has

LEMMA WaitingKept ==
  ASSUME Waiting, UNCHANGED <<pending_queue, held>>,
         \A s \in Sample : task[s] = "none" => task'[s] = "none"
  PROVE  Waiting'
BY DEF Waiting, NoRepeats, Has

LEMMA QuietOnce ==
  ASSUME OnceInv, UNCHANGED <<feeder, global_steps, pending_queue, held, task, queue, batch,
                              trained>>
  PROVE  OnceInv'
BY DEF OnceInv, Unfed, Waiting, Arrived, Delivered, NoRepeats, Has

(* The feeder puts a sample that nobody has seen. *)
LEMMA FeedOnce ==
  ASSUME IInv, OnceInv, Feeder
  PROVE  OnceInv'
<1>1. UNCHANGED <<held, task, queue, batch, trained>>
  BY DEF Feeder, FeedSample, FeedEndSignal, mq, tasks, train
<1>2. Arrived'
  BY <1>1, ArrivedKept DEF OnceInv, Delivered
<1>3. CASE FeedSample
  <2>1. /\ feeder = "feeding" /\ global_steps \in Sample /\ global_steps \in Nat
        /\ pending_queue \in Seq(Item) /\ global_steps \in Item
        /\ pending_queue' = Append(pending_queue, global_steps)
        /\ \/ feeder' = "ending"
           \/ feeder' = "feeding" /\ global_steps' = global_steps + 1
    BY <1>3 DEF IInv, TypeOK, FeedTypeOK, FeedSample, Item, Sample
  <2>2. task[global_steps] = "none" /\ held # global_steps /\ ~ Has(pending_queue, global_steps)
    BY <2>1 DEF OnceInv, Unfed, Sample
  <2>3. /\ NoRepeats(pending_queue')
        /\ \A s : Has(pending_queue', s) <=> Has(pending_queue, s) \/ s = global_steps
    BY <2>1, <2>2, AppendOnce DEF OnceInv, Waiting
  <2>4. Waiting'
    BY <1>1, <2>2, <2>3 DEF OnceInv, Waiting
  <2>5. Unfed'
    <3> SUFFICES ASSUME feeder' = "feeding", NEW s \in Sample, s >= global_steps'
                 PROVE  task'[s] = "none" /\ held' # s /\ ~ Has(pending_queue', s)
      BY DEF Unfed
    <3>1. s >= global_steps /\ s # global_steps
      BY <2>1 DEF Sample
    <3> QED BY <1>1, <2>1, <2>3, <3>1 DEF OnceInv, Unfed
  <2> QED BY <1>2, <2>4, <2>5 DEF OnceInv
<1>4. CASE FeedEndSignal
  <2>1. /\ feeder' = "done" /\ pending_queue \in Seq(Item) /\ None \in Item
        /\ None \notin Sample /\ pending_queue' = Append(pending_queue, None)
    BY <1>4 DEF IInv, TypeOK, FeedTypeOK, FeedEndSignal, Item, Sample, None
  <2>2. /\ NoRepeats(pending_queue')
        /\ \A s : Has(pending_queue', s) <=> Has(pending_queue, s) \/ s = None
    BY <2>1, AppendOnce DEF OnceInv, Waiting
  <2>3. Waiting'
    BY <1>1, <2>1, <2>2 DEF OnceInv, Waiting
  <2> QED BY <1>2, <2>1, <2>3 DEF OnceInv, Unfed
<1> QED BY <1>3, <1>4 DEF Feeder

(* A task delivers its own sample, which nobody has had before. *)
LEMMA TaskOnce ==
  ASSUME IInv, OnceInv, NEW s \in Sample, Task(s)
  PROVE  OnceInv'
<1>1. /\ UNCHANGED <<feeder, global_steps, pending_queue, held, batch, trained>>
      /\ task \in [Sample -> {"none", "generating", "replying", "done", "raised"}]
  BY DEF Task, TaskPuts, TaskDone, TaskRaises, feed, tasks, train, IInv, TypeOK,
     ProcessorTypeOK
<1>2. PICK v : task' = [task EXCEPT ![s] = v]
  BY DEF Task, TaskPuts, TaskDone, TaskRaises
<1>3. task[s] # "none" /\ (Delivered(s) => v = "done")
  BY <1>1, <1>2 DEF Task, TaskPuts, TaskDone, TaskRaises, Delivered
<1>4. Unfed' /\ Waiting'
  BY <1>1, <1>2, <1>3, UnfedKept, WaitingKept DEF OnceInv
<1>5. \A x \in Sample : Delivered(x) => Delivered(x)'
  BY <1>1, <1>2, <1>3 DEF Delivered
<1>6. CASE TaskPuts(s)
  <2>1. MQ!PutSample(s) /\ ~ Delivered(s) /\ Delivered(s)' /\ s \in Item
    BY <1>1, <1>6 DEF TaskPuts, Delivered, Item
  <2>2. ~ Has(queue, s) /\ ~ Has(batch, s) /\ s \notin trained
    BY <2>1 DEF OnceInv, Arrived
  <2>3. /\ NoRepeats(queue')
        /\ \A x : Has(queue', x) => Has(queue, x) \/ x = s
    BY <2>1, <2>2, PutOnce DEF IInv, TypeOK, OnceInv, Arrived
  <2>4. Arrived'
    BY <1>1, <1>5, <2>1, <2>2, <2>3 DEF OnceInv, Arrived
  <2> QED BY <1>4, <2>4 DEF OnceInv
<1>7. CASE TaskDone(s) \/ TaskRaises(s)
  <2>1. queue' = queue
    BY <1>7 DEF TaskDone, TaskRaises, mq
  <2> QED BY <1>1, <1>4, <1>5, <2>1, ArrivedKept DEF OnceInv
<1> QED BY <1>6, <1>7 DEF Task

(* What is submitted, or forgotten, leaves the processor's hands. *)
LEMMA HandsOnce ==
  ASSUME IInv, OnceInv,
         UNCHANGED <<feeder, global_steps, pending_queue, queue, batch, trained>>,
         held' \notin Sample \/ held' = held,
         \/ task' = task
         \/ held \in Sample /\ held' \notin Sample /\ task' = [task EXCEPT ![held] = "generating"]
  PROVE  OnceInv'
<1>1. task \in [Sample -> {"none", "generating", "replying", "done", "raised"}]
  BY DEF IInv, TypeOK, ProcessorTypeOK
<1>2. \A s \in Sample : Delivered(s) => Delivered(s)'
  BY <1>1 DEF OnceInv, Waiting, Delivered
<1>3. Arrived'
  BY <1>2, ArrivedKept DEF OnceInv
<1>4. \A s \in Sample : task[s] = "none" /\ held # s => task'[s] = "none" /\ held' # s
  BY <1>1
<1>5. Unfed'
  BY <1>4, UnfedKept DEF OnceInv
<1>6. Waiting'
  BY <1>1, <1>4 DEF OnceInv, Waiting, NoRepeats, Has
<1> QED BY <1>3, <1>5, <1>6 DEF OnceInv

(* pending_queue hands over its oldest sample, to be held or submitted. *)
LEMMA PullOnce ==
  ASSUME IInv, OnceInv, ProcessorPulls
  PROVE  OnceInv'
<1> DEFINE s == Head(pending_queue)
<1>1. /\ UNCHANGED <<feeder, global_steps, queue, batch, trained>>
      /\ pending_queue \in Seq(Item) /\ pending_queue # <<>>
      /\ pending_queue' = Tail(pending_queue)
      /\ s \in Item /\ held = NoItem /\ held \notin Sample
      /\ task \in [Sample -> {"none", "generating", "replying", "done", "raised"}]
  BY DEF ProcessorPulls, feed, mq, train, IInv, TypeOK, FeedTypeOK, ProcessorTypeOK, HeldInv,
     NoItem, Sample
<1>2. \/ held' = s /\ task' = task
      \/ /\ s \in Sample /\ held' = NoItem
         /\ task' = [task EXCEPT ![s] = "generating"]
  BY <1>1 DEF ProcessorPulls, Submit, Item
<1>3. /\ NoRepeats(pending_queue') /\ Has(pending_queue, s)
      /\ \A x : Has(pending_queue', x) => Has(pending_queue, x)
      /\ s \in Sample => ~ Has(pending_queue', s)
  BY <1>1, TailOnce DEF OnceInv, Waiting
<1>4. s \in Sample => task[s] = "none"
  BY <1>3 DEF OnceInv, Waiting
<1> HIDE DEF s
<1>5. \A x \in Sample : x # s => task'[x] = task[x]
  BY <1>1, <1>2
<1>6. \A x \in Sample : Delivered(x) => Delivered(x)'
  BY <1>1, <1>2, <1>4 DEF Delivered
<1>7. Arrived'
  BY <1>1, <1>6, ArrivedKept DEF OnceInv
<1>8. NoItem \notin Sample
  BY DEF NoItem, Sample
<1>9. Waiting'
  BY <1>1, <1>2, <1>3, <1>4, <1>5, <1>8 DEF OnceInv, Waiting
<1>10. Unfed'
  <2> SUFFICES ASSUME NEW x \in Sample, task[x] = "none", held # x, ~ Has(pending_queue, x)
               PROVE  task'[x] = "none" /\ held' # x /\ ~ Has(pending_queue', x)
    BY <1>1, UnfedKept DEF OnceInv
  <2>1. x # s
    BY <1>3
  <2> QED BY <1>2, <1>3, <1>5, <1>8, <2>1
<1> QED BY <1>7, <1>9, <1>10 DEF OnceInv

(* The rest of the processor submits what it holds, or moves nothing. *)
LEMMA ProcessorOnce ==
  ASSUME IInv, OnceInv, Processor
  PROVE  OnceInv'
<1>1. CASE ProcessorPulls
  BY <1>1, PullOnce
<1>2. CASE ProcessorPassesLimit \/ ProcessorSubmits \/ ProcessorEnds
  <2>1. UNCHANGED <<feeder, global_steps, pending_queue, queue, batch, trained>>
    BY <1>2 DEF ProcessorPassesLimit, ProcessorSubmits, ProcessorEnds, feed, mq, train
  <2>2. NoItem \notin Sample
    BY DEF NoItem, Sample
  <2>3. held' \notin Sample \/ held' = held
    BY <1>2, <2>2 DEF ProcessorPassesLimit, ProcessorSubmits, ProcessorEnds, Submit
  <2>4. \/ task' = task
        \/ /\ held \in Sample /\ held' \notin Sample
           /\ task' = [task EXCEPT ![held] = "generating"]
    BY <1>2, <2>2 DEF ProcessorPassesLimit, ProcessorSubmits, ProcessorEnds, Submit, tasks, IInv,
       HeldInv
  <2> QED BY <2>1, <2>3, <2>4, HandsOnce
<1>3. CASE \/ ProcessorAsks \/ ProcessorDecides \/ ProcessorPauses \/ ProcessorReaps
           \/ ProcessorReapsLate \/ ProcessorResumes
  <2>1. UNCHANGED <<feeder, global_steps, pending_queue, held, task, queue, batch, trained>>
    BY <1>3 DEF ProcessorAsks, ProcessorDecides, ProcessorPauses, ProcessorReaps,
       ProcessorReapsLate, ProcessorResumes, feed, tasks, mq, train
  <2> QED BY <2>1, QuietOnce
<1> QED BY <1>1, <1>2, <1>3 DEF Processor

(* The end marker may drop a queued sample and what the processor holds. *)
LEMMA StreamingOnce ==
  ASSUME IInv, OnceInv, Streaming
  PROVE  OnceInv'
<1>1. CASE StreamingPutsEnd
  <2>1. /\ UNCHANGED <<pending_queue, task, batch, trained>>
        /\ feeder' # "feeding" /\ held' = NoItem /\ MQ!PutSample(None)
    BY <1>1 DEF StreamingPutsEnd, tasks, train
  <2>2. None \in Item /\ None \notin Sample /\ NoItem \notin Sample
    BY DEF None, NoItem, Item, Sample
  <2>3. /\ NoRepeats(queue')
        /\ \A x : Has(queue', x) => Has(queue, x) \/ x = None
    BY <2>1, <2>2, PutOnce DEF IInv, TypeOK, OnceInv, Arrived
  <2>4. Arrived'
    BY <2>1, <2>2, <2>3 DEF OnceInv, Arrived, Delivered
  <2>5. Waiting'
    BY <2>1, <2>2 DEF OnceInv, Waiting
  <2>6. Unfed'
    BY <2>1 DEF Unfed
  <2> QED BY <2>4, <2>5, <2>6 DEF OnceInv
<1>2. CASE StreamingStops
  <2>1. UNCHANGED <<feeder, global_steps, pending_queue, held, task, queue, batch, trained>>
    BY <1>2 DEF StreamingStops, feed, tasks, mq, train
  <2> QED BY <2>1, QuietOnce
<1> QED BY <1>1, <1>2 DEF Streaming

(* The trainer moves samples from the queue to the batch to the model, or    *)
(* gives its batch up, and the main clears the queue.                        *)
LEMMA TrainerOnce ==
  ASSUME IInv, OnceInv, Training \/ MainClears
  PROVE  OnceInv'
<1>1. UNCHANGED <<feeder, global_steps, pending_queue, held, task>>
  BY DEF Training, TrainerGets, TrainerWaits, TrainerUpdates, TrainerFinishes, TrainerSyncs,
     ResetBegins, ResetEnds, MainClears, feed, tasks
<1>2. Unfed' /\ Waiting'
  BY <1>1, UnfedKept, WaitingKept DEF OnceInv
<1>3. \A x \in Sample : Delivered(x) => Delivered(x)'
  BY <1>1 DEF Delivered
<1>4. queue \in Seq(Item) /\ batch \in Seq(Sample)
  BY DEF IInv, TypeOK, TrainTypeOK, MQ!MQTypeOK
<1>5. CASE TrainerGets
  <2> DEFINE s == Head(queue)
  <2>1. /\ queue # <<>> /\ queue' = Tail(queue) /\ trained' = trained
        /\ s \in Item
        /\ \/ batch' = <<>>
           \/ s # None /\ batch' = Append(batch, s)
    BY <1>4, <1>5 DEF TrainerGets, MQ!GetSample
  <2>2. /\ NoRepeats(queue') /\ Has(queue, s)
        /\ \A x : Has(queue', x) => Has(queue, x)
        /\ s \in Sample => ~ Has(queue', s)
    BY <1>4, <2>1, TailOnce DEF OnceInv, Arrived
  <2> HIDE DEF s
  <2>3. CASE batch' = <<>>
    BY <1>2, <1>3, <2>1, <2>2, <2>3, EmptyOnce DEF OnceInv, Arrived
  <2>4. CASE s # None /\ batch' = Append(batch, s)
    <3>1. s \in Sample
      BY <2>1, <2>4 DEF Item
    <3>2. Delivered(s) /\ ~ Has(batch, s) /\ s \notin trained
      BY <2>2, <3>1 DEF OnceInv, Arrived
    <3>3. /\ NoRepeats(batch')
          /\ \A x : Has(batch', x) <=> Has(batch, x) \/ x = s
      BY <1>4, <2>4, <3>1, <3>2, AppendOnce DEF OnceInv, Arrived
    <3>4. Arrived'
      BY <1>3, <2>1, <2>2, <3>1, <3>2, <3>3 DEF OnceInv, Arrived
    <3> QED BY <1>2, <3>4 DEF OnceInv
  <2> QED BY <2>1, <2>3, <2>4
<1>6. CASE TrainerUpdates
  <2>1. queue' = queue /\ trained' = trained \cup ToSet(batch) /\ batch' = <<>>
    BY <1>6 DEF TrainerUpdates, mq
  <2>2. \A x : x \in ToSet(batch) <=> Has(batch, x)
    BY DEF ToSet, Has
  <2>3. Arrived'
    BY <1>3, <2>1, <2>2, EmptyOnce DEF OnceInv, Arrived
  <2> QED BY <1>2, <2>3 DEF OnceInv
<1>7. CASE MainClears
  <2>1. queue' = <<>> /\ UNCHANGED <<batch, trained>>
    BY <1>7 DEF MainClears, MQ!ClearQueue
  <2>2. Arrived'
    BY <1>3, <2>1, EmptyOnce DEF OnceInv, Arrived
  <2> QED BY <1>2, <2>2 DEF OnceInv
<1>8. CASE TrainerWaits \/ TrainerFinishes \/ TrainerSyncs \/ ResetBegins \/ ResetEnds
  <2>1. UNCHANGED <<queue, batch, trained>>
    BY <1>8 DEF TrainerWaits, TrainerFinishes, TrainerSyncs, ResetBegins, ResetEnds, mq, train,
       MQ!GetWaits
  <2> QED BY <1>1, <2>1, QuietOnce
<1> QED BY <1>5, <1>6, <1>7, <1>8 DEF Training

LEMMA OnceStep ==
  ASSUME IInv, OnceInv, [Next]_vars
  PROVE  OnceInv'
<1>1. CASE Monitor \/ Terminated \/ UNCHANGED vars
  <2>1. UNCHANGED <<feeder, global_steps, pending_queue, held, task, queue, batch, trained>>
    BY <1>1 DEF Monitor, MonitorAsks, MonitorDecides, MonitorResumes, MonitorStops, Terminated,
       vars, feed, tasks, mq, train
  <2> QED BY <2>1, QuietOnce
<1>2. CASE \E s \in Sample : Task(s)
  BY <1>2, TaskOnce
<1> QED BY <1>1, <1>2, FeedOnce, ProcessorOnce, StreamingOnce, TrainerOnce DEF Next

LEMMA InitOnce == Init => OnceInv
<1> SUFFICES ASSUME Init PROVE OnceInv
  OBVIOUS
<1>1. /\ pending_queue = <<>> /\ queue = <<>> /\ batch = <<>> /\ trained = {}
      /\ held = NoItem /\ NoItem \notin Sample
      /\ task = [s \in Sample |-> "none"]
  BY DEF Init, MQ!MQInit, NoItem, Sample
<1> QED BY <1>1, EmptyOnce DEF OnceInv, Unfed, Waiting, Arrived

(* A sample's task tells which one of its places it can be in. *)
LEMMA OnePlace ==
  ASSUME IInv, OnceInv
  PROVE  NeverTwice
<1> SUFFICES ASSUME NEW s \in Sample PROVE Copies(s) <= 1
  BY DEF NeverTwice
<1> DEFINE p == Count(pending_queue, s)
           q == Count(queue, s)
           b == Count(batch, s)
           k == Cardinality({s} \cap ({held} \cup trained))
           f == Cardinality({s} \cap InFlight)
<1>1. /\ pending_queue \in Seq(Item) /\ queue \in Seq(Item) /\ batch \in Seq(Sample)
      /\ task \in [Sample -> {"none", "generating", "replying", "done", "raised"}]
  BY DEF IInv, TypeOK, FeedTypeOK, ProcessorTypeOK, TrainTypeOK, MQ!MQTypeOK
<1>2. /\ p \in {0, 1} /\ (~ Has(pending_queue, s) => p = 0)
      /\ q \in {0, 1} /\ (~ Has(queue, s) => q = 0)
      /\ b \in {0, 1} /\ (~ Has(batch, s) => b = 0)
  BY <1>1, CountOnce DEF OnceInv, Waiting, Arrived
<1>3. \A S : /\ Cardinality({s} \cap S) \in {0, 1}
             /\ s \notin S => Cardinality({s} \cap S) = 0
  <2> TAKE S
  <2>1. CASE s \in S
    <3>1. {s} \cap S = {s}
      BY <2>1
    <3> QED BY <2>1, <3>1, FS_Singleton
  <2>2. CASE s \notin S
    <3>1. {s} \cap S = {}
      BY <2>2
    <3> QED BY <2>2, <3>1, FS_EmptySet
  <2> QED BY <2>1, <2>2
<1>4. /\ k \in {0, 1} /\ (held # s /\ s \notin trained => k = 0)
      /\ f \in {0, 1} /\ (s \notin InFlight => f = 0)
  BY <1>3
<1>5. Copies(s) = p + q + b + k + f
  BY DEF Copies
<1> HIDE DEF p, q, b, k, f
<1>6. task[s] = "none" => s \notin InFlight /\ ~ Delivered(s)
  BY DEF InFlight, Delivered
<1>7. task[s] = "generating" => ~ Delivered(s)
  BY DEF Delivered
<1>8. Delivered(s) => task[s] # "none" /\ s \notin InFlight
  BY DEF Delivered, InFlight
<1>9. /\ Has(pending_queue, s) => task[s] = "none" /\ held # s
      /\ held = s => task[s] = "none"
      /\ Has(queue, s) => Delivered(s) /\ ~ Has(batch, s) /\ s \notin trained
      /\ Has(batch, s) => Delivered(s) /\ s \notin trained
      /\ s \in trained => Delivered(s)
      /\ s \in InFlight => task[s] = "generating"
  BY DEF OnceInv, Waiting, Arrived, InFlight
<1>10. \/ p = 0 /\ q = 0 /\ b = 0 /\ k = 0
       \/ p = 0 /\ q = 0 /\ b = 0 /\ f = 0
       \/ p = 0 /\ q = 0 /\ k = 0 /\ f = 0
       \/ p = 0 /\ b = 0 /\ k = 0 /\ f = 0
       \/ q = 0 /\ b = 0 /\ k = 0 /\ f = 0
  <2>1. CASE Has(pending_queue, s)
    BY <1>2, <1>4, <1>6, <1>9, <2>1
  <2>2. CASE Has(queue, s)
    BY <1>2, <1>4, <1>8, <1>9, <2>2
  <2>3. CASE Has(batch, s)
    BY <1>2, <1>4, <1>8, <1>9, <2>3
  <2>4. CASE s \in InFlight
    BY <1>2, <1>4, <1>7, <1>9, <2>4
  <2>5. CASE ~ Has(pending_queue, s) /\ ~ Has(queue, s) /\ ~ Has(batch, s) /\ s \notin InFlight
    BY <1>2, <1>4, <2>5
  <2> QED BY <2>1, <2>2, <2>3, <2>4, <2>5
<1> QED BY <1>2, <1>4, <1>5, <1>10

(* No sample is in two places at once, so none is trained on twice, whatever *)
(* the interleaving of the lock, the drops and the partial batches (lines    *)
(* 887-921 of the rollouter, 290-312 of the trainer).                        *)
THEOREM SamplesOnce == Spec => []NeverTwice
<1>1. Spec => []OnceInv
  <2>1. []IInv /\ OnceInv /\ [][Next]_vars => []OnceInv
    <3>1. IInv /\ OnceInv /\ [Next]_vars => OnceInv'
      BY OnceStep
    <3> QED BY <3>1, PTL
  <2> QED BY <2>1, InitOnce, Invariance, PTL DEF Spec
<1>2. IInv /\ OnceInv => NeverTwice
  BY OnePlace
<1> QED BY <1>1, <1>2, Invariance, PTL

-----------------------------------------------------------------------------
(* Samples put and found neither in the queue, nor in the batch, nor among   *)
(* those trained on; what the trainer may have given up.                     *)
Lost == {s \in Sample : /\ Delivered(s) /\ ~ Has(queue, s) /\ ~ Has(batch, s)
                        /\ s \notin trained}
GivenUp == IF stopping THEN RequiredSamples - 1 ELSE 0

(* The trainer stops once: it collects no more batch that it could give up.  *)
StoppedInv == stopping => trainer \notin {"collect", "train"}

LossInv ==
  /\ StoppedInv
  /\ Cardinality(Lost) <= dropped_samples + cleared + GivenUp

(* The elements of a sequence of at most k entries are at most k.            *)
LEMMA EntriesBound ==
  ASSUME NEW S, NEW q \in Seq(S)
  PROVE  LET at == {x \in S : Has(q, x)}
         IN  IsFiniteSet(at) /\ Cardinality(at) \in Nat /\ Cardinality(at) <= Len(q)
<1> DEFINE at == {x \in S : Has(q, x)}
           f == [i \in 1 .. Len(q) |-> q[i]]
<1>1. /\ Len(q) \in Nat /\ IsFiniteSet(1 .. Len(q))
      /\ Cardinality(1 .. Len(q)) = Len(q)
  <2>1. Len(q) \in Nat
    OBVIOUS
  <2> QED BY <2>1, FS_Interval
<1>2. f \in Surjection(1 .. Len(q), at)
  BY DEF Surjection, Has
<1> HIDE DEF f, at
<1>3. IsFiniteSet(at) /\ Cardinality(at) <= Len(q)
  BY <1>1, <1>2, FS_Surjection
<1>4. Cardinality(at) \in Nat
  BY <1>3, FS_CardinalityType
<1> QED BY <1>3, <1>4 DEF at

(* When at most the samples of S are newly lost, at most |S| more are lost.  *)
LEMMA MoreLost ==
  ASSUME NEW S \in SUBSET Sample, Lost' \subseteq Lost \cup S
  PROVE  /\ Cardinality(Lost) \in Nat /\ Cardinality(Lost') \in Nat
         /\ Cardinality(Lost') <= Cardinality(Lost) + Cardinality(S)
<1>1. Lost \in SUBSET Sample /\ Lost' \in SUBSET Sample
  BY DEF Lost
<1> HIDE DEF Lost
<1>2. /\ IsFiniteSet(Lost) /\ Cardinality(Lost) \in Nat
      /\ IsFiniteSet(S) /\ Cardinality(S) \in Nat
  BY <1>1, SampleSets
<1>3. IsFiniteSet(Lost') /\ Cardinality(Lost') \in Nat
  BY <1>1, SampleSets
<1>4. /\ IsFiniteSet(Lost \cup S)
      /\ Cardinality(Lost \cup S) = Cardinality(Lost) + Cardinality(S)
                                      - Cardinality(Lost \cap S)
  BY <1>2, FS_Union
<1>5. Cardinality(Lost \cap S) \in Nat
  BY <1>1, SampleSets
<1>6. Cardinality(Lost') <= Cardinality(Lost \cup S)
  BY <1>4, FS_Subset
<1> QED BY <1>2, <1>3, <1>4, <1>5, <1>6

(* What the head and the tail of a queue hold between them.                  *)
LEMMA HeadOrTail ==
  ASSUME NEW S, NEW q \in Seq(S), q # <<>>
  PROVE  /\ Head(q) \in S /\ Has(q, Head(q))
         /\ \A x : Has(q, x) => x = Head(q) \/ Has(Tail(q), x)
<1> DEFINE t == Tail(q)
<1>1. /\ Len(t) = Len(q) - 1 /\ Len(q) \in Nat /\ Len(q) >= 1
      /\ \A i \in 1 .. Len(t) : t[i] = q[i + 1]
      /\ Head(q) = q[1] /\ 1 \in 1 .. Len(q) /\ Head(q) \in S
  OBVIOUS
<1>2. \A i \in 1 .. Len(q) : i = 1 \/ (i - 1 \in 1 .. Len(t) /\ q[i] = t[i - 1])
  BY <1>1
<1> HIDE DEF t
<1>3. \A x : Has(q, x) => x = Head(q) \/ Has(t, x)
  BY <1>1, <1>2 DEF Has
<1> QED BY <1>1, <1>3 DEF Has, t

(* The tail of a queue holds nothing else.                                   *)
LEMMA TailHas ==
  ASSUME NEW S, NEW q \in Seq(S), q # <<>>
  PROVE  \A x : Has(Tail(q), x) => Has(q, x)
<1> DEFINE t == Tail(q)
<1>1. \A i \in 1 .. Len(t) : t[i] = q[i + 1] /\ i + 1 \in 1 .. Len(q)
  OBVIOUS
<1> HIDE DEF t
<1>2. \A x : Has(t, x) => Has(q, x)
  BY <1>1 DEF Has
<1> QED BY <1>2 DEF t

(* What an entry more at the end adds.                                       *)
LEMMA AppendHas ==
  ASSUME NEW S, NEW q \in Seq(S), NEW x \in S
  PROVE  \A s : Has(Append(q, x), s) <=> Has(q, s) \/ s = x
<1> DEFINE t == Append(q, x)
<1>1. /\ Len(t) = Len(q) + 1 /\ Len(q) \in Nat
      /\ \A i \in 1 .. Len(q) : t[i] = q[i]
      /\ t[Len(q) + 1] = x
  OBVIOUS
<1>2. \A i \in 1 .. Len(t) : i \in 1 .. Len(q) \/ i = Len(q) + 1
  BY <1>1
<1>3. 1 .. Len(q) \subseteq 1 .. Len(t) /\ Len(q) + 1 \in 1 .. Len(t)
  BY <1>1
<1> HIDE DEF t
<1> QED BY <1>1, <1>2, <1>3 DEF Has, t

(* A count of zero is an absence.                                            *)
LEMMA CountZero ==
  ASSUME NEW S, NEW q \in Seq(S), NEW s
  PROVE  Count(q, s) \in Nat /\ (Count(q, s) = 0 => ~ Has(q, s))
<1> DEFINE at == {i \in 1 .. Len(q) : q[i] = s}
<1>1. IsFiniteSet(1 .. Len(q)) /\ at \subseteq 1 .. Len(q)
  BY FS_Interval
<1>2. IsFiniteSet(at) /\ Cardinality(at) \in Nat
  BY <1>1, FS_Subset, FS_CardinalityType
<1>3. Cardinality(at) = 0 => at = {}
  BY <1>2, FS_EmptySet
<1>4. Has(q, s) => at # {}
  BY DEF Has
<1> QED BY <1>2, <1>3, <1>4 DEF Count

(* Steps by which nothing more is lost.                                      *)
LEMMA NoneLost ==
  ASSUME IInv, LossInv, UNCHANGED <<dropped_samples, cleared, stopping>>, StoppedInv',
         Lost' \subseteq Lost
  PROVE  LossInv'
<1>1. /\ Cardinality(Lost) \in Nat /\ Cardinality(Lost') \in Nat
      /\ Cardinality(Lost') <= Cardinality(Lost) + Cardinality({})
  BY MoreLost
<1>2. Cardinality({}) = 0 /\ GivenUp' = GivenUp /\ GivenUp \in Int
  BY FullyAsyncAssumption, FS_EmptySet DEF GivenUp
<1>3. dropped_samples \in Nat /\ cleared \in Nat
  BY DEF IInv, TypeOK, MQ!MQTypeOK
<1> HIDE DEF Lost, GivenUp
<1> QED BY <1>1, <1>2, <1>3 DEF LossInv

(* A put loses at most the entry that a full queue drops, and counts it.     *)
LEMMA PutLoses ==
  ASSUME IInv, LossInv, NEW s \in Item, MQ!PutSample(s),
         UNCHANGED <<batch, trained, stopping>>, StoppedInv',
         \A x \in Sample : Delivered(x)' => Delivered(x) \/ x = s
  PROVE  LossInv'
<1> DEFINE kept == IF MQ!Full THEN Tail(queue) ELSE queue
           gone == IF MQ!Full THEN {Head(queue)} \cap Sample ELSE {}
           n == IF MQ!Full THEN 1 ELSE 0
<1>1. /\ queue \in Seq(Item) /\ (MQ!Full => queue # <<>>)
      /\ queue' = Append(kept, s)
      /\ dropped_samples' = dropped_samples + n /\ cleared' = cleared
      /\ dropped_samples \in Nat /\ cleared \in Nat
  BY MaxRequiredType DEF IInv, TypeOK, MQ!MQTypeOK, MQ!PutSample, MQ!Full
<1>2. /\ kept \in Seq(Item)
      /\ \A x \in Sample : Has(queue, x) => Has(kept, x) \/ x \in gone
  <2>1. CASE MQ!Full
    <3>1. \A x : Has(queue, x) => x = Head(queue) \/ Has(Tail(queue), x)
      BY <1>1, <2>1, HeadOrTail
    <3> QED BY <1>1, <2>1, <3>1
  <2>2. CASE ~ MQ!Full
    BY <1>1, <2>2
  <2> QED BY <2>1, <2>2
<1>3. gone \in SUBSET Sample /\ Cardinality(gone) <= n /\ n \in Nat
  <2>1. /\ gone = {} \/ (n = 1 /\ gone = {Head(queue)})
        /\ gone \in SUBSET Sample /\ n \in {0, 1}
    OBVIOUS
  <2>2. Cardinality({}) = 0 /\ Cardinality({Head(queue)}) = 1
    BY FS_EmptySet, FS_Singleton
  <2> HIDE DEF gone, n
  <2>3. CASE gone = {}
    BY <2>1, <2>2, <2>3
  <2>4. CASE n = 1 /\ gone = {Head(queue)}
    BY <2>1, <2>2, <2>4
  <2> QED BY <2>1, <2>3, <2>4
<1> HIDE DEF kept, gone, n
<1>4. \A x \in Sample : Has(kept, x) \/ x = s => Has(queue', x)
  BY <1>1, <1>2, AppendHas
<1>5. Lost' \subseteq Lost \cup gone
  BY <1>2, <1>4 DEF Lost
<1>6. /\ Cardinality(Lost) \in Nat /\ Cardinality(Lost') \in Nat
      /\ Cardinality(Lost') <= Cardinality(Lost) + Cardinality(gone)
  BY <1>3, <1>5, MoreLost
<1>7. Cardinality(gone) \in Nat
  BY <1>3, SampleSets
<1>8. GivenUp' = GivenUp /\ GivenUp \in Int
  BY FullyAsyncAssumption DEF GivenUp
<1> HIDE DEF GivenUp, Lost
<1> QED BY <1>1, <1>3, <1>6, <1>7, <1>8 DEF LossInv

(* Steps that move no entry and stop nothing lose nothing.                   *)
LEMMA QuietLoss ==
  ASSUME LossInv, UNCHANGED <<queue, batch, trained, dropped_samples, cleared, stopping>>,
         StoppedInv', \A x \in Sample : Delivered(x)' <=> Delivered(x)
  PROVE  LossInv'
<1>1. Lost' = Lost /\ GivenUp' = GivenUp
  BY DEF Lost, Has, GivenUp
<1> HIDE DEF Lost, GivenUp
<1> QED BY <1>1 DEF LossInv

(* A generation loses nothing but by its put.                                *)
LEMMA TaskLoss ==
  ASSUME IInv, LossInv, NEW s \in Sample, Task(s)
  PROVE  LossInv'
<1>1. /\ task \in [Sample -> {"none", "generating", "replying", "done", "raised"}]
      /\ UNCHANGED <<batch, trained, stopping, trainer>> /\ s \in Item
  BY DEF IInv, TypeOK, ProcessorTypeOK, Task, TaskPuts, TaskDone, TaskRaises, train, Item
<1>2. StoppedInv'
  BY <1>1 DEF LossInv, StoppedInv
<1>3. CASE TaskPuts(s)
  <2>1. MQ!PutSample(s) /\ \A x \in Sample : Delivered(x)' => Delivered(x) \/ x = s
    BY <1>1, <1>3 DEF TaskPuts, Delivered
  <2> QED BY <1>1, <1>2, <2>1, PutLoses
<1>4. CASE TaskDone(s) \/ TaskRaises(s)
  <2>1. UNCHANGED <<queue, dropped_samples, cleared>>
    BY <1>4 DEF TaskDone, TaskRaises, mq
  <2>2. \A x \in Sample : Delivered(x)' <=> Delivered(x)
    BY <1>1, <1>4 DEF TaskDone, TaskRaises, Delivered
  <2> QED BY <1>1, <1>2, <2>1, <2>2, QuietLoss
<1> QED BY <1>3, <1>4 DEF Task

(* A sample is delivered by its task's put and stays so; the feeder, the      *)
(* processor, the monitor and the streaming main deliver none.               *)
LEMMA RolloutDelivers ==
  ASSUME IInv, OnceInv, Feeder \/ Processor \/ Streaming \/ Monitor
  PROVE  \A x \in Sample : Delivered(x)' <=> Delivered(x)
<1>1. /\ task \in [Sample -> {"none", "generating", "replying", "done", "raised"}]
      /\ held \in Sample => task[held] = "none"
      /\ pending_queue \in Seq(Item)
      /\ \A x \in Sample : Has(pending_queue, x) => task[x] = "none"
  BY DEF IInv, TypeOK, ProcessorTypeOK, FeedTypeOK, OnceInv, Waiting
<1>2. \/ task' = task
      \/ (held \in Sample /\ task' = [task EXCEPT ![held] = "generating"])
      \/ \E x \in Sample : task[x] = "none" /\ task' = [task EXCEPT ![x] = "generating"]
  <2>1. CASE ProcessorPulls
    <3> DEFINE s == Head(pending_queue)
    <3>1. pending_queue # <<>> /\ s \in Item /\ Has(pending_queue, s)
      BY <1>1, <2>1, HeadOrTail DEF ProcessorPulls
    <3>2. task' = task \/ (s # None /\ task' = [task EXCEPT ![s] = "generating"])
      BY <2>1 DEF ProcessorPulls, Submit
    <3> HIDE DEF s
    <3> QED BY <1>1, <3>1, <3>2 DEF Item
  <2>2. CASE ProcessorPassesLimit \/ ProcessorSubmits
    <3>1. held \in Sample
      BY <2>2 DEF IInv, HeldInv, ProcessorPassesLimit, ProcessorSubmits
    <3> QED BY <2>2, <3>1 DEF ProcessorPassesLimit, ProcessorSubmits, Submit
  <2>3. CASE \/ Feeder \/ Streaming \/ Monitor \/ ProcessorAsks \/ ProcessorDecides
             \/ ProcessorPauses \/ ProcessorReaps \/ ProcessorReapsLate
             \/ ProcessorResumes \/ ProcessorEnds
    BY <2>3 DEF Feeder, FeedSample, FeedEndSignal, ProcessorAsks, ProcessorDecides,
       ProcessorPauses, ProcessorReaps, ProcessorReapsLate, ProcessorResumes, ProcessorEnds,
       Streaming, StreamingPutsEnd, StreamingStops, Monitor, MonitorAsks, MonitorDecides,
       MonitorResumes, MonitorStops, tasks
  <2> QED BY <2>1, <2>2, <2>3 DEF Processor
<1> QED BY <1>1, <1>2 DEF Delivered

(* The feeder, the processor, the monitor and the streaming main put nothing *)
(* but the end marker.                                                       *)
LEMMA RolloutLoss ==
  ASSUME IInv, OnceInv, LossInv, Feeder \/ Processor \/ Streaming \/ Monitor
  PROVE  LossInv'
<1>1. UNCHANGED <<batch, trained, stopping, trainer>>
  BY DEF Feeder, FeedSample, FeedEndSignal, Processor, ProcessorAsks, ProcessorDecides,
     ProcessorPauses, ProcessorReaps, ProcessorReapsLate, ProcessorResumes, ProcessorPulls,
     ProcessorPassesLimit, ProcessorSubmits, ProcessorEnds, Streaming, StreamingPutsEnd,
     StreamingStops, Monitor, MonitorAsks, MonitorDecides, MonitorResumes, MonitorStops, train
<1>2. StoppedInv'
  BY <1>1 DEF LossInv, StoppedInv
<1>3. \A x \in Sample : Delivered(x)' <=> Delivered(x)
  BY RolloutDelivers
<1>4. CASE StreamingPutsEnd
  <2>1. None \in Item /\ MQ!PutSample(None)
    BY <1>4 DEF StreamingPutsEnd, Item
  <2> QED BY <1>1, <1>2, <1>3, <2>1, PutLoses
<1>5. CASE Feeder \/ Processor \/ Monitor \/ StreamingStops
  <2>1. UNCHANGED <<queue, dropped_samples, cleared>>
    BY <1>5 DEF Feeder, FeedSample, FeedEndSignal, Processor, ProcessorAsks, ProcessorDecides,
       ProcessorPauses, ProcessorReaps, ProcessorReapsLate, ProcessorResumes, ProcessorPulls,
       ProcessorPassesLimit, ProcessorSubmits, ProcessorEnds, StreamingStops, Monitor,
       MonitorAsks, MonitorDecides, MonitorResumes, MonitorStops, mq
  <2> QED BY <1>1, <1>2, <1>3, <2>1, QuietLoss
<1> QED BY <1>4, <1>5 DEF Streaming

(* The trainer gives up one partial batch, when it gets the end marker; the  *)
(* main clears what is left in the queue, and counts it.                     *)
LEMMA TrainerLoss ==
  ASSUME IInv, LossInv, Training \/ MainClears
  PROVE  LossInv'
<1>1. /\ queue \in Seq(Item) /\ batch \in Seq(Sample) /\ dropped_samples \in Nat
      /\ cleared \in Nat /\ Len(batch) \in Nat /\ Len(queue) \in Nat
      /\ RequiredSamples \in Nat \ {0}
  BY FullyAsyncAssumption DEF IInv, TypeOK, TrainTypeOK, MQ!MQTypeOK
<1>2. \A x \in Sample : Delivered(x)' <=> Delivered(x)
  BY DEF Training, TrainerGets, TrainerWaits, TrainerUpdates, TrainerFinishes, TrainerSyncs,
     ResetBegins, ResetEnds, MainClears, tasks, Delivered
<1>3. CASE TrainerGets
  <2> DEFINE s == Head(queue)
             gone == {x \in Sample : Has(batch, x)}
  <2>1. /\ queue # <<>> /\ queue' = Tail(queue) /\ trained' = trained /\ ~ stopping
        /\ dropped_samples' = dropped_samples /\ cleared' = cleared
        /\ \A x : Has(queue, x) => x = s \/ Has(queue', x)
    BY <1>1, <1>3, HeadOrTail DEF TrainerGets, MQ!GetSample, MQ!counters, LossInv, StoppedInv
  <2>2. CASE s = None
    <3>1. /\ batch' = <<>> /\ stopping' /\ trainer' = "final"
          /\ Len(batch) <= RequiredSamples - 1
      BY <1>1, <1>3, <2>2 DEF TrainerGets, IInv, TrainerInv
    <3>2. gone \in SUBSET Sample /\ Cardinality(gone) \in Nat /\ Cardinality(gone) <= Len(batch)
      BY <1>1, EntriesBound
    <3>3. None \notin Sample
      BY DEF None, Sample
    <3>4. Lost' \subseteq Lost \cup gone
      BY <1>2, <2>1, <2>2, <3>3 DEF Lost
    <3> HIDE DEF gone
    <3>5. /\ Cardinality(Lost) \in Nat /\ Cardinality(Lost') \in Nat
          /\ Cardinality(Lost') <= Cardinality(Lost) + Cardinality(gone)
      BY <3>2, <3>4, MoreLost
    <3>6. GivenUp = 0 /\ GivenUp' = RequiredSamples - 1
      BY <2>1, <3>1 DEF GivenUp
    <3>7. StoppedInv'
      BY <3>1 DEF StoppedInv
    <3> HIDE DEF Lost, GivenUp
    <3> QED BY <1>1, <2>1, <3>1, <3>2, <3>5, <3>6, <3>7 DEF LossInv
  <2>3. CASE s # None
    <3>1. batch' = Append(batch, s) /\ stopping' = stopping
      BY <1>3, <2>3 DEF TrainerGets
    <3>2. s \in Sample
      BY <1>1, <2>1, <2>3 DEF Item
    <3>3. \A x : Has(batch', x) <=> Has(batch, x) \/ x = s
      BY <1>1, <3>1, <3>2, AppendHas
    <3>4. Lost' \subseteq Lost
      BY <1>2, <2>1, <3>3 DEF Lost
    <3> QED BY <1>1, <2>1, <3>1, <3>4, NoneLost DEF StoppedInv
  <2> QED BY <2>2, <2>3
<1>4. CASE TrainerUpdates
  <2>1. /\ trained' = trained \cup ToSet(batch) /\ stopping' = stopping /\ ~ stopping
        /\ UNCHANGED <<queue, dropped_samples, cleared>>
    BY <1>4 DEF TrainerUpdates, mq, LossInv, StoppedInv
  <2>2. \A x : x \in ToSet(batch) <=> Has(batch, x)
    BY DEF ToSet, Has
  <2>3. Lost' \subseteq Lost
    BY <1>2, <2>1, <2>2 DEF Lost
  <2> QED BY <1>1, <2>1, <2>3, NoneLost DEF StoppedInv
<1>5. CASE MainClears
  <2> DEFINE gone == {x \in Sample : Has(queue, x)}
             all == {x \in Item : Has(queue, x)}
  <2>1. /\ queue' = <<>> /\ cleared' = cleared + Len(queue) /\ trainer' = "cleared"
        /\ UNCHANGED <<batch, trained, stopping, dropped_samples>>
    BY <1>5 DEF MainClears, MQ!ClearQueue
  <2>2. IsFiniteSet(all) /\ Cardinality(all) \in Nat /\ Cardinality(all) <= Len(queue)
    BY <1>1, EntriesBound
  <2>3. gone \subseteq all /\ gone \in SUBSET Sample
    BY DEF Item
  <2>4. Lost' \subseteq Lost \cup gone
    BY <1>2, <2>1 DEF Lost
  <2> HIDE DEF gone, all
  <2>5. Cardinality(gone) \in Nat /\ Cardinality(gone) <= Cardinality(all)
    BY <2>2, <2>3, FS_Subset, SampleSets
  <2>6. /\ Cardinality(Lost) \in Nat /\ Cardinality(Lost') \in Nat
        /\ Cardinality(Lost') <= Cardinality(Lost) + Cardinality(gone)
    BY <2>3, <2>4, MoreLost
  <2>7. GivenUp' = GivenUp /\ GivenUp \in Int
    BY <1>1, <2>1 DEF GivenUp
  <2>8. StoppedInv'
    BY <2>1 DEF StoppedInv
  <2> HIDE DEF Lost, GivenUp
  <2> QED BY <1>1, <2>1, <2>2, <2>5, <2>6, <2>7, <2>8 DEF LossInv
<1>6. CASE TrainerWaits \/ TrainerFinishes \/ TrainerSyncs \/ ResetBegins \/ ResetEnds
  <2>1. UNCHANGED <<queue, batch, trained, dropped_samples, cleared, stopping>>
    BY <1>6 DEF TrainerWaits, TrainerFinishes, TrainerSyncs, ResetBegins, ResetEnds, mq, train,
       MQ!GetWaits, MQ!counters
  <2>2. StoppedInv'
    BY <1>6 DEF TrainerWaits, TrainerFinishes, TrainerSyncs, ResetBegins, ResetReadsTasks,
       ResetEnds, train, LossInv, StoppedInv
  <2> QED BY <1>2, <2>1, <2>2, QuietLoss
<1> QED BY <1>3, <1>4, <1>5, <1>6 DEF Training

(* No step loses a sample that the counters do not account for.              *)
LEMMA LossStep ==
  ASSUME IInv, OnceInv, LossInv, [Next]_vars
  PROVE  LossInv'
<1>1. CASE Terminated \/ UNCHANGED vars
  <2>1. UNCHANGED <<task, queue, batch, trained, dropped_samples, cleared, stopping, trainer>>
    BY <1>1 DEF Terminated, vars, tasks, mq, train
  <2>2. StoppedInv' /\ \A x \in Sample : Delivered(x)' <=> Delivered(x)
    BY <2>1 DEF LossInv, StoppedInv, Delivered
  <2> QED BY <2>1, <2>2, QuietLoss
<1> QED BY <1>1, TaskLoss, RolloutLoss, TrainerLoss DEF Next

(* A run starts with nothing lost.                                           *)
LEMMA InitLoss == Init => LossInv
<1> SUFFICES ASSUME Init PROVE LossInv
  OBVIOUS
<1>1. /\ task = [s \in Sample |-> "none"] /\ ~ stopping
      /\ dropped_samples = 0 /\ cleared = 0
  BY DEF Init, MQ!MQInit
<1>2. Lost = {} /\ GivenUp = 0 /\ StoppedInv
  BY <1>1 DEF Lost, Delivered, GivenUp, StoppedInv
<1> QED BY <1>1, <1>2, FS_EmptySet DEF LossInv

(* What has vanished is lost.                                                *)
LEMMA VanishedLost ==
  ASSUME IInv
  PROVE  Vanished \subseteq Lost
<1> SUFFICES ASSUME NEW s \in Sample, Delivered(s), Copies(s) = 0
             PROVE  ~ Has(queue, s) /\ ~ Has(batch, s) /\ s \notin trained
  BY DEF Vanished, Lost, Delivered
<1> DEFINE p == Count(pending_queue, s)
           q == Count(queue, s)
           b == Count(batch, s)
           k == Cardinality({s} \cap ({held} \cup trained))
           f == Cardinality({s} \cap InFlight)
<1>1. /\ pending_queue \in Seq(Item) /\ queue \in Seq(Item) /\ batch \in Seq(Sample)
  BY DEF IInv, TypeOK, FeedTypeOK, TrainTypeOK, MQ!MQTypeOK
<1>2. /\ p \in Nat /\ q \in Nat /\ b \in Nat
      /\ q = 0 => ~ Has(queue, s)
      /\ b = 0 => ~ Has(batch, s)
  BY <1>1, CountZero
<1>3. k \in Nat /\ f \in Nat
  <2>1. {s} \cap ({held} \cup trained) \in SUBSET Sample /\ {s} \cap InFlight \in SUBSET Sample
    OBVIOUS
  <2> QED BY <2>1, SampleSets
<1>4. k = 0 => s \notin trained
  <2>1. CASE s \in trained
    <3>1. {s} \cap ({held} \cup trained) = {s}
      BY <2>1
    <3> QED BY <3>1, FS_Singleton
  <2> QED BY <2>1
<1>5. p + q + b + k + f = 0
  BY DEF Copies
<1> HIDE DEF p, q, b, k, f
<1>6. q = 0 /\ b = 0 /\ k = 0
  BY <1>2, <1>3, <1>5
<1> QED BY <1>2, <1>4, <1>6

(* A sample that was put and is nowhere any more was dropped by a full queue *)
(* and counted, was cleared at the very end, or was one of the fewer than    *)
(* required_samples of the one batch the trainer gives up (lines 290-312 of  *)
(* fully_async_trainer.py, 60-80 of message_queue.py).                       *)
THEOREM LossesCounted == Spec => []SamplesAccountedFor
<1>1. Spec => []OnceInv
  <2>1. []IInv /\ OnceInv /\ [][Next]_vars => []OnceInv
    <3>1. IInv /\ OnceInv /\ [Next]_vars => OnceInv'
      BY OnceStep
    <3> QED BY <3>1, PTL
  <2> QED BY <2>1, InitOnce, Invariance, PTL DEF Spec
<1>2. Spec => []LossInv
  <2>1. []IInv /\ []OnceInv /\ LossInv /\ [][Next]_vars => []LossInv
    <3>1. IInv /\ OnceInv /\ LossInv /\ [Next]_vars => LossInv'
      BY LossStep
    <3> QED BY <3>1, PTL
  <2> QED BY <1>1, <2>1, InitLoss, Invariance, PTL DEF Spec
<1>3. IInv /\ LossInv => SamplesAccountedFor
  <2> SUFFICES ASSUME IInv, LossInv PROVE SamplesAccountedFor
    OBVIOUS
  <2>1. Vanished \subseteq Lost /\ Lost \in SUBSET Sample /\ Vanished \in SUBSET Sample
    BY VanishedLost DEF Lost, Vanished
  <2>2. /\ Cardinality(Lost) \in Nat /\ Cardinality(Vanished) \in Nat
        /\ Cardinality(Vanished) <= Cardinality(Lost)
    BY <2>1, SampleSets, FS_Subset
  <2>3. GivenUp \in Int /\ dropped_samples \in Nat /\ cleared \in Nat
    BY FullyAsyncAssumption DEF GivenUp, IInv, TypeOK, MQ!MQTypeOK
  <2>4. Cardinality(Lost) <= dropped_samples + cleared + GivenUp
    BY DEF LossInv
  <2>5. SamplesAccountedFor <=> Cardinality(Vanished) <= dropped_samples + cleared + GivenUp
    BY DEF SamplesAccountedFor, GivenUp
  <2> HIDE DEF GivenUp, Lost, Vanished
  <2> QED BY <2>2, <2>3, <2>4, <2>5
<1> QED BY <1>2, <1>3, Invariance, PTL

-----------------------------------------------------------------------------
(* Bookkeeping of a whole run, whatever fails or is dropped: the statistics  *)
(* of the queue add up, every delivered sample and the one end marker were   *)
(* put, and what was consumed is what was trained on and the current batch,  *)
(* or, at the end, the marker and the batch given up.                        *)
PutCount ==
  total_produced = Cardinality({s \in Sample : Delivered(s)})
                     + (IF streaming = "running" THEN 0 ELSE 1)

Updates == current_param_version * TriggerSync + (local_trigger_step - 1)

RoundInv ==
  /\ Cardinality(trained) = Updates * RequiredSamples
  /\ ~ stopping => total_consumed = Cardinality(trained) + Len(batch)
  /\ stopping => /\ Cardinality(trained) < total_consumed
                 /\ total_consumed <= Cardinality(trained) + RequiredSamples

EndsStopping == trainer \in {"final", "done", "cleared"} => stopping

BooksInv == MQ!EntriesAccountedFor /\ PutCount /\ RoundInv /\ EndsStopping

(* A step that moves no entry, delivers nothing and ends nothing.            *)
QuietStep ==
  /\ UNCHANGED <<queue, total_produced, total_consumed, dropped_samples, cleared, batch, trained,
                 stopping, local_trigger_step, current_param_version>>
  /\ \A x \in Sample : Delivered(x)' <=> Delivered(x)
  /\ streaming' = "running" <=> streaming = "running"
  /\ EndsStopping => EndsStopping'

(* The few steps that are not quiet.                                         *)
LEMMA StepKinds ==
  ASSUME IInv, OnceInv, [Next]_vars
  PROVE  \/ QuietStep \/ TrainerGets \/ TrainerUpdates \/ MainClears \/ StreamingPutsEnd
         \/ \E s \in Sample : TaskPuts(s)
<1>1. /\ task \in [Sample -> {"none", "generating", "replying", "done", "raised"}]
      /\ streaming \in {"running", "stopping", "done"}
  BY DEF IInv, TypeOK, ProcessorTypeOK, ControlTypeOK
<1>2. ASSUME NEW s \in Sample, TaskDone(s) \/ TaskRaises(s)
      PROVE  QuietStep
  BY <1>1, <1>2 DEF TaskDone, TaskRaises, QuietStep, Delivered, mq, train, EndsStopping
<1>3. CASE Feeder \/ Processor \/ StreamingStops \/ Monitor
  <2>1. UNCHANGED <<queue, total_produced, total_consumed, dropped_samples, cleared, batch,
                    trained, stopping, local_trigger_step, current_param_version, trainer>>
    BY <1>3 DEF Feeder, FeedSample, FeedEndSignal, Processor, ProcessorAsks, ProcessorDecides,
       ProcessorPauses, ProcessorReaps, ProcessorReapsLate, ProcessorResumes, ProcessorPulls,
       ProcessorPassesLimit, ProcessorSubmits, ProcessorEnds, StreamingStops, Monitor,
       MonitorAsks, MonitorDecides, MonitorResumes, MonitorStops, mq, train
  <2>2. streaming' = "running" <=> streaming = "running"
    BY <1>3 DEF Feeder, FeedSample, FeedEndSignal, Processor, ProcessorAsks, ProcessorDecides,
       ProcessorPauses, ProcessorReaps, ProcessorReapsLate, ProcessorResumes, ProcessorPulls,
       ProcessorPassesLimit, ProcessorSubmits, ProcessorEnds, StreamingStops, Monitor,
       MonitorAsks, MonitorDecides, MonitorResumes, MonitorStops
  <2>3. \A x \in Sample : Delivered(x)' <=> Delivered(x)
    BY <1>3, RolloutDelivers DEF Streaming
  <2> QED BY <2>1, <2>2, <2>3 DEF QuietStep, EndsStopping
<1>4. CASE TrainerWaits \/ TrainerFinishes \/ TrainerSyncs \/ ResetBegins \/ ResetEnds
  <2>1. UNCHANGED <<queue, total_produced, total_consumed, dropped_samples, cleared, batch,
                    trained, stopping, local_trigger_step, current_param_version, task,
                    streaming>>
    BY <1>4 DEF TrainerWaits, TrainerFinishes, TrainerSyncs, ResetBegins, ResetEnds, mq, train,
       tasks, MQ!GetWaits, MQ!counters
  <2>2. EndsStopping => EndsStopping'
    BY <1>4 DEF TrainerWaits, TrainerFinishes, TrainerSyncs, ResetBegins, ResetReadsTasks,
       ResetEnds, train, EndsStopping
  <2> QED BY <2>1, <2>2 DEF QuietStep, Delivered
<1>5. CASE Terminated \/ UNCHANGED vars
  BY <1>5 DEF Terminated, vars, mq, train, tasks, QuietStep, Delivered, EndsStopping
<1> QED BY <1>2, <1>3, <1>4, <1>5 DEF Next, Training, Task, Streaming

(* The actor's statistics add up after each of its methods.                  *)
LEMMA EntriesStep ==
  ASSUME IInv, OnceInv, MQ!EntriesAccountedFor, [Next]_vars
  PROVE  MQ!EntriesAccountedFor'
<1> USE DEF MQ!EntriesAccountedFor
<1>1. /\ queue \in Seq(Item) /\ Len(queue) \in Nat /\ total_produced \in Nat
      /\ total_consumed \in Nat /\ dropped_samples \in Nat /\ cleared \in Nat
  BY DEF IInv, TypeOK, MQ!MQTypeOK
<1>2. ASSUME NEW s \in Item, MQ!PutSample(s)
      PROVE  MQ!EntriesAccountedFor'
  <2> DEFINE kept == IF MQ!Full THEN Tail(queue) ELSE queue
             n == IF MQ!Full THEN 1 ELSE 0
  <2>1. kept \in Seq(Item) /\ Len(kept) = Len(queue) - n /\ n \in Nat
    <3>1. MQ!Full => queue # <<>>
      BY <1>1, MaxRequiredType DEF MQ!Full
    <3> QED BY <1>1, <3>1
  <2>2. /\ queue' = Append(kept, s) /\ dropped_samples' = dropped_samples + n
        /\ total_produced' = total_produced + 1
        /\ total_consumed' = total_consumed /\ cleared' = cleared
    BY <1>1, <1>2 DEF MQ!PutSample
  <2> HIDE DEF kept, n
  <2>3. Len(queue') = Len(kept) + 1
    BY <2>1, <2>2
  <2> QED BY <1>1, <2>1, <2>2, <2>3
<1>3. CASE TrainerGets
  <2>1. /\ queue # <<>> /\ queue' = Tail(queue) /\ total_consumed' = total_consumed + 1
        /\ UNCHANGED <<total_produced, dropped_samples, cleared>>
    BY <1>3 DEF TrainerGets, MQ!GetSample
  <2>2. Len(queue') = Len(queue) - 1
    BY <1>1, <2>1
  <2> QED BY <1>1, <2>1, <2>2
<1>4. CASE MainClears
  <2>1. /\ queue' = <<>> /\ cleared' = cleared + Len(queue)
        /\ UNCHANGED <<total_produced, total_consumed, dropped_samples>>
    BY <1>4 DEF MainClears, MQ!ClearQueue
  <2>2. Len(queue') = 0
    BY <2>1
  <2> QED BY <1>1, <2>1, <2>2
<1>5. CASE QuietStep
  BY <1>5 DEF QuietStep
<1>6. CASE TrainerUpdates
  BY <1>6 DEF TrainerUpdates, mq
<1>7. CASE StreamingPutsEnd \/ \E s \in Sample : TaskPuts(s)
  BY <1>2, <1>7 DEF StreamingPutsEnd, TaskPuts, Item
<1> QED BY <1>3, <1>4, <1>5, <1>6, <1>7, StepKinds

(* One put for each delivered sample, and one for the end marker.            *)
LEMMA PutCountStep ==
  ASSUME IInv, OnceInv, PutCount, [Next]_vars
  PROVE  PutCount'
<1> DEFINE D == {s \in Sample : Delivered(s)}
<1>1. /\ D \in SUBSET Sample
      /\ task \in [Sample -> {"none", "generating", "replying", "done", "raised"}]
  BY DEF IInv, TypeOK, ProcessorTypeOK
<1>2. IsFiniteSet(D) /\ Cardinality(D) \in Nat
  BY <1>1, SampleSets
<1>3. ASSUME NEW s \in Sample, TaskPuts(s)
      PROVE  PutCount'
  <2>1. D' = D \cup {s} /\ s \notin D /\ streaming' = streaming
    BY <1>1, <1>3 DEF TaskPuts, Delivered
  <2>2. total_produced' = total_produced + 1
    BY <1>3 DEF TaskPuts, MQ!PutSample
  <2> HIDE DEF D
  <2>3. Cardinality(D') = Cardinality(D) + 1
    BY <1>2, <2>1, FS_AddElement
  <2> QED BY <1>2, <2>1, <2>2, <2>3 DEF PutCount, D
<1>4. CASE StreamingPutsEnd
  <2>1. /\ D' = D /\ streaming = "running" /\ streaming' = "stopping"
        /\ total_produced' = total_produced + 1
    BY <1>4 DEF StreamingPutsEnd, MQ!PutSample, Delivered, tasks
  <2> HIDE DEF D
  <2> QED BY <1>2, <2>1 DEF PutCount, D
<1>5. CASE TrainerGets \/ TrainerUpdates \/ MainClears
  <2>1. D' = D /\ streaming' = streaming /\ total_produced' = total_produced
    BY <1>5 DEF TrainerGets, TrainerUpdates, MainClears, MQ!GetSample, MQ!ClearQueue, Delivered,
       tasks, mq
  <2> HIDE DEF D
  <2> QED BY <2>1 DEF PutCount, D
<1>6. CASE QuietStep
  <2>1. /\ D' = D /\ total_produced' = total_produced
        /\ streaming' = "running" <=> streaming = "running"
    BY <1>6 DEF QuietStep
  <2> HIDE DEF D
  <2> QED BY <2>1 DEF PutCount, D
<1> QED BY <1>3, <1>4, <1>5, <1>6, StepKinds

(* A batch without repetition holds as many samples as it has entries.       *)
LEMMA BatchSize ==
  ASSUME NEW q \in Seq(Sample), NoRepeats(q)
  PROVE  IsFiniteSet(ToSet(q)) /\ Cardinality(ToSet(q)) = Len(q)
<1> DEFINE f == [i \in 1 .. Len(q) |-> q[i]]
<1>1. Len(q) \in Nat
  OBVIOUS
<1>2. IsFiniteSet(1 .. Len(q)) /\ Cardinality(1 .. Len(q)) = Len(q)
  BY <1>1, FS_Interval
<1>3. f \in Surjection(1 .. Len(q), ToSet(q)) /\ f \in Injection(1 .. Len(q), ToSet(q))
  <2>1. f \in [1 .. Len(q) -> ToSet(q)]
    BY DEF ToSet
  <2>2. \A i, j \in 1 .. Len(q) : f[i] = f[j] => i = j
    BY DEF NoRepeats
  <2>3. \A x \in ToSet(q) : \E i \in 1 .. Len(q) : f[i] = x
    BY DEF ToSet
  <2> HIDE DEF f
  <2>4. f \in Surjection(1 .. Len(q), ToSet(q))
    BY <2>1, <2>3 DEF Surjection
  <2> QED BY <2>1, <2>2, <2>4 DEF Injection, IsInjective
<1> HIDE DEF f
<1> QED BY <1>2, <1>3, FS_Surjection

(* Each update trains on required_samples new samples; the marker ends it.   *)
LEMMA RoundStep ==
  ASSUME IInv, OnceInv, StoppedInv, RoundInv, [Next]_vars
  PROVE  RoundInv'
<1> DEFINE n == Cardinality(trained)
<1>1. /\ trained \in SUBSET Sample /\ total_consumed \in Nat /\ Len(batch) \in Nat
      /\ batch \in Seq(Sample) /\ queue \in Seq(Item) /\ RequiredSamples \in Nat \ {0}
      /\ current_param_version \in Nat /\ local_trigger_step \in 1 .. TriggerSync
      /\ TriggerSync \in Nat \ {0}
  BY FullyAsyncAssumption DEF IInv, TypeOK, TrainTypeOK, MQ!MQTypeOK
<1>2. IsFiniteSet(trained) /\ n \in Nat /\ Updates \in Nat
  BY <1>1, SampleSets DEF Updates
<1>3. CASE TrainerGets
  <2>1. /\ trainer = "collect" /\ ~ stopping
        /\ total_consumed' = total_consumed + 1 /\ queue # <<>> /\ trained' = trained
        /\ Updates' = Updates
    BY <1>3 DEF TrainerGets, MQ!GetSample, StoppedInv, Updates
  <2>2. Len(batch) < RequiredSamples /\ total_consumed = n + Len(batch)
    BY <2>1 DEF IInv, TrainerInv, RoundInv
  <2>3. CASE Head(queue) = None
    <3>1. stopping'
      BY <1>3, <2>3 DEF TrainerGets
    <3> HIDE DEF Updates
    <3> QED BY <1>1, <1>2, <2>1, <2>2, <3>1 DEF RoundInv
  <2>4. CASE Head(queue) # None
    <3>1. batch' = Append(batch, Head(queue)) /\ stopping' = stopping
      BY <1>3, <2>4 DEF TrainerGets
    <3>2. Head(queue) \in Sample
      BY <1>1, <2>1, <2>4, HeadOrTail DEF Item
    <3>3. Len(batch') = Len(batch) + 1
      BY <1>1, <3>1, <3>2
    <3> HIDE DEF Updates
    <3> QED BY <1>1, <1>2, <2>1, <2>2, <3>1, <3>3 DEF RoundInv
  <2> QED BY <2>3, <2>4
<1>4. CASE TrainerUpdates
  <2>1. /\ ~ stopping /\ stopping' = stopping /\ Len(batch) = RequiredSamples
        /\ trained' = trained \cup ToSet(batch) /\ batch' = <<>>
        /\ total_consumed' = total_consumed
    BY <1>4 DEF TrainerUpdates, StoppedInv, IInv, TrainerInv, mq
  <2>2. IsFiniteSet(ToSet(batch)) /\ Cardinality(ToSet(batch)) = RequiredSamples
    BY <1>1, <2>1, BatchSize DEF OnceInv, Arrived
  <2>3. trained \cap ToSet(batch) = {}
    <3>1. \A x \in Sample : Has(batch, x) => x \notin trained
      BY DEF OnceInv, Arrived
    <3>2. \A x \in ToSet(batch) : Has(batch, x)
      BY DEF ToSet, Has
    <3> QED BY <1>1, <3>1, <3>2
  <2>4. Cardinality(trained') = n + RequiredSamples
    <3>1. Cardinality(trained \cap ToSet(batch)) = 0
      BY <2>3, FS_EmptySet
    <3>2. Cardinality(trained') = n + RequiredSamples - Cardinality(trained \cap ToSet(batch))
      BY <1>2, <2>1, <2>2, FS_Union
    <3> QED BY <1>1, <1>2, <3>1, <3>2
  <2>5. Updates' = Updates + 1
    <3>1. CASE RoundContinues
      <4>1. /\ local_trigger_step' = local_trigger_step + 1
            /\ current_param_version' = current_param_version
        BY <1>4, <3>1 DEF TrainerUpdates
      <4>2. current_param_version * TriggerSync \in Nat
        BY <1>1
      <4> QED BY <1>1, <4>1, <4>2 DEF Updates
    <3>2. CASE ~ RoundContinues
      <4>1. /\ local_trigger_step' = 1 /\ local_trigger_step = TriggerSync
            /\ current_param_version' = current_param_version + 1
        BY <1>1, <1>4, <3>2 DEF TrainerUpdates, RoundContinues
      <4>2. (current_param_version + 1) * TriggerSync
              = current_param_version * TriggerSync + TriggerSync
        BY <1>1
      <4>3. current_param_version * TriggerSync \in Nat
        BY <1>1
      <4> QED BY <1>1, <4>1, <4>2, <4>3 DEF Updates
    <3> QED BY <3>1, <3>2
  <2>6. (Updates + 1) * RequiredSamples = Updates * RequiredSamples + RequiredSamples
    <3> HIDE DEF Updates
    <3> QED BY <1>1, <1>2
  <2>7. Len(batch') = 0
    BY <2>1
  <2>8. n = Updates * RequiredSamples /\ total_consumed = n + Len(batch)
    BY <2>1 DEF RoundInv
  <2>9. Cardinality(trained') = Updates' * RequiredSamples
    BY <2>4, <2>5, <2>6, <2>8
  <2> HIDE DEF Updates
  <2> QED BY <1>1, <1>2, <2>1, <2>4, <2>7, <2>8, <2>9 DEF RoundInv
<1>5. CASE QuietStep \/ MainClears \/ StreamingPutsEnd \/ \E s \in Sample : TaskPuts(s)
  <2>1. UNCHANGED <<trained, batch, stopping, total_consumed, local_trigger_step,
                    current_param_version>>
    BY <1>5 DEF QuietStep, MainClears, StreamingPutsEnd, TaskPuts, MQ!ClearQueue, MQ!PutSample,
       train
  <2> QED BY <2>1 DEF RoundInv, Updates
<1> QED BY <1>3, <1>4, <1>5, StepKinds

(* The books are kept by every step.                                         *)
LEMMA BooksStep ==
  ASSUME IInv, OnceInv, LossInv, BooksInv, [Next]_vars
  PROVE  BooksInv'
<1>1. EndsStopping'
  <2>1. CASE QuietStep
    BY <2>1 DEF QuietStep, BooksInv
  <2>2. CASE \/ TrainerGets \/ TrainerUpdates \/ MainClears \/ StreamingPutsEnd
             \/ \E s \in Sample : TaskPuts(s)
    BY <2>2 DEF TrainerGets, TrainerUpdates, MainClears, StreamingPutsEnd, TaskPuts, train,
       BooksInv, EndsStopping
  <2> QED BY <2>1, <2>2, StepKinds
<1> QED BY <1>1, EntriesStep, PutCountStep, RoundStep DEF BooksInv, LossInv

(* A run starts with empty books.                                            *)
LEMMA InitBooks == Init => BooksInv
<1> SUFFICES ASSUME Init PROVE BooksInv
  OBVIOUS
<1>1. /\ task = [s \in Sample |-> "none"] /\ ~ stopping /\ trained = {} /\ batch = <<>>
      /\ queue = <<>> /\ total_produced = 0 /\ total_consumed = 0 /\ dropped_samples = 0
      /\ cleared = 0 /\ streaming = "running" /\ current_param_version = 0
      /\ local_trigger_step = 1 /\ trainer = "collect"
  BY DEF Init, MQ!MQInit
<1>2. {s \in Sample : Delivered(s)} = {} /\ Len(batch) = 0 /\ Len(queue) = 0
  BY <1>1 DEF Delivered
<1>3. Updates = 0 /\ 0 * RequiredSamples = 0 /\ Cardinality({}) = 0
  BY <1>1, FullyAsyncAssumption, FS_EmptySet DEF Updates
<1> HIDE DEF Updates
<1> QED BY <1>1, <1>2, <1>3
        DEF BooksInv, MQ!EntriesAccountedFor, PutCount, RoundInv, EndsStopping

-----------------------------------------------------------------------------
(* The run that was planned, which a generation that raises ends early: all  *)
(* samples are fed, in the processor's hands or submitted before the end     *)
(* signal is, and the processor ends with nothing left to generate.          *)
Fed(s) == Has(pending_queue, s) \/ held = s \/ task[s] # "none"
NoneLast(q) == \A i \in 1 .. Len(q) : q[i] = None => i = Len(q)
Ending == processor \in {"endWait", "exit"}

FeedPlan ==
  /\ feeder # "cancelled"
  /\ feeder = "feeding" => \A s \in Sample : s < global_steps => Fed(s)
  /\ feeder \in {"ending", "done"} => \A s \in Sample : Fed(s)
  /\ feeder # "done" => ~ Has(pending_queue, None) /\ ~ Ending
  /\ NoneLast(pending_queue)
  /\ Ending => pending_queue = <<>>
  /\ processor = "exit" => active_tasks = {} /\ held \notin Sample
  /\ processor # "failed"
  /\ \A s \in Sample : task[s] # "raised"

(* The end marker is put last, behind every sample, and got last.            *)
QueuePlan ==
  /\ streaming = "running" => ~ Has(queue, None) /\ ~ stopping
  /\ streaming # "running" => \A s \in Sample : Delivered(s)
  /\ NoneLast(queue)
  /\ stopping => queue = <<>>
  /\ cleared = 0

PlanInv == failures = 0 => FeedPlan /\ QueuePlan

(* A queue whose head is the end marker and in which it is last is at its    *)
(* end; what is left of another still has it last.                           *)
LEMMA NoneLastTail ==
  ASSUME NEW q \in Seq(Item), q # <<>>, NoneLast(q)
  PROVE  NoneLast(Tail(q)) /\ (Head(q) = None => Tail(q) = <<>>)
<1> DEFINE t == Tail(q)
<1>1. /\ Len(t) = Len(q) - 1 /\ Len(q) \in Nat /\ Len(q) >= 1 /\ t \in Seq(Item)
      /\ \A i \in 1 .. Len(t) : t[i] = q[i + 1] /\ i + 1 \in 1 .. Len(q)
      /\ Head(q) = q[1] /\ 1 \in 1 .. Len(q) /\ (Len(t) = 0 => t = <<>>)
  OBVIOUS
<1> HIDE DEF t
<1>2. NoneLast(t)
  <2> SUFFICES ASSUME NEW i \in 1 .. Len(t), t[i] = None PROVE i = Len(t)
    BY DEF NoneLast
  <2>1. i + 1 = Len(q)
    BY <1>1 DEF NoneLast
  <2> QED BY <1>1, <2>1
<1>3. Head(q) = None => t = <<>>
  BY <1>1 DEF NoneLast
<1> QED BY <1>2, <1>3 DEF t

(* Behind a queue without the end marker anything may be put, it too.        *)
LEMMA NoneLastAppend ==
  ASSUME NEW q \in Seq(Item), NEW x \in Item, ~ Has(q, None)
  PROVE  NoneLast(Append(q, x)) /\ (x # None => ~ Has(Append(q, x), None))
<1> DEFINE t == Append(q, x)
<1>1. /\ Len(t) = Len(q) + 1 /\ Len(q) \in Nat
      /\ \A i \in 1 .. Len(q) : t[i] = q[i]
  OBVIOUS
<1>2. \A i \in 1 .. Len(t) : i \in 1 .. Len(q) \/ i = Len(t)
  BY <1>1
<1>3. \A s : Has(t, s) <=> Has(q, s) \/ s = x
  BY AppendHas
<1> HIDE DEF t
<1>4. NoneLast(t)
  BY <1>1, <1>2 DEF NoneLast, Has
<1> QED BY <1>3, <1>4 DEF t

(* Nothing in the queue is nothing of either kind.                           *)
LEMMA NoneEmpty == NoneLast(<<>>) /\ ~ Has(<<>>, None)
  BY DEF NoneLast, Has

(* Without a raised task, a reap goes on to its next place.                  *)
LEMMA ReapGoesOn ==
  ASSUME FeedPlan, NEW S \in SUBSET Sample
  PROVE  /\ ~ Raised(S)
         /\ \A next : Reap(S, next) => /\ processor' = next
                                       /\ active_tasks' = active_tasks \ S
         /\ Drain(S) => processor' = "drain"
<1>1. ~ Raised(S)
  BY DEF FeedPlan, Raised
<1> HIDE DEF Raised
<1> QED BY <1>1 DEF Reap, Drain

(* The feeder feeds in order, and the end signal after all samples.          *)
LEMMA FeederPlans ==
  ASSUME IInv, FeedPlan, Feeder
  PROVE  FeedPlan'
<1>1. UNCHANGED <<held, task, processor, active_tasks>>
  BY DEF Feeder, FeedSample, FeedEndSignal, tasks
<1>2. pending_queue \in Seq(Item) /\ global_steps \in Sample /\ None \notin Sample
  BY DEF IInv, TypeOK, FeedTypeOK, None, Sample
<1>3. feeder # "done" /\ ~ Has(pending_queue, None) /\ ~ Ending /\ ~ Ending'
  BY <1>1 DEF Feeder, FeedSample, FeedEndSignal, FeedPlan, Ending
<1>4. CASE FeedSample
  <2>1. /\ pending_queue' = Append(pending_queue, global_steps) /\ feeder = "feeding"
        /\ \/ global_steps >= TotalSteps /\ feeder' = "ending"
           \/ feeder' = "feeding" /\ global_steps' = global_steps + 1
    BY <1>4 DEF FeedSample, LastFed
  <2>2. global_steps \in Item /\ global_steps # None
    BY <1>2 DEF Item
  <2>3. NoneLast(pending_queue') /\ ~ Has(pending_queue', None)
    BY <1>2, <1>3, <2>1, <2>2, NoneLastAppend
  <2>4. \A s : Has(pending_queue', s) <=> Has(pending_queue, s) \/ s = global_steps
    BY <1>2, <2>1, <2>2, AppendHas
  <2>5. \A s \in Sample : s <= global_steps => Fed(s)'
    <3> SUFFICES ASSUME NEW s \in Sample, s <= global_steps PROVE Fed(s)'
      OBVIOUS
    <3>1. s < global_steps \/ s = global_steps
      BY <1>2 DEF Sample
    <3> QED BY <1>1, <2>1, <2>4, <3>1 DEF FeedPlan, Fed
  <2>6. feeder' = "feeding" => \A s \in Sample : s < global_steps' => Fed(s)'
    BY <1>2, <2>1, <2>5 DEF Sample
  <2>7. feeder' # "feeding" => \A s \in Sample : Fed(s)'
    BY <1>2, <2>1, <2>5, FullyAsyncAssumption DEF Sample
  <2> QED BY <1>1, <1>3, <2>1, <2>3, <2>6, <2>7 DEF FeedPlan, Ending
<1>5. CASE FeedEndSignal
  <2>1. /\ feeder = "ending" /\ feeder' = "done"
        /\ pending_queue' = Append(pending_queue, None) /\ None \in Item
    BY <1>5 DEF FeedEndSignal, Item
  <2>2. NoneLast(pending_queue')
    BY <1>2, <1>3, <2>1, NoneLastAppend
  <2>3. \A s : Has(pending_queue', s) <=> Has(pending_queue, s) \/ s = None
    BY <1>2, <2>1, AppendHas
  <2>4. \A s \in Sample : Fed(s)'
    BY <1>1, <2>1, <2>3 DEF FeedPlan, Fed
  <2> QED BY <1>1, <1>3, <2>1, <2>2, <2>4 DEF FeedPlan, Ending
<1> QED BY <1>4, <1>5 DEF Feeder

(* What the processor pulls it holds or submits; the end signal comes last.  *)
LEMMA PullPlans ==
  ASSUME IInv, FeedPlan, ProcessorPulls
  PROVE  FeedPlan'
<1> DEFINE s == Head(pending_queue)
<1>1. /\ UNCHANGED <<feeder, global_steps>> /\ pending_queue \in Seq(Item)
      /\ pending_queue # <<>> /\ pending_queue' = Tail(pending_queue)
      /\ task \in [Sample -> {"none", "generating", "replying", "done", "raised"}]
      /\ held = NoItem /\ NoItem \notin Sample /\ None \notin Sample
  BY DEF ProcessorPulls, feed, IInv, TypeOK, FeedTypeOK, ProcessorTypeOK, HeldInv, NoItem, None,
     Sample
<1>2. /\ s \in Item /\ Has(pending_queue, s)
      /\ \A x : Has(pending_queue, x) => x = s \/ Has(pending_queue', x)
      /\ \A x : Has(pending_queue', x) => Has(pending_queue, x)
  <2>1. \A x : Has(Tail(pending_queue), x) => Has(pending_queue, x)
    BY <1>1, TailHas
  <2> QED BY <1>1, <2>1, HeadOrTail
<1>3. NoneLast(pending_queue') /\ (s = None => pending_queue' = <<>>)
  BY <1>1, NoneLastTail DEF FeedPlan
<1>4. \/ /\ held' = s /\ task' = task
         /\ \/ s = None /\ processor' = "exit" /\ active_tasks' = {}
            \/ s = None /\ processor' = "endWait"
            \/ s # None /\ processor' \in {"limitWait", "submitLock"}
      \/ /\ s # None /\ task' = [task EXCEPT ![s] = "generating"] /\ processor' = "check"
  BY DEF ProcessorPulls, Submit
<1> HIDE DEF s
<1>5. \A x \in Sample : Fed(x) => Fed(x)'
  BY <1>1, <1>2, <1>4 DEF Fed, Item
<1>6. \A x \in Sample : task'[x] # "raised"
  BY <1>1, <1>4 DEF FeedPlan
<1>7. processor' # "failed" /\ (Ending' => s = None /\ held' = None)
  BY <1>4 DEF Ending
<1>8. s = None => feeder = "done"
  BY <1>2 DEF FeedPlan
<1>9. processor' = "exit" => active_tasks' = {}
  BY <1>4
<1> QED BY <1>1, <1>2, <1>3, <1>5, <1>6, <1>7, <1>8, <1>9 DEF FeedPlan, Ending

(* The rest of the processor forgets no sample, and ends with no task left.  *)
LEMMA ProcessorPlans ==
  ASSUME IInv, FeedPlan, Processor
  PROVE  FeedPlan'
<1>1. CASE ProcessorPulls
  BY <1>1, PullPlans
<1>2. CASE ~ ProcessorPulls
  <2>1. /\ UNCHANGED <<feeder, global_steps, pending_queue>>
        /\ task \in [Sample -> {"none", "generating", "replying", "done", "raised"}]
        /\ Finished \in SUBSET Sample /\ ~ Raised(Finished) /\ active_tasks \in SUBSET Sample
    <3>1. /\ UNCHANGED <<feeder, global_steps, pending_queue>>
      BY <1>2 DEF Processor, ProcessorAsks, ProcessorDecides, ProcessorPauses, ProcessorReaps,
         ProcessorReapsLate, ProcessorResumes, ProcessorPassesLimit, ProcessorSubmits,
         ProcessorEnds, feed
    <3>2. active_tasks \in SUBSET Sample /\ Finished \in SUBSET Sample
      BY DEF IInv, TypeOK, ProcessorTypeOK, Finished
    <3>3. ~ Raised(Finished)
      BY <3>2, ReapGoesOn
    <3> QED BY <3>1, <3>2, <3>3 DEF IInv, TypeOK, ProcessorTypeOK
  <2>2. /\ processor' # "failed"
        /\ Ending' => Ending
        /\ processor' = "exit" => active_tasks' = {} /\ held' = held /\ held = None
    <3>1. CASE \/ ProcessorAsks \/ ProcessorDecides \/ ProcessorPauses \/ ProcessorResumes
               \/ ProcessorSubmits
      BY <3>1 DEF ProcessorAsks, ProcessorDecides, ProcessorPauses, ProcessorResumes,
         ProcessorSubmits, Pause, Submit, Ending
    <3>2. CASE ProcessorReaps \/ ProcessorReapsLate
      <4>1. processor' \in {"drain", "reapLock"}
        <5>1. PICK S \in SUBSET Sample : Drain(S) \/ processor' = "reapLock"
          BY <2>1, <3>2 DEF ProcessorReaps, ProcessorReapsLate
        <5> QED BY <5>1, ReapGoesOn
      <4> QED BY <4>1 DEF Ending
    <3>3. CASE ProcessorPassesLimit
      <4>1. processor' \in {"check", "submitLock"}
        BY <2>1, <3>3, ReapGoesOn DEF ProcessorPassesLimit, Submit
      <4> QED BY <4>1 DEF Ending
    <3>4. CASE ProcessorEnds
      <4>1. /\ processor = "endWait" /\ held = None /\ held' = held
            /\ Reap(Finished, IF active_tasks \ Finished = {} THEN "exit" ELSE "endWait")
        BY <2>1, <3>4 DEF ProcessorEnds, IInv, HeldInv
      <4>2. /\ processor' = IF active_tasks \ Finished = {} THEN "exit" ELSE "endWait"
            /\ active_tasks' = active_tasks \ Finished
        BY <2>1, <4>1, ReapGoesOn
      <4> QED BY <4>1, <4>2 DEF Ending
    <3> QED BY <1>2, <3>1, <3>2, <3>3, <3>4 DEF Processor
  <2>3. \/ held' = held /\ task' = task
        \/ held \in Sample /\ task' = [task EXCEPT ![held] = "generating"]
    <3>1. CASE ProcessorPassesLimit \/ ProcessorSubmits
      BY <2>1, <3>1 DEF ProcessorPassesLimit, ProcessorSubmits, Submit, IInv, HeldInv
    <3>2. CASE ProcessorEnds
      BY <2>1, <3>2 DEF ProcessorEnds, tasks
    <3>3. CASE \/ ProcessorAsks \/ ProcessorDecides \/ ProcessorPauses \/ ProcessorReaps
               \/ ProcessorReapsLate \/ ProcessorResumes
      BY <3>3 DEF ProcessorAsks, ProcessorDecides, ProcessorPauses, ProcessorReaps,
         ProcessorReapsLate, ProcessorResumes, tasks
    <3> QED BY <1>2, <3>1, <3>2, <3>3 DEF Processor
  <2>4. \A x \in Sample : Fed(x) => Fed(x)'
    BY <2>1, <2>3 DEF Fed
  <2>5. \A x \in Sample : task'[x] # "raised"
    BY <2>1, <2>3 DEF FeedPlan
  <2>6. None \notin Sample
    BY DEF None, Sample
  <2> QED BY <2>1, <2>2, <2>4, <2>5, <2>6 DEF FeedPlan
<1> QED BY <1>1, <1>2

(* The other coroutines leave the feeding as it is, unless a task raises.    *)
LEMMA FeedPlanStep ==
  ASSUME IInv, FeedPlan, failures' = 0, failures = 0, [Next]_vars
  PROVE  FeedPlan'
<1>1. CASE \/ Monitor \/ Training \/ MainClears \/ Terminated \/ StreamingStops
           \/ UNCHANGED vars
  <2>1. UNCHANGED <<feeder, global_steps, pending_queue, held, task, processor, active_tasks>>
    BY <1>1 DEF Monitor, MonitorAsks, MonitorDecides, MonitorResumes, MonitorStops, Training,
       TrainerGets, TrainerWaits, TrainerUpdates, TrainerFinishes, TrainerSyncs, ResetBegins,
       ResetEnds, MainClears, Terminated, StreamingStops, vars, feed, tasks
  <2> QED BY <2>1 DEF FeedPlan, Fed, Ending
<1>2. CASE StreamingPutsEnd
  <2>1. /\ processor = "exit" /\ held' = NoItem /\ feeder = "done" /\ feeder' = "done"
        /\ UNCHANGED <<global_steps, pending_queue, task, processor, active_tasks>>
    BY <1>2 DEF StreamingPutsEnd, FeedPlan, Ending, tasks
  <2>2. held \notin Sample /\ NoItem \notin Sample
    BY <2>1 DEF FeedPlan, NoItem, Sample
  <2>3. \A x \in Sample : Fed(x) => Fed(x)'
    BY <2>1, <2>2 DEF Fed
  <2> QED BY <2>1, <2>2, <2>3 DEF FeedPlan, Ending
<1>3. ASSUME NEW s \in Sample, Task(s)
      PROVE  FeedPlan'
  <2>1. /\ UNCHANGED <<feeder, global_steps, pending_queue, held, processor, active_tasks>>
        /\ task \in [Sample -> {"none", "generating", "replying", "done", "raised"}]
        /\ \E v \in {"replying", "done"} : task' = [task EXCEPT ![s] = v]
    BY <1>3 DEF Task, TaskPuts, TaskDone, TaskRaises, feed, IInv, TypeOK, ProcessorTypeOK
  <2>2. \A x \in Sample : task'[x] # "raised" /\ (task[x] # "none" => task'[x] # "none")
    BY <2>1 DEF FeedPlan
  <2> QED BY <2>1, <2>2 DEF FeedPlan, Fed, Ending
<1> QED BY <1>1, <1>2, <1>3, FeederPlans, ProcessorPlans DEF Next, Streaming

(* A put into a queue without the end marker.                                *)
LEMMA PutPlans ==
  ASSUME IInv, ~ Has(queue, None), NEW s \in Item, MQ!PutSample(s)
  PROVE  NoneLast(queue') /\ (s # None => ~ Has(queue', None))
<1> DEFINE kept == IF MQ!Full THEN Tail(queue) ELSE queue
<1>1. queue \in Seq(Item) /\ (MQ!Full => queue # <<>>) /\ queue' = Append(kept, s)
  BY MaxRequiredType DEF IInv, TypeOK, MQ!MQTypeOK, MQ!PutSample, MQ!Full
<1>2. kept \in Seq(Item) /\ ~ Has(kept, None)
  <2>1. CASE MQ!Full
    BY <1>1, <2>1, TailHas
  <2>2. CASE ~ MQ!Full
    BY <1>1, <2>2
  <2> QED BY <2>1, <2>2
<1> HIDE DEF kept
<1> QED BY <1>1, <1>2, NoneLastAppend

(* Every sample is delivered when the end marker is put, so nothing is put   *)
(* behind it and the queue is empty once it is got.                          *)
LEMMA QueuePlanStep ==
  ASSUME IInv, OnceInv, LossInv, BooksInv, FeedPlan, QueuePlan, [Next]_vars
  PROVE  QueuePlan'
<1>1. /\ task \in [Sample -> {"none", "generating", "replying", "done", "raised"}]
      /\ queue \in Seq(Item) /\ None \notin Sample
  BY DEF IInv, TypeOK, ProcessorTypeOK, MQ!MQTypeOK, None, Sample
<1>2. CASE QuietStep
  BY <1>2 DEF QuietStep, QueuePlan, NoneLast, Has
<1>3. CASE TrainerUpdates
  <2>1. UNCHANGED <<queue, streaming, stopping, cleared, task>>
    BY <1>3 DEF TrainerUpdates, mq, tasks
  <2> QED BY <2>1 DEF QueuePlan, NoneLast, Has, Delivered
<1>4. ASSUME NEW s \in Sample, TaskPuts(s)
      PROVE  QueuePlan'
  <2>1. /\ UNCHANGED <<streaming, stopping, cleared>> /\ task[s] = "generating"
        /\ MQ!PutSample(s) /\ s \in Item
    BY <1>4 DEF TaskPuts, MQ!PutSample, train, Item
  <2>2. streaming = "running"
    BY <2>1 DEF QueuePlan, Delivered
  <2>3. ~ Has(queue, None) /\ ~ stopping
    BY <2>2 DEF QueuePlan
  <2>4. NoneLast(queue') /\ ~ Has(queue', None)
    BY <1>1, <2>1, <2>3, PutPlans
  <2> QED BY <2>1, <2>2, <2>3, <2>4 DEF QueuePlan
<1>5. CASE StreamingPutsEnd
  <2>1. /\ streaming = "running" /\ streaming' = "stopping" /\ processor = "exit"
        /\ MQ!PutSample(None) /\ None \in Item /\ task' = task
        /\ UNCHANGED <<stopping, cleared>>
    BY <1>5 DEF StreamingPutsEnd, FeedPlan, MQ!PutSample, train, tasks, Item
  <2>2. ~ Has(queue, None) /\ ~ stopping
    BY <2>1 DEF QueuePlan
  <2>3. NoneLast(queue')
    BY <2>1, <2>2, PutPlans
  <2>4. \A s \in Sample : Delivered(s)
    <3> SUFFICES ASSUME NEW s \in Sample PROVE Delivered(s)
      OBVIOUS
    <3>1. /\ Fed(s) /\ pending_queue = <<>> /\ held \notin Sample
          /\ active_tasks = {} /\ task[s] # "raised"
      BY <2>1 DEF FeedPlan, Ending
    <3>2. task[s] # "none"
      BY <3>1 DEF Fed, Has
    <3>3. task[s] # "generating"
      BY <3>1 DEF IInv, TaskInv, InFlight
    <3> QED BY <1>1, <3>1, <3>2, <3>3 DEF Delivered
  <2> QED BY <2>1, <2>2, <2>3, <2>4 DEF QueuePlan, Delivered
<1>6. CASE TrainerGets
  <2>1. /\ UNCHANGED <<streaming, task, cleared>> /\ ~ stopping
        /\ queue # <<>> /\ queue' = Tail(queue)
    BY <1>6 DEF TrainerGets, tasks, MQ!GetSample, LossInv, StoppedInv
  <2>2. /\ NoneLast(queue') /\ (Head(queue) = None => queue' = <<>>)
        /\ Has(queue, Head(queue)) /\ \A x : Has(queue', x) => Has(queue, x)
    BY <1>1, <2>1, NoneLastTail, HeadOrTail, TailHas DEF QueuePlan
  <2>3. Head(queue) # None => ~ stopping'
    BY <1>6, <2>1 DEF TrainerGets
  <2> QED BY <2>1, <2>2, <2>3 DEF QueuePlan, Delivered
<1>7. CASE MainClears
  <2>1. /\ UNCHANGED <<streaming, task, stopping>> /\ queue' = <<>> /\ stopping
        /\ cleared' = cleared + Len(queue)
    BY <1>7 DEF MainClears, tasks, MQ!ClearQueue, BooksInv, EndsStopping
  <2>2. queue = <<>> /\ cleared = 0 /\ Len(queue) = 0
    BY <2>1 DEF QueuePlan
  <2> QED BY <2>1, <2>2, NoneEmpty DEF QueuePlan, Delivered
<1> QED BY <1>2, <1>3, <1>4, <1>5, <1>6, <1>7, StepKinds

(* The plan holds until a generation raises, which no step takes back.       *)
LEMMA PlanStep ==
  ASSUME IInv, OnceInv, LossInv, BooksInv, PlanInv, [Next]_vars
  PROVE  PlanInv'
<1> SUFFICES ASSUME failures' = 0 PROVE FeedPlan' /\ QueuePlan'
  BY DEF PlanInv
<1>1. failures' = failures \/ failures' = failures + 1
  <2>1. CASE \E s \in Sample : Task(s)
    BY <2>1 DEF Task, TaskPuts, TaskDone, TaskRaises
  <2>2. CASE Processor
    BY <2>2 DEF Processor, ProcessorAsks, ProcessorDecides, ProcessorPauses, ProcessorReaps,
       ProcessorReapsLate, ProcessorResumes, ProcessorPulls, ProcessorPassesLimit,
       ProcessorSubmits, ProcessorEnds, tasks
  <2>3. CASE Feeder \/ Streaming \/ Monitor \/ Training \/ MainClears
    BY <2>3 DEF Feeder, FeedSample, FeedEndSignal, Streaming, StreamingPutsEnd, StreamingStops,
       Monitor, MonitorAsks, MonitorDecides, MonitorResumes, MonitorStops, Training,
       TrainerGets, TrainerWaits, TrainerUpdates, TrainerFinishes, TrainerSyncs, ResetBegins,
       ResetEnds, MainClears, tasks
  <2>4. CASE Terminated \/ UNCHANGED vars
    BY <2>4 DEF Terminated, vars, tasks
  <2> QED BY <2>1, <2>2, <2>3, <2>4 DEF Next
<1>2. failures = 0
  BY <1>1 DEF IInv, TypeOK, ProcessorTypeOK
<1>3. FeedPlan /\ QueuePlan
  BY <1>2 DEF PlanInv
<1> QED BY <1>2, <1>3, FeedPlanStep, QueuePlanStep

(* A run starts with everything still to be fed.                             *)
LEMMA InitPlan == Init => PlanInv
<1> SUFFICES ASSUME Init PROVE FeedPlan /\ QueuePlan
  BY DEF PlanInv
<1>1. /\ feeder = "feeding" /\ global_steps = 1 /\ pending_queue = <<>> /\ processor = "check"
      /\ task = [s \in Sample |-> "none"] /\ streaming = "running" /\ queue = <<>>
      /\ ~ stopping /\ cleared = 0
  BY DEF Init, MQ!MQInit
<1>2. FeedPlan
  BY <1>1, NoneEmpty DEF FeedPlan, Ending, Sample
<1>3. QueuePlan
  BY <1>1, NoneEmpty DEF QueuePlan
<1> QED BY <1>2, <1>3

(* Products of naturals grow with a factor.                                  *)
LEMMA ProductGrows ==
  ASSUME NEW a \in Nat, NEW b \in Nat, NEW c \in Nat, a < b
  PROVE  (a + 1) * c <= b * c
<1>1. PICK k \in Nat : b = (a + 1) + k
  <2>1. b - (a + 1) \in Nat /\ b = (a + 1) + (b - (a + 1))
    OBVIOUS
  <2> QED BY <2>1
<1>2. ((a + 1) + k) * c = (a + 1) * c + k * c
  OBVIOUS
<1>3. (a + 1) * c \in Nat /\ k * c \in Nat
  OBVIOUS
<1> QED BY <1>1, <1>2, <1>3

(* Integer division, given the quotient.                                     *)
LEMMA Quotient ==
  ASSUME NEW a \in Nat, NEW b \in Nat \ {0}, NEW q \in Nat, q * b <= a, a < q * b + b
  PROVE  a \div b = q
<1> DEFINE d == a \div b
<1>1. d \in Nat /\ d * b <= a /\ a < d * b + b
  <2>1. a \div b \in Nat /\ a % b \in 0 .. b - 1 /\ a = b * (a \div b) + (a % b)
    OBVIOUS
  <2> QED BY <2>1
<1> HIDE DEF d
<1>2. CASE d < q
  <2>1. (d + 1) * b <= q * b
    BY <1>1, <1>2, ProductGrows
  <2>2. (d + 1) * b = d * b + b
    BY <1>1
  <2>3. d * b \in Nat /\ q * b \in Nat
    BY <1>1
  <2> QED BY <1>1, <2>1, <2>2, <2>3
<1>3. CASE q < d
  <2>1. (q + 1) * b <= d * b
    BY <1>1, <1>3, ProductGrows
  <2>2. (q + 1) * b = q * b + b
    OBVIOUS
  <2>3. d * b \in Nat /\ q * b \in Nat
    BY <1>1
  <2> QED BY <1>1, <2>1, <2>2, <2>3
<1>4. d = q
  BY <1>1, <1>2, <1>3
<1> QED BY <1>4 DEF d

(* What all the invariants say of a run that went as planned, at its end.    *)
LEMMA EndOfPlan ==
  ASSUME IInv, LossInv, BooksInv, PlanInv
  PROVE  PlannedStepsDone
<1> SUFFICES ASSUME trainer \in {"done", "cleared"}, failures = 0, dropped_samples = 0
             PROVE  /\ total_consumed = TotalSteps + 1
                    /\ Cardinality(trained) =
                         (TotalSteps \div RequiredSamples) * RequiredSamples
                    /\ current_param_version = TotalSteps \div (RequiredSamples * TriggerSync)
  BY DEF PlannedStepsDone
<1> DEFINE n == Cardinality(trained)
           v == current_param_version
           l == local_trigger_step - 1
           R == RequiredSamples
           T == TriggerSync
<1>1. /\ TotalSteps \in Nat /\ R \in Nat \ {0} /\ T \in Nat \ {0} /\ v \in Nat /\ l \in 0 .. T - 1
      /\ trained \in SUBSET Sample /\ total_produced \in Nat /\ total_consumed \in Nat
  BY FullyAsyncAssumption DEF IInv, TypeOK, TrainTypeOK, MQ!MQTypeOK
<1>2. n \in Nat /\ Updates = v * T + l
  BY <1>1, SampleSets DEF Updates
<1>3. stopping /\ FeedPlan /\ QueuePlan
  BY DEF BooksInv, EndsStopping, PlanInv
<1>4. total_consumed = TotalSteps + 1
  <2>1. /\ streaming # "running" /\ queue = <<>> /\ cleared = 0 /\ Len(queue) = 0
        /\ \A s \in Sample : Delivered(s)
    BY <1>3 DEF QueuePlan
  <2>2. {s \in Sample : Delivered(s)} = Sample
    BY <2>1
  <2>2a. Cardinality(Sample) = TotalSteps
    <3>1. TotalSteps \in Nat /\ 1 \in Int /\ TotalSteps \in Int
      BY <1>1
    <3>2. Cardinality(1 .. TotalSteps) = IF 1 > TotalSteps THEN 0 ELSE TotalSteps - 1 + 1
      BY <3>1, FS_Interval
    <3> QED BY <3>1, <3>2 DEF Sample
  <2>3. total_produced = TotalSteps + 1
    BY <2>1, <2>2, <2>2a DEF BooksInv, PutCount
  <2> QED BY <1>1, <2>1, <2>3 DEF BooksInv, MQ!EntriesAccountedFor
<1>5. n = Updates * R /\ n <= TotalSteps /\ TotalSteps < n + R
  <2>1. n = Updates * R /\ n < total_consumed /\ total_consumed <= n + R
    BY <1>3 DEF BooksInv, RoundInv
  <2> HIDE DEF n, R
  <2> QED BY <1>1, <1>2, <1>4, <2>1
<1> HIDE DEF n, v, l, R, T
<1>6. Updates \in Nat
  BY <1>1, <1>2
<1>7. TotalSteps \div R = Updates
  <2> DEFINE u == Updates
  <2>1. u \in Nat /\ u * R <= TotalSteps /\ TotalSteps < u * R + R
    BY <1>5, <1>6
  <2> HIDE DEF u
  <2>2. TotalSteps \div R = u
    BY <1>1, <2>1, Quotient
  <2> QED BY <2>2 DEF u
<1>8. TotalSteps \div (R * T) = v
  <2>1. R * T \in Nat \ {0} /\ v * (R * T) = (v * T) * R
    BY <1>1
  <2>2. n = (v * T) * R + l * R
    <3>1. (v * T + l) * R = (v * T) * R + l * R
      BY <1>1
    <3> QED BY <1>2, <1>5, <3>1
  <2>3. l * R \in Nat /\ l * R + R <= R * T
    <3>1. (l + 1) * R <= T * R
      BY <1>1, ProductGrows
    <3>2. (l + 1) * R = l * R + R /\ T * R = R * T /\ l * R \in Nat
      BY <1>1
    <3> QED BY <3>1, <3>2
  <2> DEFINE m == R * T
             w == v * m
             z == l * R
  <2>4. m \in Nat \ {0} /\ w \in Nat /\ n = w + z /\ z \in Nat /\ z + R <= m
    BY <1>1, <2>1, <2>2, <2>3
  <2> HIDE DEF w, z
  <2>5. w <= TotalSteps /\ TotalSteps < w + m
    BY <1>1, <1>2, <1>5, <2>4
  <2> HIDE DEF m
  <2>6. v * m <= TotalSteps /\ TotalSteps < v * m + m
    BY <2>5 DEF w
  <2>7. TotalSteps \div m = v
    BY <1>1, <2>4, <2>6, Quotient
  <2> QED BY <2>7 DEF m
<1> QED BY <1>4, <1>5, <1>7, <1>8 DEF n, v, l, R, T

(* A run in which no generation raised and no entry was dropped ends with    *)
(* every sample and the end marker handed over, every full batch trained on, *)
(* and total_train_steps reached, however the coroutines interleave (lines   *)
(* 534-537 of the rollouter, 290-312 of the trainer).                        *)
THEOREM PlanDone == Spec => []PlannedStepsDone
<1>1. Spec => [](OnceInv /\ LossInv)
  <2>1. []IInv /\ OnceInv /\ LossInv /\ [][Next]_vars => [](OnceInv /\ LossInv)
    <3>1. IInv /\ OnceInv /\ LossInv /\ [Next]_vars => OnceInv' /\ LossInv'
      BY OnceStep, LossStep
    <3> QED BY <3>1, PTL
  <2> QED BY <2>1, InitOnce, InitLoss, Invariance, PTL DEF Spec
<1>2. Spec => [](BooksInv /\ PlanInv)
  <2>1. /\ []IInv /\ [](OnceInv /\ LossInv) /\ BooksInv /\ PlanInv /\ [][Next]_vars
        => [](BooksInv /\ PlanInv)
    <3>1. IInv /\ OnceInv /\ LossInv /\ BooksInv /\ PlanInv /\ [Next]_vars
          => BooksInv' /\ PlanInv'
      BY BooksStep, PlanStep
    <3> QED BY <3>1, PTL
  <2> QED BY <1>1, <2>1, InitBooks, InitPlan, Invariance, PTL DEF Spec
<1>3. IInv /\ LossInv /\ BooksInv /\ PlanInv => PlannedStepsDone
  BY EndOfPlan
<1> QED BY <1>1, <1>2, <1>3, Invariance, PTL
=============================================================================
