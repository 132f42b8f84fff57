---------------------------- MODULE MessageQueue ----------------------------
(***************************************************************************)
(* The Ray actor between Rollouter and Trainer                             *)
(* (verl/experimental/fully_async_policy/message_queue.py): a bounded      *)
(* deque that drops its OLDEST entry when a put finds it full, and a       *)
(* condition variable on which callers of get_sample sleep while the deque *)
(* is empty.  Every method body runs under the actor's one asyncio lock,   *)
(* so each is one action; a get_sample that has to wait gives the lock up, *)
(* so it is several: it goes to sleep, is woken by a notify_all, and tests *)
(* the deque again, which another caller may have emptied meanwhile.       *)
(***************************************************************************)
EXTENDS Integers, Sequences, FiniteSets

CONSTANTS
  Item,          (* what can be put: samples, and the end marker             *)
  Consumers,     (* the callers of get_sample                                *)
  MaxQueueSize,  (* max_queue_size                                           *)
  MaxPuts        (* bound of the model: puts explored by this module's Spec  *)

ASSUME QueueAssumption == MaxQueueSize \in Nat \ {0}

VARIABLES
  queue,            (* self.queue                                            *)
  mqRunning,        (* self.running                                          *)
  total_produced,
  total_consumed,
  dropped_samples,
  cleared,          (* how many entries clear_queue has removed              *)
  sleeping,         (* callers waiting on self._consumer_condition           *)
  awake             (* callers notified that have not yet retested the deque *)

counters == <<total_produced, total_consumed, dropped_samples, cleared>>
mqVars == <<queue, mqRunning, counters, sleeping, awake>>

MQInit ==
  /\ queue = <<>>
  /\ mqRunning = TRUE
  /\ total_produced = 0
  /\ total_consumed = 0
  /\ dropped_samples = 0
  /\ cleared = 0
  /\ sleeping = {}
  /\ awake = {}

(* self._consumer_condition.notify_all() *)
NotifyAllFaulty == UNCHANGED <<sleeping, awake>>        (* fault: forgotten *)
NotifyAll ==
  /\ awake' = awake \cup sleeping
  /\ sleeping' = {}

Full == Len(queue) >= MaxQueueSize

(* fault: a drop is not counted *)
PutSampleFaulty(s) ==
  /\ queue' = Append(IF Full THEN Tail(queue) ELSE queue, s)
  /\ total_produced' = total_produced + 1
  /\ NotifyAll
  /\ UNCHANGED <<mqRunning, total_consumed, dropped_samples, cleared>>

(* put_sample: returns success iff nothing was dropped (~Full). *)
PutSample(s) ==
  /\ queue' = Append(IF Full THEN Tail(queue) ELSE queue, s)
  /\ dropped_samples' = IF Full THEN dropped_samples + 1 ELSE dropped_samples
  /\ total_produced' = total_produced + 1
  /\ NotifyAll
  /\ UNCHANGED <<mqRunning, total_consumed, cleared>>

(* fault: pop() for popleft(), the newest entry is handed out *)
GetSampleFaulty(c, data) ==
  /\ c \notin sleeping
  /\ queue # <<>>
  /\ data = queue[Len(queue)]
  /\ queue' = SubSeq(queue, 1, Len(queue) - 1)
  /\ total_consumed' = total_consumed + 1
  /\ awake' = awake \ {c}
  /\ UNCHANGED <<mqRunning, total_produced, dropped_samples, cleared, sleeping>>

(* get_sample, called or woken, finds an entry and returns it: data. *)
GetSample(c, data) ==
  /\ c \notin sleeping
  /\ queue # <<>>
  /\ data = Head(queue)
  /\ queue' = Tail(queue)
  /\ total_consumed' = total_consumed + 1
  /\ awake' = awake \ {c}
  /\ UNCHANGED <<mqRunning, total_produced, dropped_samples, cleared, sleeping>>

(* get_sample, called or woken, finds the deque empty and the queue open. *)
GetWaits(c) ==
  /\ c \notin sleeping
  /\ queue = <<>>
  /\ mqRunning
  /\ sleeping' = sleeping \cup {c}
  /\ awake' = awake \ {c}
  /\ UNCHANGED <<queue, mqRunning, counters>>

(* get_sample, called or woken, finds the deque empty and the queue closed: *)
(* it returns a bare None.                                                  *)
GetClosed(c) ==
  /\ c \notin sleeping
  /\ queue = <<>>
  /\ ~ mqRunning
  /\ awake' = awake \ {c}
  /\ UNCHANGED <<queue, mqRunning, counters, sleeping>>

ClearQueue ==
  /\ queue' = <<>>
  /\ cleared' = cleared + Len(queue)
  /\ UNCHANGED <<mqRunning, total_produced, total_consumed, dropped_samples,
                 sleeping, awake>>

Shutdown ==
  /\ mqRunning' = FALSE
  /\ NotifyAll
  /\ UNCHANGED <<queue, counters>>

(* One run of the body of get_sample for caller c. *)
GetRuns(c) ==
  (\E data \in Item : GetSample(c, data)) \/ GetWaits(c) \/ GetClosed(c)

MQNext ==
  \/ \E s \in Item : total_produced < MaxPuts /\ PutSample(s)
  \/ \E c \in Consumers : GetRuns(c)
  \/ ClearQueue
  \/ Shutdown

MQSpec == MQInit /\ [][MQNext]_mqVars

-----------------------------------------------------------------------------
MQTypeOK ==
  /\ queue \in Seq(Item)
  /\ Len(queue) <= MaxQueueSize
  /\ mqRunning \in BOOLEAN
  /\ total_produced \in Nat
  /\ total_consumed \in Nat
  /\ dropped_samples \in Nat
  /\ cleared \in Nat
  /\ sleeping \in SUBSET Consumers
  /\ awake \in SUBSET Consumers

(* No lost wake-up: a caller of get_sample is asleep only while there is   *)
(* nothing to hand it and the queue is open, and never both asleep and     *)
(* notified (lines 77, 93-94 and 133 of message_queue.py).                 *)
NoLostWakeup ==
  /\ sleeping # {} => queue = <<>> /\ mqRunning
  /\ sleeping \cap awake = {}

(* The statistics of the actor account for every entry ever put: it was    *)
(* consumed, dropped by a put into a full deque, cleared, or is still      *)
(* there (lines 68-74, 101-102, 124-125 of message_queue.py).              *)
EntriesAccountedFor ==
  total_produced = total_consumed + dropped_samples + cleared + Len(queue)
=============================================================================
