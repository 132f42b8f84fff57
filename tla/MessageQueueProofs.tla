------------------------- MODULE MessageQueueProofs -------------------------
(***************************************************************************)
(* For every capacity, every set of items and every set of callers: the    *)
(* message queue is type correct (so never over capacity), loses no        *)
(* wake-up, accounts for every entry, and implements the drop-oldest       *)
(* channel.  The first three are inductive one after the other.  The       *)
(* refinement needs more: the deque is, entry for entry, what is left of   *)
(* the log of all puts once what was consumed, dropped and cleared is      *)
(* taken off its old end.                                                  *)
(***************************************************************************)
EXTENDS QueueHistory, TLAPS

(* The steps of MQNext, named once for the four proofs below. *)
LEMMA MQNextCases ==
  ASSUME MQNext
  PROVE  \/ \E s \in Item : PutSample(s)
         \/ \E c \in Consumers, data \in Item : GetSample(c, data)
         \/ \E c \in Consumers : GetWaits(c)
         \/ \E c \in Consumers : GetClosed(c)
         \/ ClearQueue
         \/ Shutdown
  BY DEF MQNext, GetRuns

(* The operations keep the deque within max_queue_size and every variable in *)
(* its type, whoever calls them: put_sample, get_sample, clear_queue and     *)
(* shutdown of message_queue.py.                                             *)
LEMMA PutSampleType ==
  ASSUME MQTypeOK, NEW s \in Item, PutSample(s)
  PROVE  MQTypeOK'
  <1>1. CASE Full
    BY <1>1, QueueAssumption DEF MQTypeOK, PutSample, Full, NotifyAll
  <1>2. CASE ~ Full
    BY <1>2, QueueAssumption DEF MQTypeOK, PutSample, Full, NotifyAll
  <1> QED BY <1>1, <1>2

(* get_sample keeps the queue actor well typed: it only shortens the deque. *)
LEMMA GetSampleType ==
  ASSUME MQTypeOK, NEW c, NEW data, GetSample(c, data)
  PROVE  MQTypeOK' /\ data \in Item
  BY QueueAssumption DEF MQTypeOK, GetSample

(* Going to sleep in get_sample keeps the queue actor well typed. *)
LEMMA GetWaitsType ==
  ASSUME MQTypeOK, NEW c \in Consumers, GetWaits(c)
  PROVE  MQTypeOK'
  BY DEF MQTypeOK, GetWaits, counters

(* clear_queue keeps the queue actor well typed. *)
LEMMA ClearQueueType ==
  ASSUME MQTypeOK, ClearQueue
  PROVE  MQTypeOK'
  BY QueueAssumption DEF MQTypeOK, ClearQueue

(* A newly created queue actor is well typed. *)
LEMMA MQTypeInit == MQInit => MQTypeOK
  BY QueueAssumption DEF MQInit, MQTypeOK

(* Type correctness, and with it the capacity bound (message_queue.py:68-70). *)
THEOREM MQTypeCorrect == MQSpec => []MQTypeOK
<1>1. MQInit => MQTypeOK
  BY MQTypeInit
<1>2. MQTypeOK /\ [MQNext]_mqVars => MQTypeOK'
  <2> SUFFICES ASSUME MQTypeOK, [MQNext]_mqVars PROVE MQTypeOK'
    OBVIOUS
  <2>1. ASSUME NEW s \in Item, PutSample(s) PROVE MQTypeOK'
    BY <2>1, PutSampleType
  <2>2. ASSUME NEW c \in Consumers, NEW data \in Item, GetSample(c, data)
        PROVE MQTypeOK'
    BY <2>2, GetSampleType
  <2>3. ASSUME NEW c \in Consumers, GetWaits(c) PROVE MQTypeOK'
    BY <2>3, GetWaitsType
  <2>4. ASSUME NEW c \in Consumers, GetClosed(c) PROVE MQTypeOK'
    BY <2>4 DEF GetClosed, MQTypeOK, counters
  <2>5. CASE ClearQueue
    BY <2>5, ClearQueueType
  <2>6. CASE Shutdown
    BY <2>6 DEF Shutdown, NotifyAll, MQTypeOK, counters
  <2>7. CASE UNCHANGED mqVars
    BY <2>7 DEF mqVars, counters, MQTypeOK
  <2> QED BY <2>1, <2>2, <2>3, <2>4, <2>5, <2>6, <2>7, MQNextCases
<1> QED BY <1>1, <1>2, PTL DEF MQSpec

(* A caller of get_sample sleeps only while the deque is empty and the queue *)
(* open: whatever makes that false notifies every sleeper in the same step   *)
(* (message_queue.py:77, 93-94, 133).                                        *)
THEOREM NoWakeupLost == MQSpec => []NoLostWakeup
<1>1. MQInit => NoLostWakeup
  BY DEF MQInit, NoLostWakeup
<1>2. MQTypeOK /\ NoLostWakeup /\ [MQNext]_mqVars => NoLostWakeup'
  <2> SUFFICES ASSUME MQTypeOK, NoLostWakeup, [MQNext]_mqVars
               PROVE  NoLostWakeup'
    OBVIOUS
  <2>1. ASSUME NEW s \in Item, PutSample(s) PROVE NoLostWakeup'
    BY <2>1 DEF PutSample, NotifyAll, NoLostWakeup
  <2>2. ASSUME NEW c \in Consumers, NEW data \in Item, GetSample(c, data)
        PROVE NoLostWakeup'
    BY <2>2 DEF GetSample, NoLostWakeup
  <2>3. ASSUME NEW c \in Consumers, GetWaits(c) PROVE NoLostWakeup'
    BY <2>3 DEF GetWaits, NoLostWakeup, counters
  <2>4. ASSUME NEW c \in Consumers, GetClosed(c) PROVE NoLostWakeup'
    BY <2>4 DEF GetClosed, NoLostWakeup, counters
  <2>5. CASE ClearQueue
    BY <2>5 DEF ClearQueue, NoLostWakeup
  <2>6. CASE Shutdown
    BY <2>6 DEF Shutdown, NotifyAll, NoLostWakeup
  <2>7. CASE UNCHANGED mqVars
    BY <2>7 DEF mqVars, counters, NoLostWakeup
  <2> QED BY <2>1, <2>2, <2>3, <2>4, <2>5, <2>6, <2>7, MQNextCases
<1> QED BY <1>1, <1>2, MQTypeCorrect, PTL DEF MQSpec

(* Each step moves an entry between exactly two of the terms of              *)
(* EntriesAccountedFor.                                                      *)
LEMMA AccountingStep ==
  ASSUME MQTypeOK, EntriesAccountedFor, [MQNext]_mqVars
  PROVE  EntriesAccountedFor'
<1>1. ASSUME NEW s \in Item, PutSample(s) PROVE EntriesAccountedFor'
  <2>1. CASE Full
    <3>1. queue \in Seq(Item) /\ Len(queue) >= 1
      BY <2>1, QueueAssumption DEF Full, MQTypeOK
    <3>2. Len(Append(Tail(queue), s)) = Len(queue)
      BY <3>1
    <3>3. queue' = Append(Tail(queue), s)
      BY <1>1, <2>1 DEF PutSample
    <3>4. Len(queue') = Len(queue)
      BY <3>2, <3>3
    <3>5. /\ dropped_samples' = dropped_samples + 1
          /\ total_produced' = total_produced + 1
          /\ total_consumed' = total_consumed /\ cleared' = cleared
      BY <1>1, <2>1 DEF PutSample
    <3>6. Len(queue) \in Nat
      BY <3>1
    <3> QED BY <3>4, <3>5, <3>6 DEF EntriesAccountedFor, MQTypeOK
  <2>2. CASE ~ Full
    <3>1. Len(queue') = Len(queue) + 1
      BY <1>1, <2>2 DEF PutSample, MQTypeOK
    <3> QED BY <1>1, <2>2, <3>1 DEF PutSample, EntriesAccountedFor, MQTypeOK
  <2> QED BY <2>1, <2>2
<1>2. ASSUME NEW c \in Consumers, NEW data \in Item, GetSample(c, data)
        PROVE EntriesAccountedFor'
  BY <1>2 DEF GetSample, EntriesAccountedFor, MQTypeOK
<1>3. ASSUME NEW c \in Consumers, GetWaits(c) PROVE EntriesAccountedFor'
  BY <1>3 DEF GetWaits, EntriesAccountedFor, counters
<1>4. ASSUME NEW c \in Consumers, GetClosed(c) PROVE EntriesAccountedFor'
  BY <1>4 DEF GetClosed, EntriesAccountedFor, counters
<1>5. CASE ClearQueue
  BY <1>5 DEF ClearQueue, EntriesAccountedFor, MQTypeOK
<1>6. CASE Shutdown
  BY <1>6 DEF Shutdown, EntriesAccountedFor, counters
<1>7. CASE UNCHANGED mqVars
  BY <1>7 DEF mqVars, counters, EntriesAccountedFor
<1> QED BY <1>1, <1>2, <1>3, <1>4, <1>5, <1>6, <1>7, MQNextCases

(* get_statistics is right about every entry ever put                        *)
(* (message_queue.py:68-74, 101-102, 124-125).                               *)
THEOREM EntriesAccounted == MQSpec => []EntriesAccountedFor
<1>1. MQInit => EntriesAccountedFor
  BY DEF MQInit, EntriesAccountedFor
<1> QED BY <1>1, AccountingStep, MQTypeCorrect, PTL DEF MQSpec

-----------------------------------------------------------------------------
(* What is recorded is a step of the actor.                                  *)
LEMMA HistoryStep ==
  ASSUME [HistoryNext]_historyVars
  PROVE  [ActorNext]_actorVars /\ [MQNext]_mqVars
<1>1. HistoryNext => ActorNext
  <2>1. ValidateNext => ActorNext
    BY DEF ActorNext
  <2>2. MQNext /\ UNCHANGED val_queue => ActorNext
    BY DEF ActorNext
  <2> QED BY <2>1, <2>2 DEF HistoryNext, MQNext, GetRuns
<1>2. UNCHANGED historyVars => UNCHANGED actorVars
  BY DEF historyVars
<1>3. ActorNext => [MQNext]_mqVars
  BY DEF ActorNext, ValidateNext, PutValidate, GetValidate
<1>4. UNCHANGED actorVars => UNCHANGED mqVars
  BY DEF actorVars
<1> QED BY <1>1, <1>2, <1>3, <1>4

(* What is left of the log is the deque.                                     *)
Left == total_consumed + dropped_samples + cleared

HistoryInv ==
  /\ log \in Seq(Item)
  /\ got \in Seq(Item)
  /\ Len(log) = total_produced
  /\ \A i \in 1 .. Len(queue) : queue[i] = log[Left + i]

(* The four histories of a step: a put appends to the log and may take an    *)
(* entry off the old end of the deque, a get takes one off it, clear_queue   *)
(* takes all, and nothing else moves an entry.                               *)
LEMMA HistoryInvStep ==
  ASSUME MQTypeOK, EntriesAccountedFor, HistoryInv, [HistoryNext]_historyVars
  PROVE  HistoryInv'
<1> USE DEF HistoryInv
<1>t. /\ queue \in Seq(Item) /\ Len(queue) \in Nat
      /\ total_consumed \in Nat /\ dropped_samples \in Nat
      /\ cleared \in Nat /\ total_produced \in Nat /\ Left \in Nat
      /\ Len(log) = Left + Len(queue)
  BY DEF MQTypeOK, EntriesAccountedFor, Left
<1>1. ASSUME NEW s \in Item, PutSample(s), log' = Append(log, s), got' = got
      PROVE  HistoryInv'
  <2>1. /\ log' \in Seq(Item) /\ Len(log') = Len(log) + 1
        /\ \A i \in 1 .. Len(log) : log'[i] = log[i]
        /\ log'[Len(log) + 1] = s
    BY <1>1
  <2>2. total_produced' = total_produced + 1
    BY <1>1 DEF PutSample
  <2>3. CASE Full
    <3>1. Len(queue) >= 1
      BY <2>3, QueueAssumption, <1>t DEF Full
    <3>a. /\ queue' = Append(Tail(queue), s)
          /\ dropped_samples' = dropped_samples + 1
          /\ total_consumed' = total_consumed /\ cleared' = cleared
      BY <1>1, <2>3 DEF PutSample
    <3>2. queue' = Append(Tail(queue), s) /\ Left' = Left + 1
      BY <3>a, <1>t DEF Left
    <3>3. /\ Tail(queue) \in Seq(Item) /\ Len(Tail(queue)) = Len(queue) - 1
          /\ \A i \in 1 .. Len(queue) - 1 : Tail(queue)[i] = queue[i + 1]
      BY <3>1, <1>t
    <3>4. /\ Len(queue') = Len(queue)
          /\ \A i \in 1 .. Len(queue) - 1 : queue'[i] = queue[i + 1]
          /\ queue'[Len(queue)] = s
      BY <3>2, <3>3, <1>t, <3>1
    <3>5. ASSUME NEW i \in 1 .. Len(queue') PROVE queue'[i] = log'[Left' + i]
      <4>1. CASE i = Len(queue)
        BY <4>1, <3>4, <3>2, <2>1, <1>t
      <4>2. CASE i \in 1 .. Len(queue) - 1
        <5>1. queue'[i] = log[Left + (i + 1)]
          BY <4>2, <3>4, <1>t
        <5>2. Left + (i + 1) \in 1 .. Len(log) /\ Left' + i = Left + (i + 1)
          BY <4>2, <3>2, <1>t
        <5> QED BY <5>1, <5>2, <2>1
      <4> QED BY <4>1, <4>2, <3>4, <1>t
    <3> QED BY <3>5, <2>1, <2>2, <1>1
  <2>4. CASE ~ Full
    <3>1. queue' = Append(queue, s) /\ Left' = Left
      BY <1>1, <2>4 DEF PutSample, Left
    <3>2. /\ Len(queue') = Len(queue) + 1
          /\ \A i \in 1 .. Len(queue) : queue'[i] = queue[i]
          /\ queue'[Len(queue) + 1] = s
      BY <3>1, <1>t
    <3>3. ASSUME NEW i \in 1 .. Len(queue') PROVE queue'[i] = log'[Left' + i]
      <4>1. CASE i = Len(queue) + 1
        BY <4>1, <3>1, <3>2, <2>1, <1>t
      <4>2. CASE i \in 1 .. Len(queue)
        <5>1. queue'[i] = log[Left + i] /\ Left + i \in 1 .. Len(log)
          BY <4>2, <3>2, <1>t
        <5> QED BY <5>1, <3>1, <2>1
      <4> QED BY <4>1, <4>2, <3>2, <1>t
    <3> QED BY <3>3, <2>1, <2>2, <1>1
  <2> QED BY <2>3, <2>4
<1>2. ASSUME NEW c \in Consumers, NEW data \in Item, GetSample(c, data),
             got' = Append(got, data), log' = log
      PROVE  HistoryInv'
  <2>1. /\ queue # <<>> /\ queue' = Tail(queue) /\ Left' = Left + 1
        /\ total_produced' = total_produced
    BY <1>2, <1>t DEF GetSample, Left
  <2>2. /\ Len(queue') = Len(queue) - 1
        /\ \A i \in 1 .. Len(queue) - 1 : queue'[i] = queue[i + 1]
    BY <2>1, <1>t
  <2>3. ASSUME NEW i \in 1 .. Len(queue') PROVE queue'[i] = log'[Left' + i]
    <3>1. i + 1 \in 1 .. Len(queue) /\ Left' + i = Left + (i + 1)
      BY <2>1, <2>2, <1>t
    <3> QED BY <3>1, <2>2, <1>2
  <2>4. got' \in Seq(Item)
    BY <1>2
  <2> QED BY <2>1, <2>3, <2>4, <1>2
<1>3. CASE ClearQueue /\ UNCHANGED <<log, got>>
  BY <1>3 DEF ClearQueue
<1>4. CASE UNCHANGED <<mqVars, log, got>>
  BY <1>4 DEF mqVars, counters, Left
<1>5. CASE /\ (\E c \in Consumers : GetWaits(c) \/ GetClosed(c)) \/ Shutdown
           /\ UNCHANGED <<log, got>>
  BY <1>5 DEF GetWaits, GetClosed, Shutdown, counters, Left
<1>6. CASE ValidateNext /\ UNCHANGED <<log, got>>
  BY <1>6, <1>4 DEF ValidateNext, PutValidate, GetValidate
<1> QED BY <1>1, <1>2, <1>3, <1>4, <1>5, <1>6
           DEF HistoryNext, historyVars, actorVars

(* Every step of the actor is a step of the drop-oldest channel or invisible *)
(* to its users.                                                             *)
LEMMA ChannelStep ==
  ASSUME MQTypeOK, EntriesAccountedFor, HistoryInv, [HistoryNext]_historyVars
  PROVE  [Channel!ChNext]_(Channel!chVars)
<1> USE DEF Channel!chVars
<1>t. /\ queue \in Seq(Item) /\ Len(queue) \in Nat
      /\ total_consumed \in Nat /\ dropped_samples \in Nat
      /\ cleared \in Nat /\ total_produced \in Nat
      /\ Len(log) - (total_consumed + dropped_samples + cleared) = Len(queue)
      /\ Len(queue) <= MaxQueueSize
  BY DEF MQTypeOK, EntriesAccountedFor, HistoryInv
<1>1. ASSUME NEW s \in Item, PutSample(s), log' = Append(log, s), got' = got
      PROVE  Channel!Put(s) \/ Channel!PutFull(s)
  <2>1. CASE Full
    <3>1. /\ dropped_samples' = dropped_samples + 1
          /\ total_consumed' = total_consumed /\ cleared' = cleared
      BY <1>1, <2>1 DEF PutSample
    <3>2. Len(queue) = MaxQueueSize
      BY <2>1, <1>t, QueueAssumption DEF Full
    <3> QED BY <1>1, <3>1, <3>2, <1>t DEF Channel!PutFull, Channel!Size
  <2>2. CASE ~ Full
    <3>1. UNCHANGED <<dropped_samples, total_consumed, cleared>>
      BY <1>1, <2>2 DEF PutSample
    <3>2. Len(queue) < MaxQueueSize
      BY <2>2, <1>t, QueueAssumption DEF Full
    <3> QED BY <1>1, <3>1, <3>2, <1>t DEF Channel!Put, Channel!Size
  <2> QED BY <2>1, <2>2
<1>2. ASSUME NEW c \in Consumers, NEW data \in Item, GetSample(c, data),
             got' = Append(got, data), log' = log
      PROVE  Channel!Take
  <2>1. /\ queue # <<>> /\ data = queue[1]
        /\ total_consumed' = total_consumed + 1
        /\ dropped_samples' = dropped_samples /\ cleared' = cleared
    BY <1>2, <1>t DEF GetSample
  <2>2. 1 \in 1 .. Len(queue)
    BY <2>1, <1>t
  <2>3. data = log[total_consumed + dropped_samples + cleared + 1]
    BY <2>1, <2>2 DEF HistoryInv, Left
  <2> QED BY <2>1, <2>2, <2>3, <1>2, <1>t DEF Channel!Take, Channel!Size
<1>3. CASE ClearQueue /\ UNCHANGED <<log, got>>
  <2>1. Channel!Clear
    BY <1>3, <1>t DEF ClearQueue, Channel!Clear
  <2> QED BY <2>1 DEF Channel!ChNext
<1>4. CASE UNCHANGED <<mqVars, log, got>>
  BY <1>4 DEF mqVars, counters
<1>5. CASE /\ (\E c \in Consumers : GetWaits(c) \/ GetClosed(c)) \/ Shutdown
           /\ UNCHANGED <<log, got>>
  BY <1>5 DEF GetWaits, GetClosed, Shutdown, counters
<1>6. CASE ValidateNext /\ UNCHANGED <<log, got>>
  BY <1>6, <1>4 DEF ValidateNext, PutValidate, GetValidate
<1> QED BY <1>1, <1>2, <1>3, <1>4, <1>5, <1>6
           DEF HistoryNext, historyVars, actorVars, Channel!ChNext

(* The actor with its second queue, of validation results, and its recorder: *)
(* put_validate and get_validate leave the samples alone                     *)
(* (message_queue.py:170-179), so all of the above holds of the whole actor. *)
THEOREM ActorCorrect ==
  ActorSpec => [](MQTypeOK /\ NoLostWakeup /\ EntriesAccountedFor)
<1>1. ActorInit => MQInit
  BY DEF ActorInit
<1>2. [ActorNext]_actorVars => [MQNext]_mqVars
  <2>1. ActorNext => [MQNext]_mqVars
    BY DEF ActorNext, ValidateNext, PutValidate, GetValidate
  <2>2. UNCHANGED actorVars => UNCHANGED mqVars
    BY DEF actorVars
  <2> QED BY <2>1, <2>2
<1>3. ActorSpec => MQSpec
  BY <1>1, <1>2, PTL DEF ActorSpec, MQSpec
<1> QED BY <1>3, MQTypeCorrect, NoWakeupLost, EntriesAccounted, PTL

(* What a user may rely on: whatever callers wait, are woken or are          *)
(* overtaken, get_sample hands out what put_sample was given, oldest first,  *)
(* less what full puts dropped and clear_queue removed, each at the old end  *)
(* (message_queue.py:68-74, 93-102, 122-125).                                *)
THEOREM QueueImplementsChannel == HistorySpec => ImplementsChannel
<1>1. HistoryInit => Channel!ChInit
  BY DEF HistoryInit, ActorInit, MQInit, Channel!ChInit
<1>2. HistoryInit => HistoryInv
  BY DEF HistoryInit, ActorInit, MQInit, HistoryInv
<1>3. HistorySpec => ActorSpec
  <2>1. HistoryInit => ActorInit
    BY DEF HistoryInit
  <2>2. [HistoryNext]_historyVars => [ActorNext]_actorVars
    BY HistoryStep
  <2> QED BY <2>1, <2>2, PTL DEF HistorySpec, ActorSpec
<1>4. HistorySpec => [](MQTypeOK /\ EntriesAccountedFor)
  BY <1>3, ActorCorrect, PTL
<1>5. HistorySpec => []HistoryInv
  BY <1>2, <1>4, HistoryInvStep, PTL DEF HistorySpec
<1> QED BY <1>1, <1>4, <1>5, ChannelStep, PTL
           DEF HistorySpec, ImplementsChannel, Channel!ChSpec
=============================================================================
