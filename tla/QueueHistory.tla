---------------------------- MODULE QueueHistory ----------------------------
(***************************************************************************)
(* The MessageQueue actor as its users see it: what put_sample was called  *)
(* with and what get_sample returned, each in order, recorded beside the   *)
(* actor's own state.  The recorder only watches: it takes the arguments   *)
(* and results of the actor's steps, never its deque, and forbids none.    *)
(***************************************************************************)
EXTENDS QueueActor

VARIABLES
  log,    (* the samples of all calls of put_sample                          *)
  got     (* the data all calls of get_sample have returned                  *)

historyVars == <<actorVars, log, got>>

HistoryInit == ActorInit /\ log = <<>> /\ got = <<>>

HistoryNext ==
  \/ \E s \in Item :
       /\ total_produced < MaxPuts
       /\ PutSample(s)
       /\ log' = Append(log, s)
       /\ UNCHANGED <<val_queue, got>>
  \/ \E c \in Consumers, data \in Item :
       /\ GetSample(c, data)
       /\ got' = Append(got, data)
       /\ UNCHANGED <<val_queue, log>>
  \/ /\ \/ \E c \in Consumers : GetWaits(c) \/ GetClosed(c)
        \/ ClearQueue
        \/ Shutdown
     /\ UNCHANGED <<val_queue, log, got>>
  \/ ValidateNext /\ UNCHANGED <<log, got>>

HistorySpec == HistoryInit /\ [][HistoryNext]_historyVars

-----------------------------------------------------------------------------
Channel == INSTANCE DropOldestChannel WITH
  Entry <- Item,
  Capacity <- MaxQueueSize,
  head <- total_consumed + dropped_samples + cleared,
  lost <- dropped_samples,
  taken <- got

(* The message queue implements the drop-oldest channel: whatever callers   *)
(* wait, are woken or are overtaken, what they are handed is what was put,  *)
(* oldest first, without what full puts dropped and clear_queue removed     *)
(* (lines 68-74, 93-102 and 122-125 of message_queue.py).                   *)
ImplementsChannel == Channel!ChSpec
=============================================================================
