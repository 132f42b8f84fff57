----------------------------- MODULE QueueActor -----------------------------
(***************************************************************************)
(* The whole MessageQueue actor: the sample queue of MessageQueue, and     *)
(* beside it the queue of validation results, which has no limit, no       *)
(* waiting and no statistics, and which neither clear_queue nor shutdown   *)
(* touches.  Its get returns None when it is empty and changes nothing.    *)
(***************************************************************************)
EXTENDS MessageQueue

CONSTANT MaxValidate  (* bound of the model: results waiting at one time *)

VARIABLE val_queue

actorVars == <<mqVars, val_queue>>

PutValidate(data) ==
  /\ val_queue' = Append(val_queue, data)
  /\ UNCHANGED mqVars

GetValidate ==
  /\ val_queue # <<>>
  /\ val_queue' = Tail(val_queue)
  /\ UNCHANGED mqVars

ValidateNext ==
  \/ \E data \in Item : Len(val_queue) < MaxValidate /\ PutValidate(data)
  \/ GetValidate

ActorInit == MQInit /\ val_queue = <<>>
ActorNext == (MQNext /\ UNCHANGED val_queue) \/ ValidateNext

ActorSpec == ActorInit /\ [][ActorNext]_actorVars
=============================================================================
