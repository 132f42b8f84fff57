---------------------------- MODULE MCRewardLimits ----------------------------
(* One request a tick; the tokens of a request are more than the bucket of   *)
(* the token limiter holds, as with the default of 2000 below 120000 a       *)
(* minute.                                                                   *)
EXTENDS RewardLimits
MCRate == [rpm |-> 1, tpm |-> 1]
MCCapacity == [rpm |-> 1, tpm |-> 1]
MCNeed == [rpm |-> 1, tpm |-> 2]
=============================================================================
