--------------------------- MODULE MCRunCheckpoint ---------------------------
(* Values for the model checker: the parts that are saved and how many       *)
(* checkpoints of each are kept.                                             *)
EXTENDS RunCheckpoint

ActorAndCritic == <<"actor", "critic">>
KeepOneOrTwo == {[actor |-> n, critic |-> n] : n \in {1, 2}}
=============================================================================
