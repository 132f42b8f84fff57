--------------------------- MODULE MCReplayBuffer ---------------------------
(* Values for the model checker: a validation of two batches, then two       *)
(* training steps, the first followed by a validation batch.                 *)
EXTENDS ReplayBuffer

ValidateAndTrain ==
  << [partition |-> "val", step |-> 0], [partition |-> "val", step |-> 0],
     [partition |-> "train", step |-> 1], [partition |-> "train", step |-> 2] >>
TwoValidations ==
  << [partition |-> "val", step |-> 0], [partition |-> "val", step |-> 0] >>
=============================================================================
