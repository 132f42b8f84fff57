---------------------------- MODULE MCMicroBatches ----------------------------
(* Batches of four to six samples, for each of the callers. *)
EXTENDS MicroBatches
Sizes == [micro |-> 5, grouped |-> 6, ranks |-> 6, prefix |-> 6]
=============================================================================
