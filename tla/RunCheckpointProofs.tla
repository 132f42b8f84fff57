------------------------- MODULE RunCheckpointProofs -------------------------
(***************************************************************************)
(* For every size of the run, of its batches and of its saves, any number  *)
(* of restarts and a crash at any moment: no sample is trained twice in a  *)
(* model's lineage, a resume skips no more than was in flight at the save, *)
(* and no resumed run makes more versions than planned.  The invariant     *)
(* relates what the tracker names on disk to what the job that wrote it,   *)
(* and the one that reads it, hold in memory.  What the tracker names is   *)
(* complete, and the number of checkpoints on disk stays within the limit, *)
(* for which every folder of this life must be on the list of saved paths. *)
(***************************************************************************)
EXTENDS RunCheckpoint, FiniteSetTheorems, SequenceTheorems, TLAPS

Bound(r) == Planned + (IF PerVersion = 1 THEN r ELSE 0)

(* Lives of the job that may have written the checkpoint the tracker names. *)
Lives == IF status = "down" THEN restarts ELSE restarts + 1

(* A model that was saved at a position of the dataloader: trained before   *)
(* it, and at most n samples short of it.                                   *)
TrainedUpTo(trained, end, n) ==
  /\ IsFiniteSet(trained)
  /\ trained \subseteq 0 .. end - 1
  /\ end - Cardinality(trained) <= n

(* What the tracker names. *)
Named ==
  tracker \in Version =>
    /\ tracker >= 1 /\ Lives >= 1 /\ tracker <= Bound(Lives - 1)
    /\ dataFile[tracker] \in Nat
    /\ TrainedUpTo(weights[tracker], dataFile[tracker], MaxInFlight * Lives)

(* What is fed is new, and waits in flight or is trained, or was skipped.    *)
Lineage ==
  /\ IsFiniteSet(model) /\ IsFiniteSet(inFlight)
  /\ Alive =>
       /\ model \subseteq 0 .. position - 1 /\ inFlight \subseteq 0 .. position - 1
       /\ model \cap inFlight = {}
       /\ Cardinality(inFlight) <= MaxInFlight
       /\ position - Cardinality(model) - Cardinality(inFlight)
            <= MaxInFlight * restarts

(* The versions and local updates made, and what is in flight for more, use *)
(* up what the feeder has counted, one more once it has stopped.             *)
Counted ==
  /\ current_param_version <= Bound(restarts)
  /\ Alive =>
       /\ current_param_version * PerVersion
            + (local_trigger_step - 1) * RequiredSamples + Cardinality(inFlight)
              <= IF feeding THEN global_steps - 1 ELSE global_steps
       /\ \/ global_steps <= TotalSteps
          \/ restarts >= 1 /\ global_steps <= Bound(restarts - 1) * PerVersion + 1

(* A save in progress: the version is a new one, and what has been written  *)
(* of it is the model, which waits for the save.                             *)
ActorWritten ==
  part > 1 \/ saving \in {"register", "data", "dataOpen", "tracker", "trackerOpen"}
Saving ==
  Alive =>
    /\ tracker = Missing => last_ckpt_version = 0
    /\ tracker = Torn => saving = "trackerOpen"
    /\ tracker \in Version => last_ckpt_version = tracker
    /\ last_ckpt_version <= current_param_version
    /\ saving # "idle" =>
         /\ last_ckpt_version # current_param_version
         /\ ActorWritten => weights[current_param_version] = model
         /\ saving \in {"tracker", "trackerOpen"} =>
              /\ dataFile[current_param_version] \in Nat
              /\ TrainedUpTo(model, dataFile[current_param_version],
                             MaxInFlight * (restarts + 1))

CkInv == CheckpointTypeOK /\ Named /\ Lineage /\ Counted /\ Saving

-----------------------------------------------------------------------------
(* Arithmetic of the bounds.                                                *)
LEMMA ProductPositive ==
  ASSUME NEW a \in Nat \ {0}, NEW b \in Nat \ {0}
  PROVE  a * b \in Nat \ {0}
OBVIOUS

(* What the assumption says of the sizes of a run. *)
LEMMA Constants ==
  /\ {TotalSteps, RequiredSamples, TriggerSync, MaxInFlight, DataSize} \subseteq Nat \ {0}
  /\ MaxRestarts \in Nat /\ PerVersion \in Nat \ {0} /\ Planned \in Nat
<1>1. PerVersion \in Nat \ {0}
  BY RunCheckpointAssumption, ProductPositive DEF PerVersion
<1> HIDE DEF PerVersion
<1>2. Planned \in Nat
  BY <1>1, RunCheckpointAssumption DEF Planned
<1> QED BY <1>1, <1>2, RunCheckpointAssumption

(* The bound on versions lies in Version and grows with the restarts. *)
LEMMA BoundType ==
  ASSUME NEW r \in 0 .. MaxRestarts
  PROVE  /\ Bound(r) \in Version
         /\ \A q \in 0 .. r : Bound(q) \in Version /\ Bound(q) <= Bound(r)
BY Constants DEF Bound, Version

(* c whole versions within the planned samples are no more than planned. *)
LEMMA WithinPlan ==
  ASSUME NEW c \in Nat, NEW n \in Nat, NEW b \in Nat \ {0}, c * b <= n
  PROVE  c <= n \div b
OBVIOUS

(* One sample too many makes a version more only if a version takes one.    *)
LEMMA OneMore ==
  ASSUME NEW c \in Nat, NEW k \in Nat, NEW b \in Nat \ {0}, c * b <= k * b + 1
  PROVE  c <= IF b = 1 THEN k + 1 ELSE k
<1>1. CASE b = 1
  BY <1>1
<1>2. CASE b # 1
  <2> SUFFICES ASSUME ~ (c <= k) PROVE FALSE
    BY <1>2
  <2>1. PICK d \in Nat : c = k + 1 + d
    <3>1. c - k - 1 \in Nat
      OBVIOUS
    <3> QED BY <3>1
  <2>2. c * b = k * b + b + d * b
    BY <2>1
  <2>3. d * b \in Nat /\ k * b \in Nat
    OBVIOUS
  <2> QED BY <1>2, <2>2, <2>3
<1> QED BY <1>1, <1>2

(* The products the planned samples are counted in. *)
LEMMA NextMultiple ==
  ASSUME NEW m \in Nat, NEW r \in Nat
  PROVE  m * r \in Nat /\ m * (r + 1) = m * r + m
OBVIOUS

LEMMA Monotone ==
  ASSUME NEW a \in Nat, NEW c \in Nat, NEW b \in Nat, a <= c
  PROVE  a * b \in Nat /\ c * b \in Nat /\ a * b <= c * b
<1>1. PICK d \in Nat : c = a + d
  <2>1. c - a \in Nat
    OBVIOUS
  <2> QED BY <2>1
<1>2. c * b = a * b + d * b /\ d * b \in Nat /\ a * b \in Nat
  BY <1>1
<1> QED BY <1>2

(* What the counting gives: the version reached is within the bound.        *)
LEMMA VersionBounded ==
  ASSUME NEW c \in Nat, NEW g \in Nat, NEW r \in 0 .. MaxRestarts,
         c * PerVersion <= g,
         \/ g <= TotalSteps
         \/ r >= 1 /\ g <= Bound(r - 1) * PerVersion + 1
  PROVE  c <= Bound(r)
<1>1. PerVersion \in Nat \ {0} /\ Planned \in Nat /\ TotalSteps \in Nat
  BY Constants
<1>2. c * PerVersion \in Nat
  BY <1>1
<1>3. CASE g <= TotalSteps
  <2>1. c * PerVersion <= TotalSteps
    BY <1>1, <1>2, <1>3
  <2>2. c <= TotalSteps \div PerVersion
    BY <1>1, <2>1, WithinPlan
  <2> QED BY <1>1, <2>2 DEF Bound, Planned
<1>4. CASE r >= 1 /\ g <= Bound(r - 1) * PerVersion + 1
  <2>1. Bound(r - 1) \in Nat
    BY <1>1, <1>4 DEF Bound
  <2>2. Bound(r - 1) * PerVersion \in Nat
    BY <1>1, <2>1
  <2>3. c * PerVersion <= Bound(r - 1) * PerVersion + 1
    BY <1>2, <1>4, <2>2
  <2>4. c <= IF PerVersion = 1 THEN Bound(r - 1) + 1 ELSE Bound(r - 1)
    BY <1>1, <2>1, <2>3, OneMore
  <2> QED BY <1>1, <1>4, <2>4 DEF Bound
<1> QED BY <1>3, <1>4

-----------------------------------------------------------------------------
(* Finite sets.                                                             *)
LEMMA EmptyTrained ==
  /\ IsFiniteSet({}) /\ Cardinality({}) = 0
BY FS_EmptySet

(* A larger allowance of skipped samples is a weaker claim. *)
LEMMA TrainedWeaker ==
  ASSUME NEW t, NEW end \in Int, NEW n \in Int, NEW m \in Int, n <= m,
         TrainedUpTo(t, end, n)
  PROVE  TrainedUpTo(t, end, m)
<1>1. Cardinality(t) \in Nat
  BY FS_CardinalityType DEF TrainedUpTo
<1> QED BY <1>1 DEF TrainedUpTo

(* A life more allows more to be skipped. *)
LEMMA AnotherLife ==
  ASSUME NEW r \in Nat
  PROVE  /\ MaxInFlight * r \in Nat /\ MaxInFlight * (r + 1) \in Nat
         /\ MaxInFlight * (r + 1) = MaxInFlight * r + MaxInFlight
         /\ MaxInFlight * r <= MaxInFlight * (r + 1)
<1>1. MaxInFlight \in Nat
  BY Constants
<1> QED BY <1>1, NextMultiple

-----------------------------------------------------------------------------
(* The job before its first start, with no file of a checkpoint. *)
LEMMA InitCheckpoint == Init => CkInv
<1> SUFFICES ASSUME Init PROVE CkInv
  OBVIOUS
<1>1. 0 \in Version /\ 1 \in DOMAIN Parts /\ 1 \in 1 .. TriggerSync
  BY Constants, RunCheckpointAssumption DEF Version
<1>2. CheckpointTypeOK
  BY <1>1, Constants DEF Init, CheckpointTypeOK
<1>3. tracker \notin Version /\ ~ Alive
  BY Constants DEF Init, Version, Missing, Alive
<1>4. current_param_version <= Bound(restarts)
  BY Constants, BoundType DEF Init, Bound
<1>5. Lineage
  BY <1>3, EmptyTrained DEF Init, Lineage
<1> QED BY <1>2, <1>3, <1>4, <1>5 DEF CkInv, Named, Counted, Saving

(* What a start resumes from is what the tracker names, or nothing. *)
LEMMA LatestNamed ==
  ASSUME CkInv, tracker # Torn
  PROVE  \/ tracker = Missing /\ Latest = 0
         \/ tracker \in Version /\ Latest = tracker /\ tracker >= 1
<1>1. CASE tracker = Missing
  BY <1>1 DEF Latest
<1>2. CASE tracker \in Version
  <2>1. dataFile[tracker] \in Nat /\ tracker >= 1
    BY <1>2 DEF CkInv, Named
  <2>2. dataFile[tracker] # Missing /\ tracker # Missing
    BY <2>1, <1>2, Constants DEF Missing, Version
  <2>3. Latest = tracker
    BY <2>2 DEF Latest
  <2> QED BY <2>1, <2>3, <1>2
<1> QED BY <1>1, <1>2 DEF CkInv, CheckpointTypeOK

(* A life from scratch. *)
LEMMA StartAfresh ==
  ASSUME CkInv, Start, tracker = Missing, Latest = 0
  PROVE  CkInv'
<1>1. /\ status' = "up" /\ restarts' = restarts /\ saving' = "idle" /\ inFlight' = {}
      /\ UNCHANGED <<keep, dir, weights, dataFile, tracker>>
      /\ local_trigger_step' = 1 /\ part' = 1 /\ feeding' = TRUE
      /\ previous_saved_paths' = [p \in Part |-> <<>>]
  BY DEF Start, files
<1>2. /\ current_param_version' = 0 /\ last_ckpt_version' = 0 /\ model' = {}
      /\ position' = 0 /\ global_steps' = 0 * PerVersion + 1
  BY DEF Start, Resume, ResumedPosition, ResumedSteps, ResumedCkpt
<1>3. global_steps' = 1 /\ 0 * PerVersion = 0 /\ 0 * RequiredSamples = 0
  BY <1>2, Constants
<1>4. 0 \in Version /\ 1 \in DOMAIN Parts /\ 1 \in 1 .. TriggerSync /\ tracker \notin Version
  BY Constants, RunCheckpointAssumption DEF Version, Missing
<1>5. restarts \in 0 .. MaxRestarts /\ 0 <= Bound(restarts) /\ 1 <= TotalSteps
  BY BoundType, Constants DEF CkInv, CheckpointTypeOK, Version
<1>6. CheckpointTypeOK'
  BY <1>1, <1>2, <1>3, <1>4 DEF CkInv, CheckpointTypeOK
<1>7. Lineage'
  <2>1. MaxInFlight * restarts \in Nat /\ MaxInFlight \in Nat
    BY <1>5, NextMultiple, Constants
  <2> QED BY <1>1, <1>2, <2>1, EmptyTrained DEF Lineage
<1>8. Counted'
  BY <1>1, <1>2, <1>3, <1>5, EmptyTrained DEF Counted, Bound
<1> QED BY <1>1, <1>2, <1>4, <1>6, <1>7, <1>8 DEF CkInv, Named, Saving, Missing, Torn

(* A life that resumes from what the tracker names. *)
LEMMA StartResumed ==
  ASSUME CkInv, Start, tracker \in Version, Latest = tracker, tracker >= 1
  PROVE  CkInv'
<1>1. /\ status' = "up" /\ restarts' = restarts /\ saving' = "idle" /\ inFlight' = {}
      /\ UNCHANGED <<keep, dir, weights, dataFile, tracker>>
      /\ local_trigger_step' = 1 /\ part' = 1 /\ feeding' = TRUE
      /\ previous_saved_paths' = [p \in Part |-> <<>>]
  BY DEF Start, files
<1>2. /\ restarts \in 0 .. MaxRestarts /\ Lives = restarts /\ Lives' = restarts + 1
      /\ tracker \in Nat /\ tracker <= Bound(restarts - 1) /\ restarts >= 1
      /\ dataFile[tracker] \in Nat
      /\ TrainedUpTo(weights[tracker], dataFile[tracker], MaxInFlight * restarts)
  BY <1>1, Constants DEF CkInv, CheckpointTypeOK, Named, Lives, Version, Start
<1>3. /\ current_param_version' = tracker /\ last_ckpt_version' = tracker
      /\ model' = weights[tracker] /\ position' = dataFile[tracker]
      /\ global_steps' = tracker * PerVersion + 1
  BY <1>2 DEF Start, Resume, ResumedPosition, ResumedSteps, ResumedCkpt, Missing
<1>4. tracker * PerVersion \in Nat /\ 0 * RequiredSamples = 0
  BY <1>2, Constants
<1>5. /\ Bound(restarts - 1) \in Nat /\ Bound(restarts) \in Nat
      /\ Bound(restarts - 1) <= Bound(restarts)
  BY <1>2, Constants DEF Bound
<1>6. CheckpointTypeOK'
  <2>1. 1 \in DOMAIN Parts /\ 1 \in 1 .. TriggerSync
    BY Constants, RunCheckpointAssumption
  <2>2. global_steps' \in Nat \ {0} /\ model' \in SUBSET Nat
    BY <1>2, <1>3, <1>4 DEF CkInv, CheckpointTypeOK
  <2> QED BY <1>1, <1>2, <1>3, <2>1, <2>2 DEF CkInv, CheckpointTypeOK
<1>7. Lineage'
  <2>1. MaxInFlight * restarts \in Nat /\ MaxInFlight \in Nat
    BY <1>2, NextMultiple, Constants
  <2>2. Cardinality(model') \in Nat
    BY <1>2, <1>3, FS_CardinalityType DEF TrainedUpTo
  <2> QED BY <1>1, <1>2, <1>3, <2>1, <2>2, EmptyTrained DEF Lineage, TrainedUpTo
<1>8. Counted'
  <2>1. tracker * PerVersion <= Bound(restarts - 1) * PerVersion
        /\ Bound(restarts - 1) * PerVersion \in Nat
    BY <1>2, <1>5, Constants, Monotone
  <2>2. tracker <= Bound(restarts)
    BY <1>2, <1>5
  <2>3. global_steps' <= Bound(restarts - 1) * PerVersion + 1
    BY <1>3, <1>4, <2>1
  <2>4. tracker * PerVersion + (1 - 1) * RequiredSamples + 0 <= global_steps' - 1
    BY <1>3, <1>4
  <2> QED BY <1>1, <1>2, <1>3, <2>2, <2>3, <2>4, EmptyTrained DEF Counted, Bound
<1>9. Named'
  <2>1. /\ MaxInFlight * restarts \in Int /\ MaxInFlight * (restarts + 1) \in Int
        /\ MaxInFlight * restarts <= MaxInFlight * (restarts + 1)
    <3>1. restarts \in Nat
      BY <1>2
    <3> QED BY <3>1, AnotherLife
  <2>2. TrainedUpTo(weights[tracker], dataFile[tracker], MaxInFlight * (restarts + 1))
    BY <1>2, <2>1, TrainedWeaker
  <2>3. tracker <= Bound(restarts) /\ restarts + 1 >= 1 /\ (restarts + 1) - 1 = restarts
    BY <1>2, <1>5
  <2>4. TrainedUpTo(weights[tracker], dataFile[tracker], MaxInFlight * (restarts + 1))'
    BY <1>1, <2>2 DEF TrainedUpTo
  <2>5. tracker' <= Bound(Lives' - 1) /\ Lives' >= 1 /\ dataFile'[tracker'] \in Nat
    BY <1>1, <1>2, <2>3
  <2> QED BY <1>1, <1>2, <2>4, <2>5 DEF Named, Bound
<1>10. Saving'
  <2>1. tracker # Missing /\ tracker # Torn
    BY <1>2 DEF Missing, Torn
  <2> QED BY <1>1, <1>3, <1>2, <2>1 DEF Saving
<1> QED BY <1>6, <1>7, <1>8, <1>9, <1>10 DEF CkInv

(* A start of the job: from the beginning or from what the tracker names. *)
LEMMA StartKeeps ==
  ASSUME CkInv, Start
  PROVE  CkInv'
BY LatestNamed, StartAfresh, StartResumed DEF Start

(* A crash leaves what the tracker names, to a life more. *)
LEMMA CrashKeeps ==
  ASSUME CkInv, Crash
  PROVE  CkInv'
<1>1. /\ status # "down" /\ status' = "down" /\ restarts' = restarts + 1
      /\ restarts \in 0 .. MaxRestarts /\ restarts' \in 0 .. MaxRestarts
      /\ UNCHANGED <<keep, dir, weights, dataFile, tracker, saving, part, model,
           current_param_version, local_trigger_step, last_ckpt_version,
           previous_saved_paths, position, global_steps, feeding, inFlight>>
  BY Constants DEF CkInv, CheckpointTypeOK, Crash, files, save, train, rollout
<1>2. CheckpointTypeOK'
  BY <1>1 DEF CkInv, CheckpointTypeOK
<1>3. Lives' = Lives /\ ~ Alive'
  BY <1>1 DEF Lives, Alive
<1>4. Named'
  BY <1>1, <1>3 DEF CkInv, Named, TrainedUpTo, Bound
<1>5. current_param_version' <= Bound(restarts')
  <2>1. /\ Bound(restarts) \in Nat /\ Bound(restarts') \in Nat
        /\ Bound(restarts) <= Bound(restarts') /\ current_param_version \in Nat
    BY <1>1, Constants DEF Bound, CkInv, CheckpointTypeOK, Version
  <2> QED BY <1>1, <2>1 DEF CkInv, Counted
<1> QED BY <1>1, <1>2, <1>3, <1>4, <1>5 DEF CkInv, Lineage, Counted, Saving, Bound

-----------------------------------------------------------------------------
(* What is untouched by a step that leaves the files of the named checkpoint*)
(* and the lives of the job as they are.                                    *)
LEMMA NamedKept ==
  ASSUME Named, UNCHANGED <<tracker, restarts>>, status # "down", status' # "down",
         tracker \in Version => /\ dataFile'[tracker] = dataFile[tracker]
                               /\ weights'[tracker] = weights[tracker]
  PROVE  Named'
BY DEF Named, Lives, TrainedUpTo, Bound

(* Steps that touch neither the model nor the samples. *)
LEMMA LineageKept ==
  ASSUME Lineage, Alive, UNCHANGED <<restarts, model, inFlight, position>>
  PROVE  Lineage'
BY DEF Lineage

LEMMA CountedKept ==
  ASSUME Counted, Alive,
         UNCHANGED <<restarts, current_param_version, local_trigger_step, inFlight,
                     feeding, global_steps>>
  PROVE  Counted'
BY DEF Counted, Bound

(* The named checkpoint is not the one being written. *)
LEMMA NewVersion ==
  ASSUME CkInv, Alive, saving # "idle"
  PROVE  /\ tracker \in Version => tracker # current_param_version
         /\ current_param_version >= 1
         /\ current_param_version \in Version
         /\ last_ckpt_version < current_param_version
BY Constants DEF CkInv, Saving, CheckpointTypeOK, Version

(* The feeder reads a sample that nobody has had. *)
LEMMA FeedKeeps ==
  ASSUME CkInv, FeedSample
  PROVE  CkInv'
<1>1. /\ Alive /\ feeding /\ Cardinality(inFlight) < MaxInFlight
      /\ inFlight' = inFlight \cup {position} /\ position' = position + 1
      /\ UNCHANGED <<keep, dir, weights, dataFile, tracker, status, restarts, saving,
           part, model, current_param_version, local_trigger_step, last_ckpt_version,
           previous_saved_paths>>
  BY DEF FeedSample, Feeding, files, job, save, train
<1>2. /\ position \in Nat /\ global_steps \in Nat \ {0} /\ inFlight \in SUBSET Nat
      /\ restarts \in Nat /\ current_param_version \in Nat /\ local_trigger_step \in Nat
      /\ local_trigger_step >= 1 /\ model \subseteq Nat
  BY Constants DEF CkInv, CheckpointTypeOK, Version
<1>3. /\ IsFiniteSet(inFlight) /\ IsFiniteSet(model)
      /\ model \subseteq 0 .. position - 1 /\ inFlight \subseteq 0 .. position - 1
      /\ model \cap inFlight = {}
      /\ position - Cardinality(model) - Cardinality(inFlight) <= MaxInFlight * restarts
  BY <1>1 DEF CkInv, Lineage
<1>4. position \notin inFlight /\ position \notin model
  BY <1>2, <1>3
<1>5. /\ IsFiniteSet(inFlight') /\ Cardinality(inFlight') = Cardinality(inFlight) + 1
      /\ Cardinality(inFlight) \in Nat /\ Cardinality(model) \in Nat
  BY <1>1, <1>3, <1>4, FS_AddElement, FS_CardinalityType
<1>6. /\ feeding' \in BOOLEAN
      /\ global_steps' = IF feeding' THEN global_steps + 1 ELSE global_steps
      /\ feeding' => global_steps < TotalSteps
  <2>1. CASE LastFed
    BY <2>1 DEF FeedSample
  <2>2. CASE ~ LastFed
    <3>1. feeding' = TRUE /\ global_steps' = global_steps + 1
      BY <2>2 DEF FeedSample
    <3>2. global_steps < TotalSteps
      BY <2>2, <1>2, Constants DEF LastFed
    <3> QED BY <3>1, <3>2
  <2> QED BY <2>1, <2>2
<1>7. CheckpointTypeOK'
  <2>1. global_steps' \in Nat \ {0} /\ position' \in Nat /\ inFlight' \in SUBSET Nat
    BY <1>1, <1>2, <1>6
  <2> QED BY <1>1, <1>6, <2>1 DEF CkInv, CheckpointTypeOK
<1>8. Lineage'
  <2>1. model \subseteq 0 .. position' - 1 /\ inFlight' \subseteq 0 .. position' - 1
        /\ model \cap inFlight' = {}
    BY <1>1, <1>2, <1>3, <1>4
  <2>2. MaxInFlight * restarts \in Nat /\ MaxInFlight \in Nat
    BY <1>2, NextMultiple, Constants
  <2>3. Cardinality(inFlight') <= MaxInFlight
        /\ position' - Cardinality(model) - Cardinality(inFlight') <= MaxInFlight * restarts
    BY <1>1, <1>2, <1>3, <1>5, <2>2
  <2> QED BY <1>1, <1>3, <1>5, <2>1, <2>3 DEF Lineage
<1>9. Counted'
  <2> DEFINE made == current_param_version * PerVersion
                       + (local_trigger_step - 1) * RequiredSamples
  <2>1. made \in Nat
    <3>1. local_trigger_step - 1 \in Nat /\ RequiredSamples \in Nat /\ PerVersion \in Nat
      BY <1>2, Constants
    <3>2. /\ current_param_version * PerVersion \in Nat
          /\ (local_trigger_step - 1) * RequiredSamples \in Nat
      BY <1>2, <3>1, NextMultiple
    <3> QED BY <3>2
  <2>2. made + Cardinality(inFlight) <= global_steps - 1
    BY <1>1 DEF CkInv, Counted
  <2>3. made + Cardinality(inFlight') <= IF feeding' THEN global_steps' - 1
                                                     ELSE global_steps'
    <3> HIDE DEF made
    <3> QED BY <1>2, <1>5, <1>6, <2>1, <2>2
  <2>4. \/ global_steps' <= TotalSteps
        \/ restarts >= 1 /\ global_steps' <= Bound(restarts - 1) * PerVersion + 1
    <3>1. CASE feeding'
      <4>1. global_steps' <= TotalSteps
        BY <1>2, <1>6, <3>1, Constants
      <4> QED BY <4>1
    <3>2. CASE ~ feeding'
      BY <1>1, <1>6, <3>2 DEF CkInv, Counted
    <3> QED BY <3>1, <3>2
  <2> QED BY <1>1, <2>3, <2>4 DEF CkInv, Counted, Bound
<1>10. Named'
  BY <1>1, NamedKept DEF CkInv, Alive
<1>11. Saving'
  BY <1>1 DEF CkInv, Saving, Alive, ActorWritten, TrainedUpTo
<1> QED BY <1>7, <1>8, <1>9, <1>10, <1>11 DEF CkInv

LEMMA DataExhaustedKeeps ==
  ASSUME CkInv, DataExhausted
  PROVE  CkInv'
<1>1. /\ Alive /\ feeding /\ feeding' = FALSE
      /\ UNCHANGED <<keep, dir, weights, dataFile, tracker, status, restarts, saving,
           part, model, current_param_version, local_trigger_step, last_ckpt_version,
           previous_saved_paths, position, global_steps, inFlight>>
  BY DEF DataExhausted, Feeding, files, job, save, train
<1>2. CheckpointTypeOK'
  BY <1>1 DEF CkInv, CheckpointTypeOK
<1>3. Counted'
  <2>1. /\ current_param_version \in Nat /\ local_trigger_step - 1 \in Nat
        /\ RequiredSamples \in Nat /\ PerVersion \in Nat /\ IsFiniteSet(inFlight)
        /\ global_steps \in Nat
    BY Constants DEF CkInv, CheckpointTypeOK, Version, Lineage
  <2>2. /\ current_param_version * PerVersion \in Nat
        /\ (local_trigger_step - 1) * RequiredSamples \in Nat
        /\ Cardinality(inFlight) \in Nat
    BY <2>1, NextMultiple, FS_CardinalityType
  <2>3. current_param_version * PerVersion
          + (local_trigger_step - 1) * RequiredSamples + Cardinality(inFlight)
            <= global_steps - 1
    BY <1>1 DEF CkInv, Counted
  <2>4. current_param_version * PerVersion
          + (local_trigger_step - 1) * RequiredSamples + Cardinality(inFlight)
            <= global_steps
    BY <2>1, <2>2, <2>3
  <2> QED BY <1>1, <2>4 DEF CkInv, Counted, Bound
<1>4. Named' /\ Lineage'
  BY <1>1, NamedKept, LineageKept DEF CkInv, Alive
<1>5. Saving'
  BY <1>1 DEF CkInv, Saving, Alive, ActorWritten, TrainedUpTo
<1> QED BY <1>2, <1>3, <1>4, <1>5 DEF CkInv

-----------------------------------------------------------------------------
(* A batch moves from what is in flight to what is trained. *)
LEMMA BatchTrained ==
  ASSUME NEW t, NEW f, IsFiniteSet(t), IsFiniteSet(f), t \cap f = {},
         NEW b \in SUBSET f
  PROVE  /\ IsFiniteSet(t \cup b) /\ IsFiniteSet(f \ b)
         /\ (t \cup b) \cap (f \ b) = {}
         /\ Cardinality(t \cup b) = Cardinality(t) + Cardinality(b)
         /\ Cardinality(f \ b) = Cardinality(f) - Cardinality(b)
         /\ {Cardinality(t), Cardinality(f), Cardinality(b)} \subseteq Nat
<1>1. IsFiniteSet(b) /\ t \cap b = {} /\ f \cap b = b
  BY FS_Subset
<1>2. Cardinality(t) \in Nat /\ Cardinality(f) \in Nat /\ Cardinality(b) \in Nat
  BY <1>1, FS_CardinalityType
<1>3. IsFiniteSet(t \cup b)
      /\ Cardinality(t \cup b) = Cardinality(t) + Cardinality(b) - Cardinality(t \cap b)
  BY <1>1, FS_Union
<1>4. Cardinality(t \cap b) = 0
  BY <1>1, FS_EmptySet
<1>5. IsFiniteSet(f \ b) /\ Cardinality(f \ b) = Cardinality(f) - Cardinality(b)
  BY <1>1, FS_Difference
<1> QED BY <1>2, <1>3, <1>4, <1>5

(* One local update, or the last one of a version, uses up one batch.       *)
LEMMA StepCounted ==
  ASSUME NEW v \in Nat, NEW l \in 1 .. TriggerSync
  PROVE  /\ v * PerVersion + ((l + 1) - 1) * RequiredSamples
              = v * PerVersion + (l - 1) * RequiredSamples + RequiredSamples
         /\ l = TriggerSync =>
              (v + 1) * PerVersion + (1 - 1) * RequiredSamples
                = v * PerVersion + (l - 1) * RequiredSamples + RequiredSamples
         /\ v * PerVersion \in Nat /\ (l - 1) * RequiredSamples \in Nat
<1>1. RequiredSamples \in Nat /\ TriggerSync \in Nat /\ l \in Nat /\ l - 1 \in Nat
  BY Constants
<1>2. l * RequiredSamples = (l - 1) * RequiredSamples + RequiredSamples
      /\ (l - 1) * RequiredSamples \in Nat
  BY <1>1
<1>3. PerVersion = TriggerSync * RequiredSamples /\ PerVersion \in Nat
  BY <1>1, Constants DEF PerVersion
<1>4. v * PerVersion \in Nat /\ (v + 1) * PerVersion = v * PerVersion + PerVersion
  BY <1>3
<1>5. 0 * RequiredSamples = 0 /\ (l + 1) - 1 = l /\ 1 - 1 = 0
  BY <1>1
<1> QED
  <2>1. v * PerVersion + ((l + 1) - 1) * RequiredSamples
          = v * PerVersion + (l - 1) * RequiredSamples + RequiredSamples
    BY <1>1, <1>2, <1>4, <1>5
  <2>2. ASSUME l = TriggerSync
        PROVE  (v + 1) * PerVersion + (1 - 1) * RequiredSamples
                = v * PerVersion + (l - 1) * RequiredSamples + RequiredSamples
    <3>1. PerVersion = l * RequiredSamples
      BY <1>3, <2>2
    <3>2. (v + 1) * PerVersion = v * PerVersion + (l - 1) * RequiredSamples + RequiredSamples
      BY <1>1, <1>2, <1>4, <3>1
    <3> QED BY <1>1, <1>2, <1>4, <1>5, <3>2
  <2> QED BY <1>2, <1>4, <2>1, <2>2

LEMMA TrainStepKeeps ==
  ASSUME CkInv, TrainStep
  PROVE  CkInv'
<1>1. /\ Alive /\ status = "up" /\ saving = "idle" /\ part' = 1
      /\ UNCHANGED <<keep, dir, weights, dataFile, tracker, status, restarts,
           last_ckpt_version, previous_saved_paths, position, global_steps, feeding>>
  BY DEF TrainStep, files, job, Alive
<1>2. PICK batch \in SUBSET inFlight :
        /\ Cardinality(batch) = RequiredSamples
        /\ model' = model \cup batch /\ inFlight' = inFlight \ batch
  BY DEF TrainStep, kSubset
<1>3. /\ IsFiniteSet(inFlight) /\ IsFiniteSet(model)
      /\ model \subseteq 0 .. position - 1 /\ inFlight \subseteq 0 .. position - 1
      /\ model \cap inFlight = {} /\ Cardinality(inFlight) <= MaxInFlight
      /\ position - Cardinality(model) - Cardinality(inFlight) <= MaxInFlight * restarts
  BY <1>1 DEF CkInv, Lineage
<1>4. /\ IsFiniteSet(model') /\ IsFiniteSet(inFlight') /\ model' \cap inFlight' = {}
      /\ Cardinality(model') = Cardinality(model) + RequiredSamples
      /\ Cardinality(inFlight') = Cardinality(inFlight) - RequiredSamples
      /\ Cardinality(model) \in Nat /\ Cardinality(inFlight) \in Nat
  BY <1>2, <1>3, BatchTrained
<1>5. /\ position \in Nat /\ restarts \in 0 .. MaxRestarts /\ RequiredSamples \in Nat
      /\ MaxInFlight \in Nat /\ current_param_version \in Nat
      /\ current_param_version \in Version /\ last_ckpt_version \in Nat
      /\ local_trigger_step \in 1 .. TriggerSync /\ global_steps \in Nat
      /\ model \in SUBSET Nat /\ inFlight \in SUBSET Nat /\ TriggerSync \in Nat
  BY Constants DEF CkInv, CheckpointTypeOK, Version
<1>6. Lineage'
  <2>1. MaxInFlight * restarts \in Nat
    BY <1>5, NextMultiple
  <2>2. Cardinality(inFlight') <= MaxInFlight
        /\ position' - Cardinality(model') - Cardinality(inFlight') <= MaxInFlight * restarts
    BY <1>1, <1>3, <1>4, <1>5, <2>1
  <2>3. model' \subseteq 0 .. position - 1 /\ inFlight' \subseteq 0 .. position - 1
    BY <1>2, <1>3
  <2> QED BY <1>1, <1>4, <2>2, <2>3 DEF Lineage
<1>7. \/ /\ local_trigger_step' = local_trigger_step + 1
         /\ local_trigger_step < TriggerSync
         /\ current_param_version' = current_param_version
      \/ /\ local_trigger_step' = 1 /\ local_trigger_step = TriggerSync
         /\ current_param_version' = current_param_version + 1
  BY <1>5 DEF TrainStep, RoundContinues
<1>8. /\ current_param_version' \in Nat /\ local_trigger_step' \in 1 .. TriggerSync
      /\ current_param_version' >= current_param_version
  BY <1>5, <1>7, Constants
<1>9. /\ current_param_version' * PerVersion + (local_trigger_step' - 1) * RequiredSamples
            + Cardinality(inFlight')
          = current_param_version * PerVersion
              + (local_trigger_step - 1) * RequiredSamples + Cardinality(inFlight)
      /\ current_param_version' * PerVersion \in Nat
      /\ (local_trigger_step' - 1) * RequiredSamples \in Nat
      /\ Cardinality(inFlight') \in Nat
  <2>1. /\ current_param_version' * PerVersion + (local_trigger_step' - 1) * RequiredSamples
              = current_param_version * PerVersion
                  + (local_trigger_step - 1) * RequiredSamples + RequiredSamples
        /\ current_param_version * PerVersion \in Nat
        /\ (local_trigger_step - 1) * RequiredSamples \in Nat
    <3>1. CASE /\ local_trigger_step' = local_trigger_step + 1
               /\ current_param_version' = current_param_version
      BY <1>5, <3>1, StepCounted
    <3>2. CASE /\ local_trigger_step' = 1 /\ local_trigger_step = TriggerSync
               /\ current_param_version' = current_param_version + 1
      BY <1>5, <3>2, StepCounted
    <3> QED BY <1>7, <3>1, <3>2
  <2>2. /\ current_param_version' * PerVersion \in Nat
        /\ (local_trigger_step' - 1) * RequiredSamples \in Nat
    BY <1>8, StepCounted
  <2>3. Cardinality(inFlight') \in Nat
    BY <1>4, FS_CardinalityType
  <2> QED BY <1>4, <1>5, <2>1, <2>2, <2>3
<1>10. Counted'
  <2>1. current_param_version' * PerVersion + (local_trigger_step' - 1) * RequiredSamples
          + Cardinality(inFlight') <= IF feeding THEN global_steps - 1 ELSE global_steps
    BY <1>1, <1>9 DEF CkInv, Counted
  <2>2. current_param_version' * PerVersion <= global_steps
    <3>1. current_param_version' * PerVersion + (local_trigger_step' - 1) * RequiredSamples
            + Cardinality(inFlight') <= global_steps
      BY <1>5, <1>9, <2>1
    <3> QED BY <1>5, <1>9, <3>1
  <2>3. \/ global_steps <= TotalSteps
        \/ restarts >= 1 /\ global_steps <= Bound(restarts - 1) * PerVersion + 1
    BY <1>1 DEF CkInv, Counted
  <2>4. current_param_version' <= Bound(restarts)
    BY <1>5, <1>8, <2>2, <2>3, VersionBounded
  <2> QED BY <1>1, <2>1, <2>3, <2>4 DEF Counted, Bound
<1>11. saving' \in {"idle", "begin"}
       /\ (saving' # "idle" => current_param_version' # last_ckpt_version)
  BY <1>1 DEF TrainStep, SavesNow
<1>12. CheckpointTypeOK'
  <2>1. current_param_version' \in Version
    <3>1. current_param_version' <= Bound(restarts)
      BY <1>1, <1>10 DEF Counted, Bound
    <3>2. Bound(restarts) \in Version
      BY <1>5, BoundType
    <3> QED BY <1>8, <3>1, <3>2, Constants DEF Version
  <2>2. 1 \in DOMAIN Parts /\ model' \in SUBSET Nat /\ inFlight' \in SUBSET Nat
    BY <1>2, <1>5, RunCheckpointAssumption
  <2> QED BY <1>1, <1>8, <1>11, <2>1, <2>2 DEF CkInv, CheckpointTypeOK
<1>13. Named'
  BY <1>1, NamedKept DEF CkInv
<1>14. Saving'
  <2>1. last_ckpt_version <= current_param_version'
    BY <1>1, <1>5, <1>8 DEF CkInv, Saving
  <2>2. ~ ActorWritten'
    BY <1>1, <1>11 DEF ActorWritten
  <2>3. tracker # Torn
    BY <1>1 DEF CkInv, Saving
  <2> QED BY <1>1, <1>11, <2>1, <2>2, <2>3 DEF CkInv, Saving
<1> QED BY <1>6, <1>10, <1>12, <1>13, <1>14 DEF CkInv

LEMMA FinishKeeps ==
  ASSUME CkInv, Finish
  PROVE  CkInv'
<1>1. /\ Alive /\ status = "up" /\ saving = "idle" /\ part' = 1
      /\ status' \in {"ending", "ended"} /\ saving' \in {"idle", "begin"}
      /\ saving' # "idle" => current_param_version # last_ckpt_version
      /\ UNCHANGED <<keep, dir, weights, dataFile, tracker, restarts,
           model, current_param_version, local_trigger_step, last_ckpt_version,
           previous_saved_paths, position, global_steps, feeding, inFlight>>
  BY DEF Finish, files, train, rollout, Alive, SavesNow
<1>2. CheckpointTypeOK'
  BY <1>1, RunCheckpointAssumption DEF CkInv, CheckpointTypeOK
<1>3. Named' /\ Lineage' /\ Counted'
  BY <1>1, NamedKept, LineageKept, CountedKept DEF CkInv
<1>4. Saving'
  <2>1. ~ ActorWritten'
    BY <1>1 DEF ActorWritten
  <2> QED BY <1>1, <2>1 DEF CkInv, Saving
<1> QED BY <1>2, <1>3, <1>4 DEF CkInv

-----------------------------------------------------------------------------
(* What retention leaves of a list of versions is a list of versions.       *)
LEMMA RestType ==
  ASSUME NEW paths \in Seq(Version), NEW n \in 0 .. Len(paths)
  PROVE  Rest(paths, n) \in Seq(Version)
<1>1. Len(paths) \in Nat /\ n + 1 \in Int /\ \A i \in n + 1 .. Len(paths) : paths[i] \in Version
  OBVIOUS
<1> QED BY <1>1, SubSeqProperties DEF Rest

LEMMA ExcessType ==
  ASSUME NEW paths \in Seq(Version), NEW max \in Nat
  PROVE  /\ ExcessBefore(paths, max) \in 0 .. Len(paths)
         /\ ExcessAfter(paths, max) \in 0 .. Len(paths)
BY DEF ExcessBefore, ExcessAfter

(* The part being saved is one of the two, with a limit. *)
LEMMA PartSaved ==
  ASSUME CkInv
  PROVE  /\ Parts[part] \in Part /\ keep[Parts[part]] \in Nat
         /\ previous_saved_paths[Parts[part]] \in Seq(Version)
         /\ (part = 1 => Parts[part] = "actor") /\ part \in Nat /\ part >= 1
         /\ (part > 1 => Parts[part] # "actor")
<1>1. Parts[part] \in Part /\ (part = 1 <=> Parts[part] = "actor") /\ part \in {1, 2}
  BY RunCheckpointAssumption DEF CkInv, CheckpointTypeOK, Part
<1>2. keep \in [{"actor", "critic"} -> Nat]
  BY RunCheckpointAssumption DEF CkInv, CheckpointTypeOK
<1> QED BY <1>1, <1>2 DEF CkInv, CheckpointTypeOK, Part

(* A step of a save that only writes files: it remains to show the types,   *)
(* that the named checkpoint is as it was, and what is written so far.       *)
LEMMA SaveKeeps ==
  ASSUME CkInv, Alive, saving # "idle", CheckpointTypeOK', Saving',
         UNCHANGED <<tracker, status, restarts, model, current_param_version,
                     local_trigger_step, position, global_steps, feeding, inFlight>>,
         \A v \in Version \ {current_param_version} :
           dataFile'[v] = dataFile[v] /\ weights'[v] = weights[v]
  PROVE  CkInv'
<1>1. tracker \in Version => tracker \in Version \ {current_param_version}
  BY NewVersion
<1>2. Named'
  BY <1>1, NamedKept DEF CkInv, Alive
<1>3. Lineage' /\ Counted'
  BY LineageKept, CountedKept DEF CkInv
<1> QED BY <1>2, <1>3 DEF CkInv

LEMMA BeginPartKeeps ==
  ASSUME CkInv, BeginPart
  PROVE  CkInv'
<1> DEFINE p == Parts[part]
           n == ExcessBefore(previous_saved_paths[p], keep[p])
<1>1. /\ Alive /\ saving = "begin" /\ saving' = "write"
      /\ UNCHANGED <<keep, weights, dataFile, tracker, status, restarts, part, model,
           current_param_version, local_trigger_step, last_ckpt_version,
           position, global_steps, feeding, inFlight>>
  BY DEF BeginPart, job, train, rollout
<1>2. /\ dir' = [dir EXCEPT ![p] = [Folder(p, Dropped(previous_saved_paths[p], n))
                                     EXCEPT ![current_param_version] = "partial"]]
      /\ previous_saved_paths' =
           [previous_saved_paths EXCEPT ![p] = Rest(previous_saved_paths[p], n)]
  BY DEF BeginPart
<1>3. Rest(previous_saved_paths[p], n) \in Seq(Version)
  BY PartSaved, ExcessType, RestType
<1>4. previous_saved_paths' \in [Part -> Seq(Version)]
  BY <1>2, <1>3 DEF CkInv, CheckpointTypeOK
<1>5. dir' \in [Part -> [Version -> {"absent", "partial", "complete"}]]
  BY <1>2, PartSaved DEF CkInv, CheckpointTypeOK, Folder
<1>6. CheckpointTypeOK'
  BY <1>1, <1>4, <1>5 DEF CkInv, CheckpointTypeOK
<1>7. Saving'
  <2>1. ActorWritten' => ActorWritten
    BY <1>1 DEF ActorWritten
  <2> QED BY <1>1, <2>1 DEF CkInv, Saving
<1> QED BY <1>1, <1>6, <1>7, SaveKeeps

LEMMA WritePartKeeps ==
  ASSUME CkInv, WritePart
  PROVE  CkInv'
<1> DEFINE p == Parts[part]
<1>1. /\ Alive /\ saving = "write" /\ saving' = "register"
      /\ UNCHANGED <<keep, dataFile, tracker, status, restarts, part, model,
           current_param_version, local_trigger_step, last_ckpt_version,
           previous_saved_paths, position, global_steps, feeding, inFlight>>
      /\ dir' = [dir EXCEPT ![p][current_param_version] = "complete"]
      /\ weights' = IF p = "actor" THEN [weights EXCEPT ![current_param_version] = model]
                                   ELSE weights
  BY DEF WritePart, job, train, rollout
<1>2. weights' \in [Version -> SUBSET Nat]
  BY <1>1 DEF CkInv, CheckpointTypeOK
<1>3. dir' \in [Part -> [Version -> {"absent", "partial", "complete"}]]
  BY <1>1, PartSaved DEF CkInv, CheckpointTypeOK
<1>4. CheckpointTypeOK'
  BY <1>1, <1>2, <1>3 DEF CkInv, CheckpointTypeOK
<1>5. weights'[current_param_version] = model
  <2>1. CASE part = 1
    BY <1>1, <2>1, PartSaved, NewVersion DEF CkInv, CheckpointTypeOK
  <2>2. CASE part > 1
    BY <1>1, <2>2, PartSaved DEF CkInv, Saving, ActorWritten
  <2> QED BY <2>1, <2>2, PartSaved
<1>6. Saving'
  BY <1>1, <1>5 DEF CkInv, Saving
<1>7. \A v \in Version \ {current_param_version} : weights'[v] = weights[v]
  BY <1>1 DEF CkInv, CheckpointTypeOK
<1> QED BY <1>1, <1>4, <1>6, <1>7, SaveKeeps

LEMMA RegisterPartKeeps ==
  ASSUME CkInv, RegisterPart
  PROVE  CkInv'
<1> DEFINE p == Parts[part]
           paths == Append(previous_saved_paths[p], current_param_version)
           n == ExcessAfter(paths, keep[p])
<1>1. /\ Alive /\ saving = "register" /\ saving' \in {"begin", "data"}
      /\ UNCHANGED <<keep, weights, dataFile, tracker, status, restarts, model,
           current_param_version, local_trigger_step, last_ckpt_version,
           position, global_steps, feeding, inFlight>>
      /\ previous_saved_paths' = [previous_saved_paths EXCEPT ![p] = Rest(paths, n)]
      /\ dir' = [dir EXCEPT ![p] = Folder(p, Dropped(paths, n))]
  BY DEF RegisterPart, job, train, rollout
<1>2. part' \in DOMAIN Parts
  BY RunCheckpointAssumption DEF CkInv, CheckpointTypeOK, RegisterPart
<1>3. paths \in Seq(Version) /\ keep[p] \in Nat
  BY <1>1, PartSaved, NewVersion
<1>4. Rest(paths, n) \in Seq(Version)
  <2> HIDE DEF paths
  <2> QED BY <1>3, ExcessType, RestType
<1>5. previous_saved_paths' \in [Part -> Seq(Version)]
  <2> HIDE DEF paths, n
  <2> QED BY <1>1, <1>4 DEF CkInv, CheckpointTypeOK
<1>6. dir' \in [Part -> [Version -> {"absent", "partial", "complete"}]]
  <2> HIDE DEF paths, n
  <2> QED BY <1>1, PartSaved DEF CkInv, CheckpointTypeOK, Folder
<1>7. CheckpointTypeOK'
  BY <1>1, <1>2, <1>5, <1>6 DEF CkInv, CheckpointTypeOK
<1>8. Saving'
  BY <1>1 DEF CkInv, Saving, ActorWritten
<1> QED BY <1>1, <1>7, <1>8, SaveKeeps

LEMMA OpenDataKeeps ==
  ASSUME CkInv, OpenData
  PROVE  CkInv'
<1>1. /\ Alive /\ saving = "data" /\ saving' = "dataOpen"
      /\ dataFile' = [dataFile EXCEPT ![current_param_version] = Torn]
      /\ UNCHANGED <<keep, dir, weights, tracker, status, restarts, part, model,
           current_param_version, local_trigger_step, last_ckpt_version,
           previous_saved_paths, position, global_steps, feeding, inFlight>>
  BY DEF OpenData, job, train, rollout
<1>2. CheckpointTypeOK'
  BY <1>1 DEF CkInv, CheckpointTypeOK
<1>3. Saving'
  BY <1>1 DEF CkInv, Saving, ActorWritten
<1>4. \A v \in Version \ {current_param_version} : dataFile'[v] = dataFile[v]
  BY <1>1 DEF CkInv, CheckpointTypeOK
<1> QED BY <1>1, <1>2, <1>3, <1>4, SaveKeeps

(* The dataloader is written with the position it has now: it may have gone *)
(* on since the actor was written, by what is in flight.                    *)
LEMMA WriteDataKeeps ==
  ASSUME CkInv, WriteData
  PROVE  CkInv'
<1>1. /\ Alive /\ saving = "dataOpen" /\ saving' = "tracker"
      /\ dataFile' = [dataFile EXCEPT ![current_param_version] = position]
      /\ UNCHANGED <<keep, dir, weights, tracker, status, restarts, part, model,
           current_param_version, local_trigger_step, last_ckpt_version,
           previous_saved_paths, position, global_steps, feeding, inFlight>>
  BY DEF WriteData, job, train, rollout
<1>2. CheckpointTypeOK'
  BY <1>1 DEF CkInv, CheckpointTypeOK
<1>3. position \in Nat /\ restarts \in Nat /\ MaxInFlight \in Nat
  BY Constants DEF CkInv, CheckpointTypeOK
<1>4. TrainedUpTo(model, position, MaxInFlight * (restarts + 1))
  <2>1. /\ IsFiniteSet(model) /\ IsFiniteSet(inFlight)
        /\ model \subseteq 0 .. position - 1 /\ Cardinality(inFlight) <= MaxInFlight
        /\ position - Cardinality(model) - Cardinality(inFlight) <= MaxInFlight * restarts
    BY <1>1 DEF CkInv, Lineage
  <2>2. Cardinality(model) \in Nat /\ Cardinality(inFlight) \in Nat
    BY <2>1, FS_CardinalityType
  <2>3. /\ MaxInFlight * restarts \in Nat /\ MaxInFlight * (restarts + 1) \in Nat
        /\ MaxInFlight * (restarts + 1) = MaxInFlight * restarts + MaxInFlight
    BY <1>3, AnotherLife
  <2>4. position - Cardinality(model) <= MaxInFlight * (restarts + 1)
    BY <1>3, <2>1, <2>2, <2>3
  <2> QED BY <2>1, <2>4 DEF TrainedUpTo
<1>5. dataFile'[current_param_version] = position
  BY <1>1, NewVersion DEF CkInv, CheckpointTypeOK
<1>6. Saving'
  <2>1. TrainedUpTo(model, dataFile[current_param_version], MaxInFlight * (restarts + 1))'
    BY <1>1, <1>4, <1>5 DEF TrainedUpTo
  <2> QED BY <1>1, <1>3, <1>5, <2>1 DEF CkInv, Saving, ActorWritten
<1>7. \A v \in Version \ {current_param_version} : dataFile'[v] = dataFile[v]
  BY <1>1 DEF CkInv, CheckpointTypeOK
<1> QED BY <1>1, <1>2, <1>6, <1>7, SaveKeeps

LEMMA OpenTrackerKeeps ==
  ASSUME CkInv, OpenTracker
  PROVE  CkInv'
<1>1. /\ Alive /\ saving = "tracker" /\ saving' = "trackerOpen" /\ tracker' = Torn
      /\ UNCHANGED <<keep, dir, weights, dataFile, status, restarts, part, model,
           current_param_version, local_trigger_step, last_ckpt_version,
           previous_saved_paths, position, global_steps, feeding, inFlight>>
  BY DEF OpenTracker, job, train, rollout
<1>2. tracker' \notin Version /\ tracker' # Missing
  BY <1>1, Constants DEF Version, Torn, Missing
<1>3. CheckpointTypeOK'
  BY <1>1 DEF CkInv, CheckpointTypeOK
<1>4. Saving'
  BY <1>1, <1>2 DEF CkInv, Saving, ActorWritten, TrainedUpTo
<1>5. Lineage' /\ Counted'
  BY <1>1, LineageKept, CountedKept DEF CkInv
<1> QED BY <1>2, <1>3, <1>4, <1>5 DEF CkInv, Named

(* Now the tracker names what has been written. *)
LEMMA WriteTrackerKeeps ==
  ASSUME CkInv, WriteTracker
  PROVE  CkInv'
<1>1. /\ Alive /\ saving = "trackerOpen" /\ saving' = "idle"
      /\ tracker' = current_param_version /\ last_ckpt_version' = current_param_version
      /\ status' \in {"up", "ended"}
      /\ UNCHANGED <<keep, dir, weights, dataFile, restarts, part, model,
           current_param_version, local_trigger_step,
           previous_saved_paths, position, global_steps, feeding, inFlight>>
  BY DEF WriteTracker, rollout, Alive
<1>2. /\ current_param_version \in Version /\ current_param_version >= 1
      /\ current_param_version <= Bound(restarts) /\ restarts \in Nat
      /\ weights[current_param_version] = model
      /\ dataFile[current_param_version] \in Nat
      /\ TrainedUpTo(model, dataFile[current_param_version], MaxInFlight * (restarts + 1))
  BY <1>1, NewVersion DEF CkInv, CheckpointTypeOK, Counted, Saving, ActorWritten
<1>3. CheckpointTypeOK'
  BY <1>1, <1>2 DEF CkInv, CheckpointTypeOK
<1>4. Named'
  <2>1. Lives' = restarts + 1 /\ (restarts + 1) - 1 = restarts
    BY <1>1, <1>2 DEF Lives
  <2>2. TrainedUpTo(weights[tracker], dataFile[tracker], MaxInFlight * Lives)'
    BY <1>1, <1>2, <2>1 DEF TrainedUpTo
  <2>3. tracker' <= Bound(Lives' - 1) /\ Lives' >= 1
    BY <1>1, <1>2, <2>1
  <2> QED BY <1>1, <1>2, <2>2, <2>3 DEF Named, Bound
<1>5. Lineage' /\ Counted'
  BY <1>1, LineageKept, CountedKept DEF CkInv
<1>6. Saving'
  <2>1. current_param_version # Missing /\ current_param_version # Torn
        /\ current_param_version <= current_param_version
    BY <1>2, Constants DEF Version, Missing, Torn
  <2> QED BY <1>1, <2>1 DEF Saving
<1> QED BY <1>3, <1>4, <1>5, <1>6 DEF CkInv

-----------------------------------------------------------------------------
(* The inductive invariant of saving and resuming: with a crash between any  *)
(* two writes, what the tracker names is a checkpoint whose model and whose  *)
(* position in the data belong together (fully_async_trainer.py:625-736,     *)
(* fully_async_rollouter.py:602-675).                                        *)
THEOREM CheckpointsKept == Spec => []CkInv
<1>1. ASSUME CkInv, [Next]_vars
      PROVE  CkInv'
  <2>1. CASE Start \/ Crash
    BY <1>1, <2>1, StartKeeps, CrashKeeps
  <2>2. CASE FeedSample \/ DataExhausted
    BY <1>1, <2>2, FeedKeeps, DataExhaustedKeeps
  <2>3. CASE TrainStep \/ Finish
    BY <1>1, <2>3, TrainStepKeeps, FinishKeeps
  <2>4. CASE SavePart
    BY <1>1, <2>4, BeginPartKeeps, WritePartKeeps, RegisterPartKeeps DEF SavePart
  <2>5. CASE SaveFiles
    BY <1>1, <2>5, OpenDataKeeps, WriteDataKeeps, OpenTrackerKeeps, WriteTrackerKeeps
       DEF SaveFiles
  <2>6. CASE UNCHANGED vars
    <3>1. /\ CheckpointTypeOK' /\ Alive' = Alive /\ Lives' = Lives
          /\ ActorWritten' = ActorWritten
      BY <1>1, <2>6 DEF vars, files, job, save, train, rollout, CkInv, CheckpointTypeOK,
         Alive, Lives, ActorWritten
    <3>2. Named' /\ Saving'
      BY <1>1, <2>6, <3>1 DEF vars, files, job, save, train, CkInv, Named, Saving,
         TrainedUpTo, Bound
    <3>3. Lineage' /\ Counted'
      BY <1>1, <2>6, <3>1 DEF vars, job, train, rollout, CkInv, Lineage, Counted, Bound
    <3> QED BY <3>1, <3>2, <3>3 DEF CkInv
  <2> QED BY <1>1, <2>1, <2>2, <2>3, <2>4, <2>5, <2>6 DEF Next
<1> QED BY <1>1, InitCheckpoint, PTL DEF Spec

(* The types of files and job for every configuration; the version stays    *)
(* within what is planned and what the restarts may add.                    *)
THEOREM CheckpointTypeCorrect == Spec => []CheckpointTypeOK
<1>1. CkInv => CheckpointTypeOK
  BY DEF CkInv
<1> QED BY <1>1, CheckpointsKept, PTL

(* NeverTwice for every configuration: whatever write a crash came between, *)
(* the position a run resumes at lies beyond all that its model has seen.   *)
THEOREM TrainedOnce == Spec => []NeverTwice
<1>1. CkInv => NeverTwice
  BY DEF CkInv, Lineage, NeverTwice
<1> QED BY <1>1, CheckpointsKept, PTL

(* SkippedBounded for every configuration: each restart costs at most what  *)
(* was in flight when the dataloader's state was written.                   *)
THEOREM FewSkipped == Spec => []SkippedBounded
<1>1. CkInv => SkippedBounded
  BY DEF CkInv, Lineage, SkippedBounded
<1> QED BY <1>1, CheckpointsKept, PTL

(* NoMoreThanPlanned for every configuration: only runs whose versions take *)
(* one sample make one more, at a start that finds nothing left.            *)
THEOREM PlanKept == Spec => []NoMoreThanPlanned
<1>1. CkInv => NoMoreThanPlanned
  BY DEF CkInv, Counted, NoMoreThanPlanned, Bound
<1> QED BY <1>1, CheckpointsKept, PTL
-----------------------------------------------------------------------------
(***************************************************************************)
(* NamedIsComplete and EndSaved.  Retention knows nothing of the tracker:  *)
(* that it never removes what the tracker names follows from the order of  *)
(* the lists, on which that version is the newest until the save's own.    *)
(***************************************************************************)
Increasing(s) == \A a, b \in DOMAIN s : a < b => s[a] < s[b]

(* The i-th part has been registered in the save in progress. *)
Registered(i) ==
  saving # "idle"
  /\ (i < part \/ saving \in {"data", "dataOpen", "tracker", "trackerOpen"})
Written(i) == Registered(i) \/ (saving = "register" /\ i = part)

Newest(i) == IF Registered(i) THEN current_param_version ELSE last_ckpt_version

Listed ==
  Alive => \A i \in DOMAIN Parts :
    LET paths == previous_saved_paths[Parts[i]]
    IN /\ Increasing(paths)
       /\ \A a \in DOMAIN paths : paths[a] <= Newest(i)
       /\ Written(i) => dir[Parts[i]][current_param_version] = "complete"

(* Between two saves, the updates since the last one. *)
Saved(v) == IF v = 0 THEN {} ELSE weights[v]
Behind ==
  Alive /\ saving = "idle" /\ last_ckpt_version = current_param_version =>
    /\ IsFiniteSet(model \ Saved(current_param_version))
    /\ Cardinality(model \ Saved(current_param_version))
         <= (local_trigger_step - 1) * RequiredSamples

FilesInv == NamedIsComplete /\ Listed /\ Behind /\ EndSaved

(* Parts is a list of different parts. *)
LEMMA PartsDiffer ==
  /\ DOMAIN Parts \subseteq Nat \ {0} /\ 1 \in DOMAIN Parts
  /\ \A i \in DOMAIN Parts : Parts[i] \in Part /\ i <= Len(Parts)
  /\ \A i, j \in DOMAIN Parts : Parts[i] = Parts[j] => i = j
  /\ Len(Parts) \in DOMAIN Parts
BY RunCheckpointAssumption DEF Part

(* What is left of a list, by index. *)
LEMMA RestElements ==
  ASSUME NEW paths \in Seq(Version), NEW n \in 0 .. Len(paths)
  PROVE  /\ DOMAIN Rest(paths, n) = 1 .. Len(paths) - n
         /\ \A a \in DOMAIN Rest(paths, n) :
              a + n \in DOMAIN paths /\ Rest(paths, n)[a] = paths[a + n]
<1>1. Len(paths) \in Nat /\ n + 1 \in Int /\ \A i \in n + 1 .. Len(paths) : paths[i] \in Version
  OBVIOUS
<1> QED BY <1>1, SubSeqProperties DEF Rest

(* Dropping the oldest leaves the order of the others. *)
LEMMA RestIncreases ==
  ASSUME NEW paths \in Seq(Version), NEW n \in 0 .. Len(paths), Increasing(paths),
         NEW v \in Int, \A a \in DOMAIN paths : paths[a] <= v
  PROVE  /\ Increasing(Rest(paths, n))
         /\ \A a \in DOMAIN Rest(paths, n) : Rest(paths, n)[a] <= v
<1>1. n \in Nat /\ \A a \in DOMAIN Rest(paths, n) : a \in Nat
  BY RestElements
<1>2. \A a, b \in DOMAIN Rest(paths, n) : a < b => a + n < b + n
  BY <1>1
<1> QED BY <1>2, RestElements DEF Increasing

(* Removing the oldest of a list, but not all, never removes the newest.    *)
LEMMA NewestStays ==
  ASSUME NEW paths \in Seq(Version), Increasing(paths), NEW n \in Nat, n < Len(paths),
         NEW v \in Int, \A a \in DOMAIN paths : paths[a] <= v
  PROVE  v \notin Dropped(paths, n)
<1> SUFFICES ASSUME NEW a \in 1 .. n, paths[a] = v PROVE FALSE
  BY DEF Dropped
<1>1. Len(paths) \in Nat /\ DOMAIN paths = 1 .. Len(paths)
  OBVIOUS
<1>2. a \in DOMAIN paths /\ Len(paths) \in DOMAIN paths /\ a < Len(paths)
  BY <1>1
<1>3. paths[a] < paths[Len(paths)] /\ paths[Len(paths)] <= v
  BY <1>2 DEF Increasing
<1>4. paths[Len(paths)] \in Int
  <2>1. paths[Len(paths)] \in Version
    BY <1>2
  <2>2. Version \subseteq Int
    BY DEF Version
  <2> QED BY <2>1, <2>2
<1>5. v < paths[Len(paths)]
  BY <1>3
<1>6. \A x \in Int : ~ (v < x /\ x <= v)
  OBVIOUS
<1> QED BY <1>3, <1>4, <1>5, <1>6

(* Below the limit nothing is dropped. *)
LEMMA NothingDropped == ASSUME NEW paths PROVE Dropped(paths, 0) = {}
BY DEF Dropped

(* A save never makes room by removing everything, and its registration     *)
(* leaves two versions unless the limit is 1.                               *)
LEMMA ExcessSpare ==
  ASSUME NEW paths \in Seq(Version), NEW max \in Nat
  PROVE  /\ ExcessBefore(paths, max) \in 0 .. Len(paths)
         /\ ExcessBefore(paths, max) = 0 \/ ExcessBefore(paths, max) < Len(paths)
         /\ ExcessAfter(paths, max) \in 0 .. Len(paths)
         /\ ExcessAfter(paths, max) = 0 \/ ExcessAfter(paths, max) < Len(paths)
         /\ max # 1 => ExcessAfter(paths, max) = 0 \/ ExcessAfter(paths, max) < Len(paths) - 1
BY DEF ExcessBefore, ExcessAfter

(* A version newer than all of a list goes to its end. *)
LEMMA AppendIncreases ==
  ASSUME NEW old \in Seq(Version), NEW paths \in Seq(Version), NEW v \in Int, NEW w \in Int,
         w < v, Increasing(old), \A a \in DOMAIN old : old[a] <= w,
         Len(paths) = Len(old) + 1, paths[Len(paths)] = v,
         \A a \in DOMAIN old : paths[a] = old[a]
  PROVE  Increasing(paths) /\ \A a \in DOMAIN paths : paths[a] <= v
<1>1. /\ DOMAIN old = 1 .. Len(old) /\ Len(old) \in Nat
      /\ \A a \in DOMAIN paths : a \in Nat /\ (a \in DOMAIN old \/ a = Len(paths))
  OBVIOUS
<1>2. \A a \in DOMAIN old : paths[a] \in Int
  <2> SUFFICES ASSUME NEW a \in DOMAIN old PROVE old[a] \in Int
    OBVIOUS
  <2>1. old[a] \in Version
    BY <1>1
  <2> QED BY <2>1 DEF Version
<1>3. \A a \in DOMAIN old : paths[a] < v
  BY <1>2
<1>4. ASSUME NEW a \in DOMAIN paths, NEW b \in DOMAIN paths, a < b
      PROVE  paths[a] < paths[b]
  <2>1. a \in DOMAIN old
    BY <1>1, <1>4
  <2>2. CASE b \in DOMAIN old
    BY <1>4, <2>1, <2>2 DEF Increasing
  <2>3. CASE b = Len(paths)
    BY <1>3, <2>1, <2>3
  <2> QED BY <1>1, <2>2, <2>3
<1>5. ASSUME NEW a \in DOMAIN paths PROVE paths[a] <= v
  BY <1>1, <1>2, <1>3
<1> QED BY <1>4, <1>5 DEF Increasing

-----------------------------------------------------------------------------
(* Steps that leave files, lists and the version as they are. *)
LEMMA ListedKept ==
  ASSUME Listed, Alive,
         UNCHANGED <<previous_saved_paths, dir, current_param_version, last_ckpt_version>>,
         \A i \in DOMAIN Parts : Registered(i)' = Registered(i) /\ (Written(i)' => Written(i))
  PROVE  Listed'
BY DEF Listed, Newest, Increasing

(* What the tracker names is as whole as its folders are. *)
LEMMA CompleteKept ==
  ASSUME NamedIsComplete, UNCHANGED <<keep, tracker>>,
         saving' = "idle" => saving = "idle",
         tracker \in Version =>
           /\ \A i \in DOMAIN Parts :
                dir[Parts[i]][tracker] = "complete" => dir'[Parts[i]][tracker] = "complete"
           /\ dataFile'[tracker] = dataFile[tracker]
  PROVE  NamedIsComplete'
BY DEF NamedIsComplete, KeepsOne, Complete, PartsComplete

(* Before the first start nothing is named and no list is kept. *)
LEMMA InitFiles == Init => FilesInv
<1> SUFFICES ASSUME Init PROVE FilesInv
  OBVIOUS
<1>1. tracker \notin Version
  BY Constants DEF Init, Version, Missing
<1> QED BY <1>1 DEF Init, FilesInv, NamedIsComplete, Listed, Behind, EndSaved, Alive

LEMMA StartFiles ==
  ASSUME CkInv, FilesInv, Start
  PROVE  FilesInv'
<1>1. /\ status' = "up" /\ saving' = "idle" /\ local_trigger_step' = 1
      /\ UNCHANGED <<keep, dir, weights, dataFile, tracker>>
      /\ previous_saved_paths' = [p \in Part |-> <<>>]
      /\ tracker # Torn /\ (Latest = 0 \/ Loadable(Latest))
  BY DEF Start, files
<1>2. /\ current_param_version' = Latest /\ last_ckpt_version' = Latest
      /\ model' = IF Latest = 0 THEN {} ELSE weights[Latest]
  BY DEF Start, Resume, ResumedCkpt
<1>3. NamedIsComplete'
  <2> SUFFICES ASSUME tracker \in Version PROVE Complete(tracker)
    BY <1>1 DEF NamedIsComplete, Complete, PartsComplete
  <2>1. Latest = tracker /\ tracker >= 1
    BY <1>1, LatestNamed, Constants DEF Missing, Version
  <2>2. Loadable(tracker)
    BY <1>1, <2>1
  <2>3. dataFile[tracker] \in Nat
    BY DEF CkInv, Named
  <2> QED BY <2>2, <2>3 DEF Loadable, Complete
<1>4. Listed'
  <2>1. \A i \in DOMAIN Parts : previous_saved_paths'[Parts[i]] = <<>>
    BY <1>1, PartsDiffer
  <2> QED BY <1>1, <2>1 DEF Listed, Increasing, Written, Registered
<1>5. Behind'
  <2>1. (model \ Saved(current_param_version))' = {}
    BY <1>1, <1>2 DEF Saved
  <2>2. (local_trigger_step' - 1) * RequiredSamples = 0
    BY <1>1, Constants
  <2>3. /\ IsFiniteSet((model \ Saved(current_param_version))')
        /\ Cardinality((model \ Saved(current_param_version))') = 0
    BY <2>1, EmptyTrained
  <2> QED BY <2>2, <2>3 DEF Behind
<1> QED BY <1>1, <1>3, <1>4, <1>5 DEF FilesInv, EndSaved

LEMMA CrashFiles ==
  ASSUME FilesInv, Crash
  PROVE  FilesInv'
<1>1. status' = "down" /\ UNCHANGED <<keep, dir, dataFile, tracker, saving>>
  BY DEF Crash, files, save
<1>2. NamedIsComplete'
  BY <1>1, CompleteKept DEF FilesInv
<1> QED BY <1>1, <1>2 DEF FilesInv, Listed, Behind, EndSaved, Alive

(* The feeder writes nothing. *)
LEMMA FeederFiles ==
  ASSUME CkInv, FilesInv, FeedSample \/ DataExhausted
  PROVE  FilesInv'
<1>1. /\ Alive
      /\ UNCHANGED <<keep, dir, weights, dataFile, tracker, status, restarts, saving, part,
           model, current_param_version, local_trigger_step, last_ckpt_version,
           previous_saved_paths>>
  BY DEF FeedSample, DataExhausted, Feeding, files, job, save, train
<1>2. NamedIsComplete'
  BY <1>1, CompleteKept DEF FilesInv
<1>3. Listed'
  BY <1>1, ListedKept DEF FilesInv, Registered, Written
<1>4. Behind' /\ EndSaved'
  BY <1>1 DEF FilesInv, Behind, EndSaved, Alive, Saved
<1> QED BY <1>2, <1>3, <1>4 DEF FilesInv

(* An update adds one batch to what the last save lacks, or makes a version *)
(* that has not been saved at all.                                          *)
LEMMA TrainStepFiles ==
  ASSUME CkInv, FilesInv, TrainStep
  PROVE  FilesInv'
<1>1. /\ Alive /\ status = "up" /\ status' = "up" /\ saving = "idle" /\ part' = 1
      /\ saving' \in {"idle", "begin"}
      /\ UNCHANGED <<keep, dir, weights, dataFile, tracker, last_ckpt_version,
           previous_saved_paths>>
  BY DEF TrainStep, files, job, Alive
<1>2. NamedIsComplete'
  BY <1>1, CompleteKept DEF FilesInv
<1>3. Listed'
  <2>1. \A i \in DOMAIN Parts : ~ Registered(i) /\ ~ Registered(i)' /\ ~ Written(i)'
    BY <1>1, PartsDiffer DEF Registered, Written
  <2> QED BY <1>1, <2>1 DEF FilesInv, Listed, Newest, Increasing
<1>4. Behind'
  <2> SUFFICES ASSUME last_ckpt_version = current_param_version'
               PROVE  /\ IsFiniteSet((model \ Saved(current_param_version))')
                      /\ Cardinality((model \ Saved(current_param_version))')
                           <= (local_trigger_step' - 1) * RequiredSamples
    BY <1>1 DEF Behind
  <2>1. /\ current_param_version \in Nat /\ last_ckpt_version <= current_param_version
        /\ RequiredSamples \in Nat /\ local_trigger_step \in Nat \ {0}
    BY <1>1, Constants DEF CkInv, CheckpointTypeOK, Saving, Version
  <2>2. /\ local_trigger_step' = local_trigger_step + 1
        /\ current_param_version' = current_param_version
    BY <2>1 DEF TrainStep
  <2>3. PICK batch \in SUBSET inFlight :
          Cardinality(batch) = RequiredSamples /\ model' = model \cup batch
    BY DEF TrainStep, kSubset
  <2> DEFINE ahead == model \ Saved(current_param_version)
  <2>4. IsFiniteSet(batch) /\ IsFiniteSet(ahead)
        /\ Cardinality(ahead) <= (local_trigger_step - 1) * RequiredSamples
    BY <1>1, <2>2, FS_Subset DEF CkInv, Lineage, FilesInv, Behind
  <2>5. (model \ Saved(current_param_version))' \subseteq ahead \cup batch
    BY <1>1, <2>2, <2>3 DEF Saved
  <2> HIDE DEF ahead
  <2>6. /\ IsFiniteSet(ahead \cup batch)
        /\ Cardinality(ahead \cup batch)
             = Cardinality(ahead) + Cardinality(batch) - Cardinality(ahead \cap batch)
        /\ Cardinality(ahead) \in Nat /\ Cardinality(ahead \cap batch) \in Nat
    BY <2>4, FS_Union, FS_Subset, FS_Intersection, FS_CardinalityType
  <2>7. /\ IsFiniteSet((model \ Saved(current_param_version))')
        /\ Cardinality((model \ Saved(current_param_version))')
             <= Cardinality(ahead \cup batch)
        /\ Cardinality((model \ Saved(current_param_version))') \in Nat
    BY <2>5, <2>6, FS_Subset, FS_CardinalityType
  <2>8. Cardinality(ahead \cup batch) <= Cardinality(ahead) + RequiredSamples
    BY <2>1, <2>3, <2>6
  <2>9. (local_trigger_step' - 1) * RequiredSamples
          = (local_trigger_step - 1) * RequiredSamples + RequiredSamples
    <3>1. \A l, r \in Nat : ((l + 1) - 1) * r = (l - 1) * r + r
      OBVIOUS
    <3> QED BY <2>1, <2>2, <3>1
  <2>10. (local_trigger_step - 1) * RequiredSamples \in Int
    BY <2>1
  <2>11. Cardinality(ahead \cup batch) \in Nat
    BY <2>6, FS_CardinalityType
  <2> HIDE DEF ahead
  <2>12. Cardinality(ahead \cup batch) <= (local_trigger_step' - 1) * RequiredSamples
    BY <2>1, <2>4, <2>6, <2>8, <2>9, <2>10, <2>11
  <2>13. (local_trigger_step' - 1) * RequiredSamples \in Int
    BY <2>1, <2>9, <2>10
  <2> QED BY <2>7, <2>11, <2>12, <2>13
<1> QED BY <1>1, <1>2, <1>3, <1>4 DEF FilesInv, EndSaved

(* The end without a save: there is nothing new but part of a round. *)
LEMMA FinishFiles ==
  ASSUME CkInv, FilesInv, Finish
  PROVE  FilesInv'
<1>1. /\ Alive /\ status = "up" /\ saving = "idle" /\ part' = 1
      /\ saving' \in {"idle", "begin"} /\ status' \in {"ending", "ended"}
      /\ status' = "ended" =>
           saving' = "idle" /\ (SaveFreq <= 0 \/ current_param_version = last_ckpt_version)
      /\ status' = "ending" => saving' = "begin"
      /\ UNCHANGED <<keep, dir, weights, dataFile, tracker, model,
           current_param_version, local_trigger_step, last_ckpt_version,
           previous_saved_paths>>
  BY DEF Finish, files, train, rollout, Alive, MayNotSave
<1>2. NamedIsComplete'
  BY <1>1, CompleteKept DEF FilesInv
<1>3. Listed'
  <2>1. \A i \in DOMAIN Parts : ~ Registered(i) /\ ~ Registered(i)' /\ ~ Written(i)'
    BY <1>1, PartsDiffer DEF Registered, Written
  <2> QED BY <1>1, <2>1 DEF FilesInv, Listed, Newest, Increasing
<1>4. Behind'
  BY <1>1 DEF Behind, Alive
<1>5. EndSaved'
  <2> SUFFICES ASSUME status' = "ended", SaveFreq > 0
               PROVE  /\ current_param_version # 0 => tracker = current_param_version
                      /\ Cardinality(model \ Saved(current_param_version)) < PerVersion
    BY <1>1 DEF EndSaved, Saved
  <2>1. current_param_version = last_ckpt_version
    <3>1. SaveFreq \in Int
      BY RunCheckpointAssumption
    <3> QED BY <1>1, <3>1
  <2>2. current_param_version # 0 => tracker = current_param_version
    BY <1>1, <2>1 DEF CkInv, Saving, CheckpointTypeOK
  <2>3. /\ IsFiniteSet(model \ Saved(current_param_version))
        /\ Cardinality(model \ Saved(current_param_version))
             <= (local_trigger_step - 1) * RequiredSamples
    BY <1>1, <2>1 DEF FilesInv, Behind
  <2>4. Cardinality(model \ Saved(current_param_version)) \in Nat
    BY <2>3, FS_CardinalityType
  <2>5. (local_trigger_step - 1) * RequiredSamples < PerVersion
        /\ (local_trigger_step - 1) * RequiredSamples \in Int /\ PerVersion \in Int
    <3>1. /\ local_trigger_step \in Nat \ {0} /\ local_trigger_step <= TriggerSync
          /\ TriggerSync \in Nat /\ RequiredSamples \in Nat \ {0}
      BY Constants DEF CkInv, CheckpointTypeOK
    <3>2. local_trigger_step * RequiredSamples <= TriggerSync * RequiredSamples
      BY <3>1, Monotone
    <3>3. local_trigger_step * RequiredSamples
            = (local_trigger_step - 1) * RequiredSamples + RequiredSamples
          /\ (local_trigger_step - 1) * RequiredSamples \in Nat
      <4>1. \A l \in Nat \ {0}, r \in Nat : l * r = (l - 1) * r + r /\ (l - 1) * r \in Nat
        OBVIOUS
      <4> QED BY <3>1, <4>1
    <3>4. PerVersion = TriggerSync * RequiredSamples /\ PerVersion \in Nat
      BY <3>1, Constants DEF PerVersion
    <3> QED BY <3>1, <3>2, <3>3, <3>4
  <2> QED BY <2>2, <2>3, <2>4, <2>5
<1> QED BY <1>2, <1>3, <1>4, <1>5 DEF FilesInv

-----------------------------------------------------------------------------
(* In a save the tracker names the last version that was saved, if any. *)
LEMMA NamedIsLast ==
  ASSUME CkInv, Alive, saving # "idle", tracker \in Version
  PROVE  /\ tracker = last_ckpt_version /\ tracker # current_param_version
         /\ tracker \in Int
BY NewVersion, Constants DEF CkInv, Saving, Version

(* Nothing more is shown of a save's steps than files and lists. *)
LEMMA SaveFilesKept ==
  ASSUME saving' # "idle", Alive, UNCHANGED status, saving # "idle",
         NamedIsComplete', Listed'
  PROVE  FilesInv'
BY DEF FilesInv, Behind, EndSaved, Alive

(* Making room removes the oldest only: not what the tracker names. *)
LEMMA BeginPartFiles ==
  ASSUME CkInv, FilesInv, BeginPart
  PROVE  FilesInv'
<1> DEFINE p == Parts[part]
           paths == previous_saved_paths[p]
           n == ExcessBefore(paths, keep[p])
<1>1. /\ Alive /\ saving = "begin" /\ saving' = "write"
      /\ UNCHANGED <<keep, weights, dataFile, tracker, status, part, current_param_version,
           last_ckpt_version>>
      /\ dir' = [dir EXCEPT ![p] = [Folder(p, Dropped(paths, n))
                                     EXCEPT ![current_param_version] = "partial"]]
      /\ previous_saved_paths' = [previous_saved_paths EXCEPT ![p] = Rest(paths, n)]
  BY DEF BeginPart, job, train
<1>2. /\ p \in Part /\ part \in DOMAIN Parts /\ paths \in Seq(Version)
      /\ keep[p] \in Nat /\ Len(paths) \in Nat
  BY PartSaved DEF CkInv, CheckpointTypeOK
<1>3. n \in 0 .. Len(paths) /\ (n = 0 \/ n < Len(paths))
  BY <1>2, ExcessSpare
<1>4. ~ Registered(part) /\ \A i \in DOMAIN Parts : Registered(i)' = Registered(i)
                                                    /\ (Written(i) <=> Registered(i))
                                                    /\ (Written(i)' <=> Registered(i))
  BY <1>1, <1>2, PartsDiffer DEF Registered, Written
<1>5. /\ Increasing(paths) /\ \A a \in DOMAIN paths : paths[a] <= last_ckpt_version
      /\ last_ckpt_version \in Int
  BY <1>1, <1>2, <1>4 DEF FilesInv, Listed, Newest, CkInv, CheckpointTypeOK, Version
<1> HIDE DEF n, paths
<1>6. tracker \in Version => tracker \notin Dropped(paths, n)
  BY <1>1, <1>2, <1>3, <1>5, NamedIsLast, NewestStays, NothingDropped
<1>7. \A q \in Part \ {p} : dir'[q] = dir[q]
                            /\ previous_saved_paths'[q] = previous_saved_paths[q]
  BY <1>1 DEF CkInv, CheckpointTypeOK
<1>8. tracker \in Version => \A q \in Part : dir'[q][tracker] = dir[q][tracker]
  <2> SUFFICES ASSUME tracker \in Version PROVE dir'[p][tracker] = dir[p][tracker]
    BY <1>7
  <2>1. tracker # current_param_version
    BY <1>1, NamedIsLast
  <2>2. dir'[p] = [Folder(p, Dropped(paths, n)) EXCEPT ![current_param_version] = "partial"]
    BY <1>1, <1>2 DEF CkInv, CheckpointTypeOK
  <2>3. dir'[p][tracker] = Folder(p, Dropped(paths, n))[tracker]
    BY <2>1, <2>2 DEF Folder
  <2> QED BY <1>6, <2>3 DEF Folder
<1>9. NamedIsComplete'
  BY <1>1, <1>8, CompleteKept, PartsDiffer DEF FilesInv
<1>10. Listed'
  <2> SUFFICES ASSUME NEW i \in DOMAIN Parts
               PROVE  /\ Increasing(previous_saved_paths'[Parts[i]])
                      /\ \A a \in DOMAIN previous_saved_paths'[Parts[i]] :
                           previous_saved_paths'[Parts[i]][a] <= Newest(i)'
                      /\ Written(i)' => dir'[Parts[i]][current_param_version] = "complete"
    BY <1>1 DEF Listed, Increasing
  <2>1. Newest(i)' = Newest(i)
    BY <1>1, <1>4 DEF Newest
  <2>2. CASE i = part
    <3>1. previous_saved_paths'[Parts[i]] = Rest(paths, n)
      BY <1>1, <1>2, <2>2 DEF CkInv, CheckpointTypeOK
    <3>2. /\ Increasing(Rest(paths, n))
          /\ \A a \in DOMAIN Rest(paths, n) : Rest(paths, n)[a] <= last_ckpt_version
      BY <1>2, <1>3, <1>5, RestIncreases
    <3> QED BY <1>4, <2>1, <2>2, <3>1, <3>2 DEF Newest
  <2>3. CASE i # part
    <3>1. Parts[i] \in Part \ {p}
      BY <1>2, <2>3, PartsDiffer
    <3> QED BY <1>1, <1>4, <1>7, <2>1, <3>1 DEF FilesInv, Listed
  <2> QED BY <2>2, <2>3
<1> QED BY <1>1, <1>9, <1>10, SaveFilesKept

(* What is still on the list of a part in a save is what was, or was added. *)
LEMMA WritePartFiles ==
  ASSUME CkInv, FilesInv, WritePart
  PROVE  FilesInv'
<1> DEFINE p == Parts[part]
<1>1. /\ Alive /\ saving = "write" /\ saving' = "register"
      /\ UNCHANGED <<keep, dataFile, tracker, status, part, current_param_version,
           last_ckpt_version, previous_saved_paths>>
      /\ dir' = [dir EXCEPT ![p][current_param_version] = "complete"]
  BY DEF WritePart, job, train
<1>2. p \in Part /\ part \in DOMAIN Parts /\ current_param_version \in Version
  BY PartSaved DEF CkInv, CheckpointTypeOK
<1>3. /\ \A q \in Part : \A v \in Version :
           q # p \/ v # current_param_version => dir'[q][v] = dir[q][v]
      /\ dir'[p][current_param_version] = "complete"
  BY <1>1, <1>2 DEF CkInv, CheckpointTypeOK
<1>4. NamedIsComplete'
  <2>1. tracker \in Version => \A q \in Part : dir'[q][tracker] = dir[q][tracker]
    BY <1>1, <1>3, NamedIsLast
  <2> QED BY <1>1, <2>1, CompleteKept, PartsDiffer DEF FilesInv
<1>5. Listed'
  <2>1. \A i \in DOMAIN Parts : /\ Registered(i)' = Registered(i)
                                /\ Written(i)' => Written(i) \/ i = part
    BY <1>1 DEF Registered, Written
  <2>2. \A i \in DOMAIN Parts :
          Written(i)' => dir'[Parts[i]][current_param_version] = "complete"
    <3> SUFFICES ASSUME NEW i \in DOMAIN Parts, Written(i)', i # part
                 PROVE  dir'[Parts[i]][current_param_version] = "complete"
      BY <1>3
    <3>1. Parts[i] \in Part \ {p}
      BY <1>2, PartsDiffer
    <3>2. dir[Parts[i]][current_param_version] = "complete"
      BY <1>1, <2>1 DEF FilesInv, Listed
    <3> QED BY <1>2, <1>3, <3>1, <3>2
  <2> QED BY <1>1, <2>1, <2>2 DEF FilesInv, Listed, Newest, Increasing
<1> QED BY <1>1, <1>4, <1>5, SaveFilesKept

(* The registration leaves two or more versions, the new and the one the     *)
(* tracker names; with a limit of 1 it leaves the new.                       *)
LEMMA RegisterPartFiles ==
  ASSUME CkInv, FilesInv, RegisterPart
  PROVE  FilesInv'
<1> DEFINE p == Parts[part]
           old == previous_saved_paths[p]
           paths == Append(old, current_param_version)
           n == ExcessAfter(paths, keep[p])
<1>1. /\ Alive /\ saving = "register"
      /\ UNCHANGED <<keep, dataFile, tracker, status, current_param_version,
           last_ckpt_version>>
      /\ previous_saved_paths' = [previous_saved_paths EXCEPT ![p] = Rest(paths, n)]
      /\ dir' = [dir EXCEPT ![p] = Folder(p, Dropped(paths, n))]
      /\ \/ part < Len(Parts) /\ part' = part + 1 /\ saving' = "begin"
         \/ ~ (part < Len(Parts)) /\ part' = part /\ saving' = "data"
  BY DEF RegisterPart, job, train
<1>2. /\ p \in Part /\ part \in DOMAIN Parts /\ old \in Seq(Version)
      /\ keep[p] \in Nat /\ current_param_version \in Version
      /\ last_ckpt_version < current_param_version
      /\ last_ckpt_version \in Int /\ current_param_version \in Int
  BY <1>1, PartSaved, NewVersion DEF CkInv, CheckpointTypeOK, Version
<1>3. /\ \A i \in DOMAIN Parts : Written(i)' = Registered(i)'
      /\ \A i \in DOMAIN Parts \ {part} : Registered(i)' => Registered(i)
      /\ \A i \in DOMAIN Parts \ {part} : Registered(i) => Registered(i)'
      /\ \A i \in {part} : Registered(i)' /\ ~ Registered(i) /\ Written(i)
  <2> HIDE DEF p, old, paths, n
  <2>1. part \in Nat /\ Len(Parts) \in Nat
    BY <1>2, PartsDiffer
  <2>2. /\ saving = "register" /\ saving' \in {"begin", "data"}
        /\ saving' = "begin" => part' = part + 1
        /\ saving' = "data" => part' = part /\ part >= Len(Parts)
    BY <1>1, <2>1
  <2>3. ASSUME NEW i \in DOMAIN Parts
        PROVE  /\ Written(i)' = Registered(i)'
               /\ i # part => (Registered(i)' <=> Registered(i))
               /\ i = part => Registered(i)' /\ ~ Registered(i) /\ Written(i)
    <3>1. i \in Nat /\ i <= Len(Parts)
      BY PartsDiffer
    <3>2. i # part => (Registered(i)' <=> Registered(i))
      <4>1. CASE saving' = "begin"
        BY <2>1, <2>2, <3>1, <4>1 DEF Registered
      <4>2. CASE saving' = "data"
        BY <2>1, <2>2, <3>1, <4>2 DEF Registered
      <4> QED BY <2>2, <4>1, <4>2
    <3>3. i = part => Registered(i)'
      BY <2>1, <2>2, <3>1 DEF Registered
    <3>4. i = part => ~ Registered(i) /\ Written(i)
      BY <2>1, <2>2, <3>1 DEF Registered, Written
    <3>5. Written(i)' = Registered(i)'
      BY <2>1, <2>2, <3>1 DEF Registered, Written
    <3> QED BY <3>2, <3>3, <3>4, <3>5
  <2> QED BY <1>2, <2>3
<1>4. /\ Increasing(old) /\ \A a \in DOMAIN old : old[a] <= last_ckpt_version
      /\ dir[p][current_param_version] = "complete"
  BY <1>1, <1>2, <1>3 DEF FilesInv, Listed, Newest
<1>5. /\ paths \in Seq(Version) /\ Len(paths) = Len(old) + 1 /\ Len(old) \in Nat
      /\ \A a \in DOMAIN old : paths[a] = old[a]
      /\ paths[Len(paths)] = current_param_version
      /\ \A a \in DOMAIN paths : a \in DOMAIN old \/ a = Len(paths)
  BY <1>2
<1> HIDE DEF old, paths
<1>6. Increasing(paths) /\ \A a \in DOMAIN paths : paths[a] <= current_param_version
  BY <1>2, <1>4, <1>5, AppendIncreases
<1>7. /\ n \in 0 .. Len(paths) /\ n < Len(paths)
      /\ keep[p] # 1 => n = 0 \/ n < Len(old)
  <2>1. /\ n \in 0 .. Len(paths)
        /\ n = 0 \/ n < Len(paths)
        /\ keep[p] # 1 => n = 0 \/ n < Len(paths) - 1
    <3> HIDE DEF p
    <3> QED BY <1>2, <1>5, ExcessSpare
  <2> HIDE DEF n, p
  <2> QED BY <1>5, <2>1
<1> HIDE DEF n
<1>8. current_param_version \notin Dropped(paths, n)
  BY <1>2, <1>5, <1>6, <1>7, NewestStays
<1>9. ASSUME tracker \in Version, ~ KeepsOne
      PROVE  tracker \notin Dropped(paths, n)
  <2>1. keep[p] # 1
    BY <1>2, <1>9 DEF KeepsOne
  <2>2. CASE n = 0
    BY <2>2, NothingDropped
  <2>3. CASE n < Len(old)
    <3>1. Dropped(paths, n) = Dropped(old, n)
      BY <1>5, <1>7, <2>3 DEF Dropped
    <3>2. tracker \notin Dropped(old, n)
      BY <1>1, <1>2, <1>4, <1>7, <1>9, <2>3, NamedIsLast, NewestStays
    <3> QED BY <3>1, <3>2
  <2> QED BY <1>7, <2>1, <2>2, <2>3
<1>10. /\ \A q \in Part \ {p} : dir'[q] = dir[q]
                                /\ previous_saved_paths'[q] = previous_saved_paths[q]
       /\ dir'[p] = Folder(p, Dropped(paths, n))
       /\ previous_saved_paths'[p] = Rest(paths, n)
  BY <1>1, <1>2 DEF CkInv, CheckpointTypeOK
<1>11. NamedIsComplete'
  <2> SUFFICES ASSUME tracker \in Version, ~ KeepsOne PROVE Complete(tracker)'
    BY <1>1 DEF NamedIsComplete, KeepsOne
  <2>1. \A q \in Part : dir'[q][tracker] = dir[q][tracker]
    BY <1>9, <1>10 DEF Folder
  <2>2. Complete(tracker)
    BY DEF FilesInv, NamedIsComplete
  <2> QED BY <1>1, <2>1, <2>2, PartsDiffer DEF Complete, PartsComplete
<1>12. Listed'
  <2> SUFFICES ASSUME NEW i \in DOMAIN Parts
               PROVE  /\ Increasing(previous_saved_paths'[Parts[i]])
                      /\ \A a \in DOMAIN previous_saved_paths'[Parts[i]] :
                           previous_saved_paths'[Parts[i]][a] <= Newest(i)'
                      /\ Written(i)' => dir'[Parts[i]][current_param_version] = "complete"
    BY <1>1 DEF Listed, Increasing
  <2>1. CASE i = part
    <3>1. /\ Increasing(Rest(paths, n))
          /\ \A a \in DOMAIN Rest(paths, n) : Rest(paths, n)[a] <= current_param_version
      BY <1>2, <1>5, <1>6, <1>7, RestIncreases
    <3>2. dir'[p][current_param_version] = "complete"
      BY <1>2, <1>4, <1>8, <1>10 DEF Folder
    <3>3. Newest(i)' = current_param_version
      BY <1>1, <1>3, <2>1 DEF Newest
    <3>4. previous_saved_paths'[Parts[i]] = Rest(paths, n)
      BY <1>10, <2>1
    <3>5. Parts[i] = p
      BY <2>1
    <3> HIDE DEF p
    <3> QED BY <3>1, <3>2, <3>3, <3>4, <3>5
  <2>2. CASE i # part
    <3>1. Parts[i] \in Part \ {p}
      BY <1>2, <2>2, PartsDiffer
    <3>2. /\ Registered(i)' <=> Registered(i)
          /\ Written(i)' => Written(i)
          /\ Newest(i)' = Newest(i)
      BY <1>1, <1>3, <2>2 DEF Newest, Written
    <3> QED BY <1>1, <1>10, <3>1, <3>2 DEF FilesInv, Listed
  <2> QED BY <2>1, <2>2
<1> QED BY <1>1, <1>11, <1>12, SaveFilesKept

(* The dataloader's file and the truncation of the tracker: the checkpoint   *)
(* the tracker names is another one, or none is named.                       *)
LEMMA OpenFiles ==
  ASSUME CkInv, FilesInv, OpenData \/ WriteData \/ OpenTracker
  PROVE  FilesInv'
<1>1. /\ Alive /\ saving \in {"data", "dataOpen", "tracker"}
      /\ saving' \in {"dataOpen", "tracker", "trackerOpen"}
      /\ UNCHANGED <<keep, dir, status, part, current_param_version, last_ckpt_version,
           previous_saved_paths>>
  BY DEF OpenData, WriteData, OpenTracker, job, train
<1>2. NamedIsComplete'
  <2>1. CASE OpenTracker
    <3>1. tracker' \notin Version
      BY <2>1, Constants DEF OpenTracker, Version, Torn
    <3> QED BY <3>1 DEF NamedIsComplete
  <2>2. CASE OpenData \/ WriteData
    <3>1. /\ tracker' = tracker
          /\ \A v \in Version \ {current_param_version} : dataFile'[v] = dataFile[v]
      BY <2>2 DEF OpenData, WriteData, CkInv, CheckpointTypeOK
    <3>2. tracker \in Version => dataFile'[tracker] = dataFile[tracker]
      BY <1>1, <3>1, NamedIsLast
    <3> QED BY <1>1, <3>1, <3>2, CompleteKept DEF FilesInv
  <2> QED BY <2>1, <2>2
<1>3. Listed'
  <2>1. \A i \in DOMAIN Parts : /\ Registered(i)' = Registered(i)
                                /\ Written(i)' => Written(i)
    BY <1>1 DEF Registered, Written
  <2> QED BY <1>1, <2>1, ListedKept DEF FilesInv
<1> QED BY <1>1, <1>2, <1>3, SaveFilesKept

(* The tracker names the new version when all of it is written. *)
LEMMA WriteTrackerFiles ==
  ASSUME CkInv, FilesInv, WriteTracker
  PROVE  FilesInv'
<1>1. /\ Alive /\ saving = "trackerOpen" /\ saving' = "idle"
      /\ tracker' = current_param_version /\ last_ckpt_version' = current_param_version
      /\ UNCHANGED <<keep, dir, weights, dataFile, part, model, current_param_version,
           local_trigger_step, previous_saved_paths>>
  BY DEF WriteTracker
<1>2. /\ weights[current_param_version] = model
      /\ dataFile[current_param_version] \in Nat
      /\ current_param_version \in Version /\ current_param_version >= 1
      /\ current_param_version \in Int /\ last_ckpt_version <= current_param_version
  BY <1>1, NewVersion DEF CkInv, Saving, ActorWritten, Version
<1>3. \A i \in DOMAIN Parts : Registered(i) /\ Written(i) /\ ~ Registered(i)' /\ ~ Written(i)'
  BY <1>1 DEF Registered, Written
<1>4. NamedIsComplete'
  <2>1. \A i \in DOMAIN Parts : dir[Parts[i]][current_param_version] = "complete"
    BY <1>1, <1>3 DEF FilesInv, Listed
  <2> QED BY <1>1, <1>2, <2>1 DEF NamedIsComplete, Complete, PartsComplete
<1>5. Listed'
  BY <1>1, <1>3 DEF FilesInv, Listed, Newest, Increasing
<1>6. (model \ Saved(current_param_version))' = {}
  BY <1>1, <1>2 DEF Saved
<1>7. /\ IsFiniteSet((model \ Saved(current_param_version))')
      /\ Cardinality((model \ Saved(current_param_version))') = 0
  BY <1>6, EmptyTrained
<1>8. Behind'
  <2>1. (local_trigger_step - 1) * RequiredSamples \in Nat
    <3>1. local_trigger_step - 1 \in Nat /\ RequiredSamples \in Nat
      BY Constants DEF CkInv, CheckpointTypeOK
    <3> QED BY <3>1
  <2> QED BY <1>1, <1>7, <2>1 DEF Behind
<1>9. EndSaved'
  <2>1. 0 < PerVersion
    BY Constants
  <2> QED BY <1>1, <1>7, <2>1 DEF EndSaved, Saved, PerVersion
<1> QED BY <1>4, <1>5, <1>8, <1>9 DEF FilesInv

-----------------------------------------------------------------------------
(* The files of a run against what its trainer remembers of them, for every *)
(* number of parts, of versions, of checkpoints kept and of restarts.       *)
THEOREM FilesKept == Spec => []FilesInv
<1>1. ASSUME CkInv, FilesInv, [Next]_vars
      PROVE  FilesInv'
  <2>1. CASE Start \/ Crash
    BY <1>1, <2>1, StartFiles, CrashFiles
  <2>2. CASE FeedSample \/ DataExhausted
    BY <1>1, <2>2, FeederFiles
  <2>3. CASE TrainStep \/ Finish
    BY <1>1, <2>3, TrainStepFiles, FinishFiles
  <2>4. CASE SavePart
    BY <1>1, <2>4, BeginPartFiles, WritePartFiles, RegisterPartFiles DEF SavePart
  <2>5. CASE SaveFiles
    BY <1>1, <2>5, OpenFiles, WriteTrackerFiles DEF SaveFiles
  <2>6. CASE UNCHANGED vars
    <3>1. NamedIsComplete' /\ Behind' /\ EndSaved'
      BY <1>1, <2>6 DEF vars, files, job, save, train, FilesInv, NamedIsComplete, KeepsOne,
         Complete, PartsComplete, Behind, EndSaved, Alive, Saved
    <3>2. Listed'
      BY <1>1, <2>6 DEF vars, files, job, save, train, FilesInv, Listed, Newest, Increasing,
         Written, Registered, Alive
    <3> QED BY <3>1, <3>2 DEF FilesInv
  <2> QED BY <1>1, <2>1, <2>2, <2>3, <2>4, <2>5, <2>6 DEF Next
<1> QED BY <1>1, InitFiles, CheckpointsKept, PTL DEF Spec

(* NamedIsComplete for every configuration: wherever a crash comes, what the *)
(* tracker names is whole, a save that keeps one checkpoint apart            *)
(* (fully_async_trainer.py:625-686, checkpoint_manager.py:135-172).          *)
THEOREM TrackerNamesComplete == Spec => []NamedIsComplete
<1>1. FilesInv => NamedIsComplete
  BY DEF FilesInv
<1> QED BY <1>1, FilesKept, PTL

(* EndSaved for every configuration: a run that ends has saved its version,  *)
(* and has lost less than a round of updates (lines 401-412, 588-607).       *)
THEOREM EndIsSaved == Spec => []EndSaved
<1>1. FilesInv => EndSaved
  BY DEF FilesInv
<1> QED BY <1>1, FilesKept, PTL

-----------------------------------------------------------------------------
(* Retention, life by life: the directories of a part that are on its list   *)
(* or being written are this life's, and no more than the limit allows; the  *)
(* others it found at its start, at most as many for each life before it.    *)
Dirs(p) == {v \in Version : dir[p][v] # "absent"}
InList(paths) == {v \in Version : \E a \in 1 .. Len(paths) : paths[a] = v}
Writing(p) == saving \in {"write", "register"} /\ Parts[part] = p
Underway(p) == IF Writing(p) THEN {current_param_version} ELSE {}
OwnDirs(p) == InList(previous_saved_paths[p]) \cup Underway(p)
Limit(p) == Max({2, keep[p]})

RetainedNow(p) ==
  /\ status = "down" => Cardinality(Dirs(p)) <= Limit(p) * restarts
  /\ status # "down" =>
       /\ Cardinality(Dirs(p) \ OwnDirs(p)) <= Limit(p) * restarts
       /\ Len(previous_saved_paths[p]) <=
            IF keep[p] > 1 /\ Writing(p) THEN keep[p] - 1 ELSE keep[p]

RetainInv == \A p \in Part : keep[p] # 0 => RetainedNow(p)

(* The limit is the larger of two and max_ckpt_to_keep.                      *)
LEMMA LimitType ==
  ASSUME CkInv, NEW p \in Part
  PROVE  keep[p] \in Nat /\ Limit(p) \in Nat /\ Limit(p) >= 2 /\ Limit(p) >= keep[p]
<1>1. keep[p] \in Nat
  BY RunCheckpointAssumption DEF CkInv, CheckpointTypeOK, Part
<1> DEFINE k == keep[p]
           m == IF k > 2 THEN k ELSE 2
<1>2. m \in {2, k} /\ \A y \in {2, k} : m >= y
  BY <1>1
<1> HIDE DEF k, m
<1>3. Max({2, k}) \in {2, k} /\ \A y \in {2, k} : Max({2, k}) >= y
  BY <1>2 DEF Max
<1> QED BY <1>1, <1>3 DEF Limit, k

(* There are finitely many versions.                                         *)
LEMMA VersionSets ==
  ASSUME NEW S, S \subseteq Version
  PROVE  IsFiniteSet(S) /\ Cardinality(S) \in Nat
<1>1. 0 \in Int /\ Planned + MaxRestarts \in Int
  BY Constants
<1>2. IsFiniteSet(Version)
  BY <1>1, FS_Interval DEF Version
<1> QED BY <1>2, FS_Subset, FS_CardinalityType

(* A list names no more versions than it is long.                            *)
LEMMA ListSize ==
  ASSUME NEW paths \in Seq(Version)
  PROVE  InList(paths) \subseteq Version /\ Cardinality(InList(paths)) <= Len(paths)
<1> DEFINE f == [a \in 1 .. Len(paths) |-> paths[a]]
<1>1. Len(paths) \in Nat
  OBVIOUS
<1>2. IsFiniteSet(1 .. Len(paths)) /\ Cardinality(1 .. Len(paths)) = Len(paths)
  BY <1>1, FS_Interval
<1>3. f \in Surjection(1 .. Len(paths), InList(paths))
  BY DEF Surjection, InList
<1> HIDE DEF f
<1> QED BY <1>2, <1>3, FS_Surjection DEF InList

(* What a removal takes off the list it also takes off the disk.             *)
LEMMA RestOrDropped ==
  ASSUME NEW paths \in Seq(Version), NEW n \in 0 .. Len(paths)
  PROVE  /\ InList(paths) \subseteq InList(Rest(paths, n)) \cup Dropped(paths, n)
         /\ Len(Rest(paths, n)) = Len(paths) - n
<1> DEFINE rest == Rest(paths, n)
<1>1. /\ Len(paths) \in Nat /\ rest \in Seq(Version) /\ DOMAIN rest = 1 .. Len(paths) - n
      /\ \A a \in 1 .. Len(paths) - n : rest[a] = paths[a + n]
  BY RestType, RestElements
<1> HIDE DEF rest
<1>2. Len(rest) = Len(paths) - n
  BY <1>1
<1>3. \A a \in 1 .. Len(paths) : a \in 1 .. n \/ (a - n \in 1 .. Len(rest) /\ rest[a - n] = paths[a])
  BY <1>1, <1>2
<1>4. InList(paths) \subseteq InList(rest) \cup Dropped(paths, n)
  BY <1>3 DEF InList, Dropped
<1> QED BY <1>2, <1>4 DEF rest

(* This life's directories are at most the limit.                            *)
LEMMA OwnBounded ==
  ASSUME CkInv, NEW p \in Part, keep[p] # 0, RetainedNow(p), status # "down"
  PROVE  Cardinality(Dirs(p)) <= Limit(p) * restarts + Limit(p)
<1> DEFINE list == InList(previous_saved_paths[p])
           u == Underway(p)
           own == OwnDirs(p)
           all == Dirs(p)
<1>1. /\ previous_saved_paths[p] \in Seq(Version) /\ current_param_version \in Version
      /\ restarts \in Nat
  BY DEF CkInv, CheckpointTypeOK
<1>2. /\ list \subseteq Version /\ Cardinality(list) <= Len(previous_saved_paths[p])
      /\ u \subseteq Version /\ own \subseteq Version /\ all \subseteq Version
      /\ own = list \cup u
  BY <1>1, ListSize DEF Underway, OwnDirs, Dirs
<1>3. Cardinality(u) = IF Writing(p) THEN 1 ELSE 0
  BY FS_EmptySet, FS_Singleton DEF Underway
<1> HIDE DEF list, u, own, all
<1>4. /\ IsFiniteSet(list) /\ Cardinality(list) \in Nat
      /\ IsFiniteSet(u) /\ Cardinality(u) \in Nat
      /\ IsFiniteSet(own) /\ Cardinality(own) \in Nat
      /\ IsFiniteSet(all) /\ Cardinality(all) \in Nat
      /\ Cardinality(list \cap u) \in Nat
      /\ IsFiniteSet(all \ own) /\ Cardinality(all \ own) \in Nat
  BY <1>2, VersionSets
<1>5. Cardinality(own) <= Cardinality(list) + Cardinality(u)
  <2>1. Cardinality(list \cup u) = Cardinality(list) + Cardinality(u) - Cardinality(list \cap u)
    BY <1>4, FS_Union
  <2> QED BY <1>2, <1>4, <2>1
<1>6. Cardinality(own) <= Limit(p)
  <2>1. /\ keep[p] \in Nat /\ Limit(p) \in Nat /\ Limit(p) >= 2 /\ Limit(p) >= keep[p]
        /\ Len(previous_saved_paths[p]) \in Nat
    BY <1>1, LimitType
  <2>2. Len(previous_saved_paths[p]) <=
          IF keep[p] > 1 /\ Writing(p) THEN keep[p] - 1 ELSE keep[p]
    BY DEF RetainedNow
  <2> QED BY <1>2, <1>3, <1>4, <1>5, <2>1, <2>2
<1>7. Cardinality(all) <= Cardinality(all \ own) + Cardinality(own)
  <2>1. IsFiniteSet((all \ own) \cup own) /\ all \subseteq (all \ own) \cup own
    BY <1>4, FS_Union
  <2>2. Cardinality(all) <= Cardinality((all \ own) \cup own)
    BY <2>1, FS_Subset
  <2>3. (all \ own) \cap own = {}
    OBVIOUS
  <2>4. Cardinality((all \ own) \cup own)
          = Cardinality(all \ own) + Cardinality(own) - Cardinality((all \ own) \cap own)
    BY <1>4, FS_Union
  <2>5. Cardinality((all \ own) \cap own) = 0
    BY <2>3, FS_EmptySet
  <2> QED BY <1>4, <2>2, <2>4, <2>5
<1>8. Cardinality(all \ own) <= Limit(p) * restarts
  BY DEF RetainedNow, all, own
<1>9. Limit(p) * restarts \in Nat /\ Limit(p) \in Nat
  BY <1>1, LimitType
<1> QED BY <1>4, <1>6, <1>7, <1>8, <1>9 DEF all

(* Steps that leave the directories, the lists and what is written alone.    *)
LEMMA RetainKept ==
  ASSUME RetainInv, UNCHANGED <<dir, previous_saved_paths, keep, restarts>>,
         status' = "down" <=> status = "down",
         \A p \in Part : /\ Writing(p)' <=> Writing(p)
                         /\ Writing(p) => current_param_version' = current_param_version
  PROVE  RetainInv'
<1> SUFFICES ASSUME NEW p \in Part, keep[p] # 0 PROVE RetainedNow(p)'
  BY DEF RetainInv
<1>1. /\ Underway(p)' = Underway(p) /\ (Writing(p)' <=> Writing(p))
      /\ Dirs(p)' = Dirs(p) /\ Limit(p)' = Limit(p)
      /\ InList(previous_saved_paths[p])' = InList(previous_saved_paths[p])
  BY DEF Underway, Dirs, Limit, InList
<1>2. OwnDirs(p)' = OwnDirs(p)
  BY <1>1 DEF OwnDirs
<1>3. RetainedNow(p)
  BY DEF RetainInv
<1> HIDE DEF OwnDirs, Dirs, Limit, Writing
<1> QED BY <1>1, <1>2, <1>3 DEF RetainedNow

(* A step of a life that makes no directory but its own, of the one part it  *)
(* saves.                                                                    *)
LEMMA RetainOwn ==
  ASSUME CkInv, RetainInv, status # "down", status' # "down", UNCHANGED <<keep, restarts>>,
         NEW p \in Part,
         \A q \in Part : q # p => /\ dir'[q] = dir[q] /\ ~ Writing(q) /\ ~ Writing(q)'
                                  /\ previous_saved_paths'[q] = previous_saved_paths[q],
         keep[p] # 0 => /\ Dirs(p)' \ OwnDirs(p)' \subseteq Dirs(p) \ OwnDirs(p)
                        /\ Len(previous_saved_paths'[p]) <=
                             IF keep[p] > 1 /\ Writing(p)' THEN keep[p] - 1 ELSE keep[p]
  PROVE  RetainInv'
<1> SUFFICES ASSUME NEW q \in Part, keep[q] # 0 PROVE RetainedNow(q)'
  BY DEF RetainInv
<1>1. RetainedNow(q)
  BY DEF RetainInv
<1>2. Limit(q)' = Limit(q)
  BY DEF Limit
<1>3. CASE q = p
  <2> DEFINE new == Dirs(p)' \ OwnDirs(p)'
             old == Dirs(p) \ OwnDirs(p)
  <2>1. new \subseteq old /\ new \subseteq Version /\ old \subseteq Version
    BY <1>3 DEF Dirs
  <2> HIDE DEF new, old
  <2>2. Cardinality(new) <= Cardinality(old) /\ Cardinality(new) \in Nat /\ Cardinality(old) \in Nat
    BY <2>1, VersionSets, FS_Subset
  <2>3. Cardinality(old) <= Limit(p) * restarts
    BY <1>1, <1>3 DEF RetainedNow, old
  <2>4. Limit(p) * restarts \in Nat
    BY LimitType DEF CkInv, CheckpointTypeOK
  <2>5. Cardinality(new) <= Limit(p) * restarts
    BY <2>2, <2>3, <2>4
  <2>6. Cardinality(Dirs(p)' \ OwnDirs(p)') <= Limit(p)' * restarts'
    BY <1>2, <1>3, <2>5 DEF new
  <2> QED BY <1>3, <2>6 DEF RetainedNow
<1>4. CASE q # p
  <2>1. /\ Dirs(q)' = Dirs(q) /\ ~ Writing(q) /\ ~ Writing(q)'
        /\ previous_saved_paths'[q] = previous_saved_paths[q]
    BY <1>4 DEF Dirs
  <2>2. OwnDirs(q)' = OwnDirs(q)
    BY <2>1 DEF OwnDirs, Underway, InList
  <2> QED BY <1>1, <1>2, <2>1, <2>2 DEF RetainedNow
<1> QED BY <1>3, <1>4

(* A save makes room before it makes its directory: at the limit, with more  *)
(* than one to keep, one less is listed while it writes.                     *)
LEMMA BeginPartRetains ==
  ASSUME CkInv, RetainInv, BeginPart
  PROVE  RetainInv'
<1>0. PICK p \in Part : /\ p = Parts[part] /\ keep[p] \in Nat
                        /\ previous_saved_paths[p] \in Seq(Version)
  BY PartSaved
<1> DEFINE paths == previous_saved_paths[p]
           n == ExcessBefore(paths, keep[p])
           v == current_param_version
<1>1. /\ status # "down" /\ status' # "down" /\ saving = "begin" /\ saving' = "write"
      /\ UNCHANGED <<keep, restarts, part, current_param_version>>
      /\ dir' = [dir EXCEPT ![p] = [Folder(p, Dropped(paths, n)) EXCEPT ![v] = "partial"]]
      /\ previous_saved_paths' = [previous_saved_paths EXCEPT ![p] = Rest(paths, n)]
  BY <1>0 DEF BeginPart, job, train, Alive
<1>2. /\ p \in Part /\ keep[p] \in Nat /\ paths \in Seq(Version) /\ v \in Version
      /\ dir \in [Part -> [Version -> {"absent", "partial", "complete"}]]
      /\ previous_saved_paths \in [Part -> Seq(Version)]
  BY <1>0 DEF CkInv, CheckpointTypeOK
<1>3. n \in 0 .. Len(paths) /\ (keep[p] > 1 /\ Len(paths) >= keep[p] => n = Len(paths) - keep[p] + 1)
  BY <1>2, ExcessType DEF ExcessBefore
<1> HIDE DEF n
<1>4. /\ InList(paths) \subseteq InList(Rest(paths, n)) \cup Dropped(paths, n)
      /\ Len(Rest(paths, n)) = Len(paths) - n
  BY <1>2, <1>3, RestOrDropped
<1>5. /\ previous_saved_paths'[p] = Rest(paths, n)
      /\ Dirs(p)' \subseteq (Dirs(p) \ Dropped(paths, n)) \cup {v}
  <2>1. dir'[p] = [Folder(p, Dropped(paths, n)) EXCEPT ![v] = "partial"]
    BY <1>1, <1>2
  <2>2. \A x \in Version : x # v /\ dir'[p][x] # "absent" =>
          x \notin Dropped(paths, n) /\ dir[p][x] # "absent"
    BY <1>2, <2>1 DEF Folder
  <2> HIDE DEF paths, v
  <2> QED BY <1>1, <1>2, <2>2 DEF Dirs
<1>6. \A q \in Part : q # p => /\ dir'[q] = dir[q] /\ ~ Writing(q) /\ ~ Writing(q)'
                               /\ previous_saved_paths'[q] = previous_saved_paths[q]
  BY <1>0, <1>1, <1>2 DEF Writing
<1>7. /\ Writing(p)' /\ ~ Writing(p)
      /\ OwnDirs(p)' = InList(Rest(paths, n)) \cup {v} /\ OwnDirs(p) = InList(paths)
  BY <1>0, <1>1, <1>5 DEF Writing, OwnDirs, Underway, InList
<1>8. Dirs(p)' \ OwnDirs(p)' \subseteq Dirs(p) \ OwnDirs(p)
  BY <1>4, <1>5, <1>7
<1>9. keep[p] # 0 => Len(previous_saved_paths'[p]) <= IF keep[p] > 1 THEN keep[p] - 1 ELSE keep[p]
  <2>1. keep[p] # 0 => Len(paths) <= keep[p]
    BY <1>1, <1>2, <1>7 DEF RetainInv, RetainedNow
  <2> DEFINE len == Len(paths)
             k == keep[p]
  <2>2. len \in Nat /\ k \in Nat /\ n \in 0 .. len /\ (k > 1 /\ len >= k => n = len - k + 1)
    BY <1>2, <1>3
  <2>3. Len(previous_saved_paths'[p]) = len - n
    BY <1>4, <1>5
  <2> HIDE DEF len
  <2>4. k # 0 => len <= k
    BY <2>1 DEF len
  <2> HIDE DEF k
  <2>5. k # 0 => len - n <= IF k > 1 THEN k - 1 ELSE k
    BY <2>2, <2>4
  <2> QED BY <2>3, <2>5 DEF k
<1>10. keep[p] # 0 => Len(previous_saved_paths'[p]) <=
                        IF keep[p] > 1 /\ Writing(p)' THEN keep[p] - 1 ELSE keep[p]
  BY <1>7, <1>9
<1> HIDE DEF paths, v
<1> QED BY <1>1, <1>2, <1>6, <1>8, <1>10, RetainOwn

(* Writing fills the directory that the save has made.                       *)
LEMMA WritePartRetains ==
  ASSUME CkInv, RetainInv, WritePart
  PROVE  RetainInv'
<1>0. PICK p \in Part : /\ p = Parts[part] /\ keep[p] \in Nat
                        /\ previous_saved_paths[p] \in Seq(Version)
  BY PartSaved
<1> DEFINE v == current_param_version
<1>1. /\ status # "down" /\ status' # "down" /\ saving = "write" /\ saving' = "register"
      /\ UNCHANGED <<keep, restarts, part, current_param_version, previous_saved_paths>>
      /\ dir' = [dir EXCEPT ![p][v] = "complete"]
  BY <1>0 DEF WritePart, job, train, Alive
<1>2. /\ p \in Part /\ v \in Version
      /\ dir \in [Part -> [Version -> {"absent", "partial", "complete"}]]
  BY <1>0 DEF CkInv, CheckpointTypeOK
<1>3. Dirs(p)' \subseteq Dirs(p) \cup {v}
  BY <1>1, <1>2 DEF Dirs
<1>4. \A q \in Part : q # p => /\ dir'[q] = dir[q] /\ ~ Writing(q) /\ ~ Writing(q)'
                               /\ previous_saved_paths'[q] = previous_saved_paths[q]
  BY <1>0, <1>1, <1>2 DEF Writing
<1>5. Writing(p)' /\ Writing(p) /\ OwnDirs(p)' = OwnDirs(p) /\ v \in OwnDirs(p)
  BY <1>0, <1>1 DEF Writing, OwnDirs, Underway, InList
<1>6. Dirs(p)' \ OwnDirs(p)' \subseteq Dirs(p) \ OwnDirs(p)
  BY <1>3, <1>5
<1>7. keep[p] # 0 => Len(previous_saved_paths'[p]) <=
                       IF keep[p] > 1 /\ Writing(p)' THEN keep[p] - 1 ELSE keep[p]
  BY <1>1, <1>2, <1>5 DEF RetainInv, RetainedNow
<1> HIDE DEF v
<1> QED BY <1>1, <1>2, <1>4, <1>6, <1>7, RetainOwn

(* The registration lists the new version and removes what is too many.      *)
LEMMA RegisterPartRetains ==
  ASSUME CkInv, RetainInv, RegisterPart
  PROVE  RetainInv'
<1>0. PICK p \in Part : /\ p = Parts[part] /\ keep[p] \in Nat
                        /\ previous_saved_paths[p] \in Seq(Version)
  BY PartSaved
<1> DEFINE v == current_param_version
           old == previous_saved_paths[p]
           paths == Append(old, v)
           n == ExcessAfter(paths, keep[p])
<1>1. /\ status # "down" /\ status' # "down" /\ saving = "register"
      /\ saving' \in {"begin", "data"} /\ UNCHANGED <<keep, restarts, current_param_version>>
      /\ dir' = [dir EXCEPT ![p] = Folder(p, Dropped(paths, n))]
      /\ previous_saved_paths' = [previous_saved_paths EXCEPT ![p] = Rest(paths, n)]
  BY <1>0 DEF RegisterPart, job, train, Alive
<1>2. /\ p \in Part /\ keep[p] \in Nat /\ old \in Seq(Version) /\ v \in Version
      /\ paths \in Seq(Version) /\ Len(paths) = Len(old) + 1 /\ Len(old) \in Nat
      /\ \A a \in 1 .. Len(old) : paths[a] = old[a]
      /\ paths[Len(old) + 1] = v
      /\ dir \in [Part -> [Version -> {"absent", "partial", "complete"}]]
      /\ previous_saved_paths \in [Part -> Seq(Version)]
  BY <1>0 DEF CkInv, CheckpointTypeOK
<1> HIDE DEF paths
<1>3. n \in 0 .. Len(paths) /\ (keep[p] > 0 /\ Len(paths) > keep[p] => n = Len(paths) - keep[p])
  BY <1>2, ExcessType DEF ExcessAfter
<1> HIDE DEF n
<1>4. /\ InList(paths) \subseteq InList(Rest(paths, n)) \cup Dropped(paths, n)
      /\ Len(Rest(paths, n)) = Len(paths) - n
  BY <1>2, <1>3, RestOrDropped
<1>5. InList(paths) = InList(old) \cup {v}
  <2>1. \A a \in 1 .. Len(paths) : a \in 1 .. Len(old) \/ a = Len(old) + 1
    BY <1>2
  <2>2. 1 .. Len(old) \subseteq 1 .. Len(paths) /\ Len(old) + 1 \in 1 .. Len(paths)
    BY <1>2
  <2> HIDE DEF old, v
  <2> QED BY <1>2, <2>1, <2>2 DEF InList
<1>6. previous_saved_paths'[p] = Rest(paths, n) /\ Dirs(p)' \subseteq Dirs(p) \ Dropped(paths, n)
  <2>1. dir'[p] = Folder(p, Dropped(paths, n))
    BY <1>1, <1>2
  <2>2. \A x \in Version : dir'[p][x] # "absent" =>
          x \notin Dropped(paths, n) /\ dir[p][x] # "absent"
    BY <1>2, <2>1 DEF Folder
  <2> HIDE DEF old
  <2> QED BY <1>1, <1>2, <2>2 DEF Dirs
<1>7. \A q \in Part : q # p => /\ dir'[q] = dir[q] /\ ~ Writing(q) /\ ~ Writing(q)'
                               /\ previous_saved_paths'[q] = previous_saved_paths[q]
  BY <1>0, <1>1, <1>2 DEF Writing
<1>8. /\ Writing(p) /\ ~ Writing(p)'
      /\ OwnDirs(p)' = InList(Rest(paths, n)) /\ OwnDirs(p) = InList(old) \cup {v}
  BY <1>0, <1>1, <1>6 DEF Writing, OwnDirs, Underway, InList
<1>9. Dirs(p)' \ OwnDirs(p)' \subseteq Dirs(p) \ OwnDirs(p)
  BY <1>4, <1>5, <1>6, <1>8
<1>10. keep[p] # 0 => Len(previous_saved_paths'[p]) <=
                        IF keep[p] > 1 /\ Writing(p)' THEN keep[p] - 1 ELSE keep[p]
  <2> DEFINE len == Len(paths)
             k == keep[p]
  <2>1. len \in Nat /\ k \in Nat /\ n \in 0 .. len /\ (k > 0 /\ len > k => n = len - k)
    BY <1>2, <1>3
  <2>2. Len(previous_saved_paths'[p]) = len - n
    BY <1>4, <1>6
  <2> HIDE DEF len, k
  <2>3. k # 0 => len - n <= k
    BY <2>1
  <2> QED BY <1>8, <2>2, <2>3 DEF k
<1> HIDE DEF v, old
<1> QED BY <1>1, <1>2, <1>7, <1>9, <1>10, RetainOwn

(* A crash makes this life's directories old ones; a start lists nothing.    *)
LEMMA LifeRetains ==
  ASSUME CkInv, RetainInv, Start \/ Crash
  PROVE  RetainInv'
<1> SUFFICES ASSUME NEW p \in Part, keep[p] # 0 PROVE RetainedNow(p)'
  BY DEF RetainInv, Start, Crash
<1>1. RetainedNow(p) /\ restarts \in Nat /\ Limit(p) \in Nat
  BY LimitType DEF RetainInv, CkInv, CheckpointTypeOK
<1>2. UNCHANGED <<keep, dir>> /\ Dirs(p)' = Dirs(p) /\ Limit(p)' = Limit(p)
  BY DEF Start, Crash, files, Dirs, Limit
<1>3. CASE Start
  <2>1. /\ status = "down" /\ status' = "up" /\ restarts' = restarts
        /\ previous_saved_paths'[p] = <<>> /\ Len(<<>>) = 0
        /\ saving' = "idle"
    BY <1>3 DEF Start
  <2>2. ~ Writing(p)' /\ keep[p] \in Nat
    BY <2>1, LimitType DEF Writing
  <2>3. Cardinality(Dirs(p)) <= Limit(p) * restarts
    BY <1>1, <2>1 DEF RetainedNow
  <2>4. Cardinality(Dirs(p)' \ OwnDirs(p)') <= Limit(p) * restarts
    <3> DEFINE all == Dirs(p)
               some == Dirs(p)' \ OwnDirs(p)'
    <3>1. some \subseteq all /\ all \subseteq Version
      BY <1>2 DEF Dirs
    <3> HIDE DEF all, some
    <3>2. Cardinality(some) <= Cardinality(all) /\ Cardinality(some) \in Nat /\ Cardinality(all) \in Nat
      BY <3>1, VersionSets, FS_Subset
    <3>3. Limit(p) * restarts \in Nat
      BY <1>1
    <3> QED BY <2>3, <3>2, <3>3 DEF all, some
  <2> QED BY <1>2, <2>1, <2>2, <2>4 DEF RetainedNow
<1>4. CASE Crash
  <2>1. status # "down" /\ status' = "down" /\ restarts' = restarts + 1
    BY <1>4 DEF Crash
  <2>2. Cardinality(Dirs(p)) <= Limit(p) * restarts + Limit(p)
    BY <1>1, <2>1, OwnBounded
  <2>3. Limit(p) * (restarts + 1) = Limit(p) * restarts + Limit(p)
    BY <1>1
  <2> QED BY <1>2, <2>1, <2>2, <2>3 DEF RetainedNow
<1> QED BY <1>3, <1>4

(* Every step keeps to the limits.                                           *)
LEMMA RetainStep ==
  ASSUME CkInv, RetainInv, [Next]_vars
  PROVE  RetainInv'
<1>1. CASE FeedSample \/ DataExhausted \/ UNCHANGED vars
  BY <1>1, RetainKept DEF FeedSample, DataExhausted, vars, files, job, save, train, Writing
<1>2. CASE TrainStep \/ Finish
  <2>1. /\ UNCHANGED <<dir, previous_saved_paths, keep, restarts>> /\ saving = "idle"
        /\ saving' \in {"idle", "begin"} /\ status # "down" /\ status' # "down"
    BY <1>2 DEF TrainStep, Finish, files, job
  <2> QED BY <2>1, RetainKept DEF Writing
<1>3. CASE OpenData \/ WriteData \/ OpenTracker \/ WriteTracker
  <2>1. /\ UNCHANGED <<dir, previous_saved_paths, keep, restarts>>
        /\ saving \notin {"write", "register"} /\ saving' \notin {"write", "register"}
        /\ status # "down" /\ status' # "down"
    BY <1>3 DEF OpenData, WriteData, OpenTracker, WriteTracker, job, Alive
  <2> QED BY <2>1, RetainKept DEF Writing
<1> QED BY <1>1, <1>2, <1>3, LifeRetains, BeginPartRetains, WritePartRetains, RegisterPartRetains
        DEF Next, SavePart, SaveFiles

(* No directory at the first start.                                          *)
LEMMA InitRetain == Init => RetainInv
<1> SUFFICES ASSUME Init, NEW p \in Part, keep[p] # 0 PROVE RetainedNow(p)
  BY DEF RetainInv
<1>1. dir[p] = [v \in Version |-> "absent"] /\ status = "down" /\ restarts = 0
  BY DEF Init
<1>2. Dirs(p) = {} /\ Cardinality({}) = 0
  BY <1>1, FS_EmptySet DEF Dirs
<1>3. Limit(p) * 0 = 0
  <2>1. CkInv
    BY InitCheckpoint
  <2> QED BY <2>1, LimitType
<1> QED BY <1>1, <1>2, <1>3 DEF RetainedNow

(* Retained for every limit, every part and any number of crashes at any     *)
(* moment of a save: the disk never holds more checkpoints of a part than    *)
(* the limit for each life of the job (checkpoint_manager.py:135-172).       *)
THEOREM DisksBounded == Spec => []Retained
<1>1. Spec => []RetainInv
  <2>1. []CkInv /\ RetainInv /\ [][Next]_vars => []RetainInv
    <3>1. CkInv /\ RetainInv /\ [Next]_vars => RetainInv'
      BY RetainStep
    <3> QED BY <3>1, PTL
  <2> QED BY <2>1, InitRetain, CheckpointsKept, PTL DEF Spec
<1>2. CkInv /\ RetainInv => Retained
  <2> SUFFICES ASSUME CkInv, RetainInv, NEW p \in Part, keep[p] # 0
               PROVE  Cardinality(Dirs(p)) <= Limit(p) * (restarts + 1)
    BY DEF Retained, Dirs, Limit
  <2>1. RetainedNow(p) /\ restarts \in Nat /\ Limit(p) \in Nat
    BY LimitType DEF RetainInv, CkInv, CheckpointTypeOK
  <2>2. /\ Limit(p) * (restarts + 1) = Limit(p) * restarts + Limit(p)
        /\ Limit(p) * restarts \in Nat
    BY <2>1
  <2>3. CASE status = "down"
    <3>1. Cardinality(Dirs(p)) <= Limit(p) * restarts
      BY <2>1, <2>3 DEF RetainedNow
    <3>2. Cardinality(Dirs(p)) \in Nat
      BY VersionSets DEF Dirs
    <3> QED BY <2>1, <2>2, <3>1, <3>2
  <2>4. CASE status # "down"
    BY <2>1, <2>2, <2>4, OwnBounded
  <2> QED BY <2>3, <2>4
<1> QED BY <1>1, <1>2, CheckpointsKept, PTL
=============================================================================
