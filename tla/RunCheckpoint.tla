---------------------------- MODULE RunCheckpoint ----------------------------
(***************************************************************************)
(* Saving and resuming a run of verl/experimental/fully_async_policy: the  *)
(* trainer's _save_checkpoint with the engines' retention of old           *)
(* checkpoints (verl/utils/checkpoint/checkpoint_manager.py), the          *)
(* rollouter's save of the dataloader, the tracker file, a job that is     *)
(* killed at any moment and started again, and what the resumed run feeds. *)
(* The pipeline between feeder and trainer is the set of samples in it:    *)
(* FullyAsync models it in detail.  A sample is its position in the data.  *)
(***************************************************************************)
EXTENDS Integers, Sequences, FiniteSets, FiniteSetsExt

CONSTANTS
  TotalSteps,       (* total_rollout_steps                                   *)
  RequiredSamples,  (* required_samples: samples of one trainer step         *)
  TriggerSync,      (* trigger_parameter_sync_step                           *)
  MaxInFlight,      (* samples pending, generating or queued at one time     *)
  SaveFreq,         (* trainer.save_freq, not positive: never save           *)
  Esi,              (* the instance may expire: should_save_ckpt_esi may     *)
                    (* answer True                                           *)
  Parts,            (* what is saved in turn: <<"actor">> or                 *)
                    (* <<"actor", "critic">>                                 *)
  Keeps,            (* max_actor_ckpt_to_keep, max_critic_ckpt_to_keep to    *)
                    (* choose from; 0 is None, keep all                      *)
  DataSize,         (* samples the dataloader holds, with total_epochs = 1;  *)
                    (* total_rollout_steps may be configured smaller         *)
  MaxRestarts       (* bound of the model: times the job is started again    *)

ASSUME RunCheckpointAssumption ==
  /\ {TotalSteps, RequiredSamples, TriggerSync, MaxInFlight, DataSize}
       \subseteq Nat \ {0}
  /\ TotalSteps <= DataSize
  /\ MaxRestarts \in Nat
  /\ SaveFreq \in Int
  /\ Parts \in {<<"actor">>, <<"actor", "critic">>}
  /\ Keeps \subseteq [{"actor", "critic"} -> Nat]
  /\ Esi \in BOOLEAN

Part == {"actor", "critic"}
PerVersion == RequiredSamples * TriggerSync
Planned == TotalSteps \div PerVersion           (* total_train_steps         *)
Version == 0 .. Planned + MaxRestarts
Missing == -1                                   (* no such file              *)
Torn == -2                                      (* truncated, not yet written*)

VARIABLES
  keep,        (* the configured limits, the same in every life of the job   *)
  (* Files: they survive a crash *)
  dir,         (* [Part -> [Version -> "absent", "partial" or "complete"]]   *)
  weights,     (* [Version -> samples the saved actor was trained with]      *)
  dataFile,    (* [Version -> position in data.pt, Missing or Torn]          *)
  tracker,     (* latest_checkpointed_iteration.txt: version, Missing, Torn  *)
  (* The job *)
  status,      (* "down", "up", "ending" (the last save) or "ended"          *)
  restarts,
  saving,      (* where _save_checkpoint is                                  *)
  part,        (* index in Parts of the part being saved                     *)
  (* Trainer *)
  model,       (* samples the actor in memory was trained with               *)
  current_param_version, local_trigger_step, last_ckpt_version,
  previous_saved_paths, (* [Part -> sequence of versions]                    *)
  (* Rollouter *)
  position,    (* the dataloader's position                                  *)
  global_steps, feeding, inFlight

files == <<dir, weights, dataFile, tracker>>
job == <<status, restarts>>
save == <<saving, part>>
train == <<model, current_param_version, local_trigger_step, last_ckpt_version>>
rollout == <<position, global_steps, feeding, inFlight>>
vars == <<keep, files, job, save, train, previous_saved_paths, rollout>>

Init ==
  /\ keep \in Keeps
  /\ dir = [p \in Part |-> [v \in Version |-> "absent"]]
  /\ weights = [v \in Version |-> {}]
  /\ dataFile = [v \in Version |-> Missing]
  /\ tracker = Missing
  /\ status = "down"
  /\ restarts = 0
  /\ saving = "idle"
  /\ part = 1
  /\ model = {}
  /\ current_param_version = 0
  /\ local_trigger_step = 1
  /\ last_ckpt_version = 0
  /\ previous_saved_paths = [p \in Part |-> <<>>]
  /\ position = 0
  /\ global_steps = 1
  /\ feeding = FALSE
  /\ inFlight = {}

-----------------------------------------------------------------------------
(* find_latest_ckpt_path: a folder global_step_v exists once any part or the *)
(* dataloader has been written into it.                                      *)
Latest ==
  IF /\ tracker # Missing
     /\ \/ \E p \in Part : dir[p][tracker] # "absent"
        \/ dataFile[tracker] # Missing
  THEN tracker ELSE 0

(* The trainer's load_checkpoint raises when a part is missing, the           *)
(* rollouter's when data.pt is truncated; without data.pt it only warns.     *)
PartsComplete(v) == \A i \in DOMAIN Parts : dir[Parts[i]][v] = "complete"
Loadable(v) == PartsComplete(v) /\ dataFile[v] # Torn

ResumedPositionFaulty(v) == 0      (* the dataloader is not resumed *)
ResumedPositionFurther(v) ==       (* a sample read ahead is skipped as well *)
  IF v = 0 \/ dataFile[v] = Missing THEN 0 ELSE dataFile[v] + 1
ResumedStepsFaulty(v) == 1         (* the feeder counts from the start *)
ResumedCkptFaulty(v) == 0          (* the saved version is forgotten *)

(* What load_checkpoint of trainer and rollouter take from version v;        *)
(* version 0 is a run from scratch.                                          *)
ResumedPosition(v) == IF v = 0 \/ dataFile[v] = Missing THEN 0 ELSE dataFile[v]
ResumedSteps(v) == v * PerVersion + 1
ResumedCkpt(v) == v
Resume(v) ==
  /\ current_param_version' = v
  /\ last_ckpt_version' = ResumedCkpt(v)
  /\ model' = IF v = 0 THEN {} ELSE weights[v]
  /\ position' = ResumedPosition(v)
  /\ global_steps' = ResumedSteps(v)

(* The job starts.  A torn tracker (int('')) or a missing part raises: the   *)
(* job does not come up, and no action is left.                              *)
Start ==
  /\ status = "down"
  /\ tracker # Torn
  /\ Latest = 0 \/ Loadable(Latest)
  /\ Resume(Latest)
  /\ status' = "up"
  /\ local_trigger_step' = 1
  /\ previous_saved_paths' = [p \in Part |-> <<>>]
  /\ saving' = "idle"
  /\ part' = 1
  /\ feeding' = TRUE
  /\ inFlight' = {}
  /\ UNCHANGED <<keep, files, restarts>>

(* The job is killed, or has ended and is submitted again: nothing but the   *)
(* files remains.                                                            *)
Crash ==
  /\ status # "down"
  /\ restarts < MaxRestarts
  /\ status' = "down"
  /\ restarts' = restarts + 1
  /\ UNCHANGED <<keep, files, save, train, previous_saved_paths, rollout>>

Alive == status \in {"up", "ending"}

-----------------------------------------------------------------------------
(* _feed_samples: the iterator yields a sample, which then counts as read;   *)
(* the bound is tested after the put.  While the rollouter writes the        *)
(* dataloader's state its event loop runs nothing else.                      *)
Feeding == Alive /\ feeding /\ saving # "dataOpen"
LastFed == global_steps >= TotalSteps
FeedSample ==
  /\ Feeding
  /\ position < DataSize
  /\ Cardinality(inFlight) < MaxInFlight
  /\ inFlight' = inFlight \cup {position}
  /\ position' = position + 1
  /\ feeding' = ~LastFed
  /\ global_steps' = IF LastFed THEN global_steps ELSE global_steps + 1
  /\ UNCHANGED <<keep, files, job, save, train, previous_saved_paths>>

(* The iterator ends before total_rollout_steps is reached. *)
DataExhausted ==
  /\ Feeding
  /\ position >= DataSize
  /\ feeding' = FALSE
  /\ UNCHANGED <<keep, files, job, save, train, previous_saved_paths,
                 position, global_steps, inFlight>>

-----------------------------------------------------------------------------
(* _fit_save_checkpoint *)
SavesNow(version, force) ==
  /\ version # last_ckpt_version
  /\ SaveFreq > 0
  /\ force \/ version % SaveFreq = 0 \/ Esi
MayNotSaveFaulty(version, force) ==   (* also the last save keeps to the frequency *)
  \/ version = last_ckpt_version
  \/ SaveFreq <= 0
  \/ version % SaveFreq # 0

MayNotSave(version, force) ==
  \/ version = last_ckpt_version
  \/ SaveFreq <= 0
  \/ ~force /\ version % SaveFreq # 0

RoundContinues == local_trigger_step < TriggerSync

(* fit_step: an update, the version's cycle, and the question whether to     *)
(* save.                                                                     *)
TrainStep ==
  /\ status = "up"
  /\ saving = "idle"
  /\ \E batch \in kSubset(RequiredSamples, inFlight) :
       /\ model' = model \cup batch
       /\ inFlight' = inFlight \ batch
  /\ IF RoundContinues
     THEN /\ local_trigger_step' = local_trigger_step + 1
          /\ UNCHANGED current_param_version
     ELSE /\ local_trigger_step' = 1
          /\ current_param_version' = current_param_version + 1
  /\ \/ SavesNow(current_param_version', FALSE) /\ saving' = "begin"
     \/ MayNotSave(current_param_version', FALSE) /\ UNCHANGED saving
  /\ part' = 1
  /\ UNCHANGED <<keep, files, job, last_ckpt_version, previous_saved_paths,
                 position, global_steps, feeding>>

StarvedFaulty == ~feeding /\ inFlight = {} /\ local_trigger_step = 1

(* The batch that is left when no more samples come. *)
Starved == ~feeding /\ Cardinality(inFlight) < RequiredSamples

(* fit: the end marker is met, with what is left of a batch given up; the    *)
(* forced save.                                                              *)
Finish ==
  /\ status = "up"
  /\ saving = "idle"
  /\ Starved
  /\ part' = 1
  /\ \/ /\ SavesNow(current_param_version, TRUE)
        /\ saving' = "begin"
        /\ status' = "ending"
     \/ /\ MayNotSave(current_param_version, TRUE)
        /\ status' = "ended"
        /\ UNCHANGED saving
  /\ UNCHANGED <<keep, files, restarts, train, previous_saved_paths, rollout>>

-----------------------------------------------------------------------------
(* Retention: the versions of a part's paths that are removed, and the ones  *)
(* that stay on the list.                                                    *)
Dropped(paths, n) == {paths[i] : i \in 1 .. n}
Rest(paths, n) == SubSeq(paths, n + 1, Len(paths))

ExcessBeforeNone(paths, max) == 0   (* fault: only the registration removes *)

(* ensure_checkpoint_capacity: how many of the oldest go before a save. *)
ExcessBefore(paths, max) ==
  IF max > 1 /\ Len(paths) >= max THEN Len(paths) - max + 1 ELSE 0

(* register_checkpoint: how many of the oldest go after it. *)
ExcessAfter(paths, max) ==
  IF max > 0 /\ Len(paths) > max THEN Len(paths) - max ELSE 0

Folder(p, gone) ==
  [v \in Version |-> IF v \in gone THEN "absent" ELSE dir[p][v]]

(* save_checkpoint of an engine: makes room, then creates the directory. *)
BeginPart ==
  /\ Alive
  /\ saving = "begin"
  /\ LET p == Parts[part]
         n == ExcessBefore(previous_saved_paths[p], keep[p])
     IN /\ dir' = [dir EXCEPT ![p] =
               [Folder(p, Dropped(previous_saved_paths[p], n))
                  EXCEPT ![current_param_version] = "partial"]]
        /\ previous_saved_paths' =
               [previous_saved_paths EXCEPT ![p] = Rest(@, n)]
  /\ saving' = "write"
  /\ UNCHANGED <<keep, weights, dataFile, tracker, job, part, train, rollout>>

(* Every rank has written its shards: the barrier. *)
WritePart ==
  /\ Alive
  /\ saving = "write"
  /\ dir' = [dir EXCEPT ![Parts[part]][current_param_version] = "complete"]
  /\ weights' = IF Parts[part] = "actor"
                THEN [weights EXCEPT ![current_param_version] = model]
                ELSE weights
  /\ saving' = "register"
  /\ UNCHANGED <<keep, dataFile, tracker, job, part, train, previous_saved_paths,
                 rollout>>

RegisterPart ==
  /\ Alive
  /\ saving = "register"
  /\ LET p == Parts[part]
         paths == Append(previous_saved_paths[p], current_param_version)
         n == ExcessAfter(paths, keep[p])
     IN /\ previous_saved_paths' = [previous_saved_paths EXCEPT ![p] = Rest(paths, n)]
        /\ dir' = [dir EXCEPT ![p] = Folder(p, Dropped(paths, n))]
  /\ IF part < Len(Parts)
     THEN part' = part + 1 /\ saving' = "begin"
     ELSE saving' = "data" /\ UNCHANGED part
  /\ UNCHANGED <<keep, weights, dataFile, tracker, job, train, rollout>>

(* The rollouter's save_checkpoint: the state is taken under the lock, then  *)
(* written by torch.save.                                                    *)
OpenData ==
  /\ Alive
  /\ saving = "data"
  /\ dataFile' = [dataFile EXCEPT ![current_param_version] = Torn]
  /\ saving' = "dataOpen"
  /\ UNCHANGED <<keep, dir, weights, tracker, job, part, train, previous_saved_paths,
                 rollout>>

WriteData ==
  /\ Alive
  /\ saving = "dataOpen"
  /\ dataFile' = [dataFile EXCEPT ![current_param_version] = position]
  /\ saving' = "tracker"
  /\ UNCHANGED <<keep, dir, weights, tracker, job, part, train, previous_saved_paths,
                 rollout>>

(* open(..., "w") truncates the tracker, the write follows. *)
OpenTracker ==
  /\ Alive
  /\ saving = "tracker"
  /\ tracker' = Torn
  /\ saving' = "trackerOpen"
  /\ UNCHANGED <<keep, dir, weights, dataFile, job, part, train, previous_saved_paths,
                 rollout>>

WriteTracker ==
  /\ Alive
  /\ saving = "trackerOpen"
  /\ tracker' = current_param_version
  /\ last_ckpt_version' = current_param_version
  /\ saving' = "idle"
  /\ status' = IF status = "ending" THEN "ended" ELSE status
  /\ UNCHANGED <<keep, dir, weights, dataFile, restarts, part, model,
                 current_param_version, local_trigger_step,
                 previous_saved_paths, rollout>>

SavePart == BeginPart \/ WritePart \/ RegisterPart
SaveFiles == OpenData \/ WriteData \/ OpenTracker \/ WriteTracker

Next ==
  \/ Start \/ Crash
  \/ FeedSample \/ DataExhausted
  \/ TrainStep \/ Finish
  \/ SavePart \/ SaveFiles

Spec == Init /\ [][Next]_vars

(* Every process of the job is scheduled, and a job that is down is started  *)
(* again; a crash is never owed.                                             *)
Fairness == WF_vars(Start) /\ WF_vars(FeedSample \/ DataExhausted)
            /\ WF_vars(TrainStep \/ Finish) /\ WF_vars(SavePart \/ SaveFiles)
FairSpec == Spec /\ Fairness
-----------------------------------------------------------------------------
(* Types; local_trigger_step stays in its cycle, every file and version in   *)
(* its range.                                                                *)
CheckpointTypeOK ==
  /\ keep \in Keeps
  /\ dir \in [Part -> [Version -> {"absent", "partial", "complete"}]]
  /\ weights \in [Version -> SUBSET Nat]
  /\ dataFile \in [Version -> Nat \cup {Missing, Torn}]
  /\ tracker \in Version \cup {Missing, Torn}
  /\ status \in {"down", "up", "ending", "ended"}
  /\ restarts \in 0 .. MaxRestarts
  /\ saving \in {"idle", "begin", "write", "register", "data", "dataOpen",
                 "tracker", "trackerOpen"}
  /\ part \in DOMAIN Parts
  /\ model \in SUBSET Nat
  /\ current_param_version \in Version
  /\ local_trigger_step \in 1 .. TriggerSync
  /\ last_ckpt_version \in Version
  /\ previous_saved_paths \in [Part -> Seq(Version)]
  /\ position \in Nat
  /\ global_steps \in Nat \ {0}
  /\ feeding \in BOOLEAN
  /\ inFlight \in SUBSET Nat

(* At every moment, so also after a crash between any two writes, the        *)
(* checkpoint the tracker names can be loaded: every part and the dataloader *)
(* are complete.  A part of which one checkpoint is kept is the exception:   *)
(* its registration removes the one the tracker names before the critic, the *)
(* dataloader and the tracker are written, and a crash in that save leaves   *)
(* nothing to resume from.                                                   *)
Complete(v) == PartsComplete(v) /\ dataFile[v] \in Nat
KeepsOne == \E i \in DOMAIN Parts : keep[Parts[i]] = 1
NamedIsComplete ==
  tracker \in Version /\ (KeepsOne => saving = "idle") => Complete(tracker)

(* In the lineage of the model in memory, over every resume, no sample is    *)
(* trained twice: what has been trained is never fed again.                  *)
NeverTwice ==
  Alive => /\ model \subseteq 0 .. position - 1
           /\ model \cap inFlight = {}

(* A resume skips samples (the warning in the rollouter's save_checkpoint),  *)
(* but never more of them than were in flight at the save.                   *)
SkippedBounded ==
  Alive => position - Cardinality(model) - Cardinality(inFlight)
             <= MaxInFlight * restarts

(* However often it is resumed, a run completes no more versions than are    *)
(* planned; with one sample per version, the one sample the feeder puts when *)
(* nothing is left makes one version more at each start.                     *)
NoMoreThanPlanned ==
  current_param_version <=
    Planned + (IF PerVersion = 1 THEN restarts ELSE 0)

(* A run that ends leaves its last version on disk; only local updates made  *)
(* after that version, less than a round of them, are not saved.             *)
EndSaved ==
  status = "ended" /\ SaveFreq > 0 =>
    LET v == current_param_version
        saved == IF v = 0 THEN {} ELSE weights[v]
    IN /\ v # 0 => tracker = v
       /\ Cardinality(model \ saved) < PerVersion

(* Retention: one life of the job leaves at most max_ckpt_to_keep            *)
(* directories of a part, also while it saves (with 1, two while it saves);  *)
(* what it found at its start is not on its list and stays.                  *)
Retained ==
  \A p \in Part : keep[p] # 0 =>
    Cardinality({v \in Version : dir[p][v] # "absent"})
      <= Max({2, keep[p]}) * (restarts + 1)

(* Under fairness, and with crashes bounded, every run ends, unless a crash  *)
(* truncated the tracker or came in a save that keeps one checkpoint, which  *)
(* no start survives.                                                        *)
Unloadable == tracker = Torn \/ (tracker \in Version /\ ~ Loadable(tracker))
EndsOrTorn == <>[](status = "ended" \/ (status = "down" /\ Unloadable))
=============================================================================
