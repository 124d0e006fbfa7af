----------------------------- MODULE Checkpoint -----------------------------
(***************************************************************************)
(* How a training run saves itself and comes back.  The driver             *)
(* (verl/trainer/ppo/ray_trainer.py, fit, _save_checkpoint and             *)
(* _load_checkpoint) has every role's worker group save its shards, saves  *)
(* the dataloader and names the step in a tracker file.  Every rank of a   *)
(* group writes its own shard; rank 0 first removes the group's oldest     *)
(* checkpoints (verl/utils/checkpoint/fsdp_checkpoint_manager.py).  The    *)
(* job may die between any two of these steps; started again, it loads     *)
(* what the tracker names.                                                 *)
(***************************************************************************)
EXTENDS Integers, FiniteSets, Sequences

CONSTANTS
    Ranks, Rank0,    \* the ranks of a worker group and the one that rotates
    Roles,           \* the groups in the order they save: actor, then critic
    MaxToKeep,       \* role -> max_actor/critic_ckpt_to_keep; 0 for null
    SaveFreq,        \* trainer.save_freq; <= 0 for never
    TotalSteps,      \* total_training_steps
    MaxCrashes       \* bound on the number of crashes explored

RoleSet == {Roles[i] : i \in 1 .. Len(Roles)}

ASSUME CheckpointAssumption ==
    /\ IsFiniteSet(Ranks) /\ Rank0 \in Ranks
    /\ Roles \in Seq({"actor", "critic"}) /\ Len(Roles) \in 1 .. 2
    /\ \A i, j \in 1 .. Len(Roles) : Roles[i] = Roles[j] => i = j
    /\ MaxToKeep \in [RoleSet -> Nat]
    /\ SaveFreq \in Int
    /\ TotalSteps \in Nat \ {0}
    /\ MaxCrashes \in Nat

VARIABLES
    pc,             \* where the driver is
    global_steps,
    turn,           \* index of the role that is saving
    phase,          \* rank -> where it is in save_checkpoint
    saved_paths,    \* role -> steps in rank 0's previous_saved_paths
    shards,         \* complete shard files: [role, step, rank]
    dataloaders,    \* steps with a data.pt
    tracker,        \* latest_checkpointed_iteration.txt
    crashes

driver  == <<pc, global_steps, turn>>
workers == <<phase, saved_paths>>
disk    == <<shards, dataloaders, tracker>>
ckptVars == <<driver, workers, disk, crashes>>

NoFile == 0        \* the tracker was never written
Truncated == -1    \* it was opened for writing and not yet written

Phases == {"idle", "entered", "ready", "writing", "saved"}

CkptTypeOK ==
    /\ pc \in {"train", "save", "data", "open", "write", "end",
               "down", "done", "broken"}
    /\ global_steps \in Nat \ {0}
    /\ turn \in 1 .. Len(Roles)
    /\ phase \in [Ranks -> Phases]
    /\ saved_paths \in [RoleSet -> SUBSET (Nat \ {0})]
    /\ shards \subseteq [role : RoleSet, step : Nat \ {0}, rank : Ranks]
    /\ dataloaders \subseteq Nat \ {0}
    /\ tracker \in Nat \cup {Truncated}
    /\ crashes \in 0 .. MaxCrashes

AllRanks(p) == [r \in Ranks |-> p]

Init ==
    /\ pc = "train"
    /\ global_steps = 1
    /\ turn = 1
    /\ phase = AllRanks("idle")
    /\ saved_paths = [r \in RoleSet |-> {}]
    /\ shards = {}
    /\ dataloaders = {}
    /\ tracker = NoFile
    /\ crashes = 0

-----------------------------------------------------------------------------
(* The step that decides whether to save.  An elastic instance about to     *)
(* expire forces a save at any step.                                        *)
IsLastStep == global_steps >= TotalSteps

SaveDueAtTheEnd(expiring) == SaveFreq > 0 /\ IsLastStep
SaveDue(expiring) ==
    /\ SaveFreq > 0
    /\ IsLastStep \/ global_steps % SaveFreq = 0 \/ expiring

Train ==
    /\ pc = "train"
    /\ \E expiring \in BOOLEAN :
          IF SaveDue(expiring)
          THEN pc' = "save" /\ turn' = 1 /\ phase' = AllRanks("entered")
          ELSE pc' = "end" /\ UNCHANGED <<turn, phase>>
    /\ UNCHANGED <<global_steps, saved_paths, disk, crashes>>

EndStep ==
    /\ pc = "end"
    /\ pc' = IF IsLastStep THEN "done" ELSE "train"
    /\ global_steps' = global_steps + 1
    /\ UNCHANGED <<turn, workers, disk, crashes>>

-----------------------------------------------------------------------------
(* save_checkpoint of one worker group, rank by rank.                       *)
Saving == Roles[turn]
Shard(r) == [role |-> Saving, step |-> global_steps, rank |-> r]

(* The steps rank 0 removes: all but the newest max_ckpt_to_keep - 1.       *)
Newer(paths, s) == {t \in paths : t > s}
ExpiredByOneMore(paths, keep) ==
    {s \in paths : keep > 0 /\ Cardinality(Newer(paths, s)) >= keep - 2}
ExpiredByOneFewer(paths, keep) ==
    {s \in paths : keep > 0 /\ Cardinality(Newer(paths, s)) >= keep}
Expired(paths, keep) ==
    {s \in paths : keep > 0 /\ Cardinality(Newer(paths, s)) >= keep - 1}

Rotate ==
    LET old == Expired(saved_paths[Saving], MaxToKeep[Saving])
    IN  /\ saved_paths' = [saved_paths EXCEPT ![Saving] = @ \ old]
        /\ shards' = {f \in shards : ~(f.role = Saving /\ f.step \in old)}

(* Before the first barrier.                                                *)
Prepare(r) ==
    /\ pc = "save"
    /\ phase[r] = "entered"
    /\ phase' = [phase EXCEPT ![r] = "ready"]
    /\ IF r = Rank0 THEN Rotate ELSE UNCHANGED <<saved_paths, shards>>
    /\ UNCHANGED <<driver, dataloaders, tracker, crashes>>

(* Past the barrier a rank opens its files, which empties a shard that an   *)
(* earlier run left there, and writes them.                                 *)
OpenShard(r) ==
    /\ pc = "save"
    /\ phase[r] = "ready"
    /\ \A q \in Ranks : phase[q] # "entered"
    /\ phase' = [phase EXCEPT ![r] = "writing"]
    /\ shards' = shards \ {Shard(r)}
    /\ UNCHANGED <<driver, saved_paths, dataloaders, tracker, crashes>>

WriteShard(r) ==
    /\ pc = "save"
    /\ phase[r] = "writing"
    /\ phase' = [phase EXCEPT ![r] = "saved"]
    /\ shards' = shards \cup {Shard(r)}
    /\ UNCHANGED <<driver, saved_paths, dataloaders, tracker, crashes>>

(* All ranks have passed the last barrier; the driver goes on to the next   *)
(* role, and after the last one to the dataloader.                          *)
FinishRole ==
    /\ pc = "save"
    /\ \A r \in Ranks : phase[r] = "saved"
    /\ saved_paths' = [saved_paths EXCEPT ![Saving] = @ \cup {global_steps}]
    /\ IF turn < Len(Roles)
       THEN /\ turn' = turn + 1
            /\ phase' = AllRanks("entered")
            /\ UNCHANGED pc
       ELSE /\ pc' = "data"
            /\ phase' = AllRanks("idle")
            /\ UNCHANGED turn
    /\ UNCHANGED <<global_steps, disk, crashes>>

-----------------------------------------------------------------------------
(* The rest of _save_checkpoint.                                            *)
SaveDataloader ==
    /\ pc = "data"
    /\ dataloaders' = dataloaders \cup {global_steps}
    /\ pc' = "open"
    /\ UNCHANGED <<global_steps, turn, workers, shards, tracker, crashes>>

(* open(..., "w"): the file is empty until the number is written.           *)
OpenTracker ==
    /\ pc = "open"
    /\ tracker' = Truncated
    /\ pc' = "write"
    /\ UNCHANGED <<global_steps, turn, workers, shards, dataloaders, crashes>>

WriteTracker ==
    /\ pc = "write"
    /\ tracker' = global_steps
    /\ pc' = "end"
    /\ UNCHANGED <<global_steps, turn, workers, shards, dataloaders, crashes>>

-----------------------------------------------------------------------------
(* The death of the driver or of any worker ends the job; what the          *)
(* processes remember is gone, what they wrote stays.                       *)
Crash ==
    /\ pc \notin {"done", "down", "broken"}
    /\ crashes < MaxCrashes
    /\ crashes' = crashes + 1
    /\ pc' = "down"
    /\ turn' = 1
    /\ phase' = AllRanks("idle")
    /\ saved_paths' = [r \in RoleSet |-> {}]
    /\ UNCHANGED <<global_steps, disk>>

Complete(s) == [role : RoleSet, step : {s}, rank : Ranks] \subseteq shards

(* find_latest_ckpt_path and _load_checkpoint: an empty tracker is not a    *)
(* number, and a missing shard is a missing file; both end the new job.     *)
(* The folder of a step is never removed, only the roles' folders in it.    *)
Resume ==
    /\ pc = "down"
    /\ IF tracker = NoFile \/ (tracker # Truncated /\ Complete(tracker))
       THEN pc' = "train" /\ global_steps' = tracker + 1
       ELSE pc' = "broken" /\ UNCHANGED global_steps
    /\ UNCHANGED <<turn, workers, disk, crashes>>

Stopped == pc \in {"done", "broken"} /\ UNCHANGED ckptVars

Next ==
    \/ Train
    \/ \E r \in Ranks : Prepare(r) \/ OpenShard(r) \/ WriteShard(r)
    \/ FinishRole
    \/ SaveDataloader
    \/ OpenTracker
    \/ WriteTracker
    \/ EndStep
    \/ Crash
    \/ Resume
    \/ Stopped

Spec == Init /\ [][Next]_ckptVars

-----------------------------------------------------------------------------
(* What the tracker names can be loaded: whatever is being removed or       *)
(* overwritten when the job dies, all shards of all roles and the           *)
(* dataloader of the step in the tracker are on disk.                       *)
TrackedIsComplete ==
    tracker \notin {NoFile, Truncated} =>
        Complete(tracker) /\ tracker \in dataloaders

(* Wherever a job died, the next one fails to resume only if it died with   *)
(* the tracker opened for writing and still empty.                          *)
OnlyTruncationBreaks == pc = "broken" => tracker = Truncated

(* A crash costs at most save_freq steps, through any number of restarts    *)
(* and although the tracker moves last.                                     *)
LittleIsLost ==
    (SaveFreq > 0 /\ tracker # Truncated) =>
        global_steps - tracker \in 0 .. SaveFreq

(* Old checkpoints do not pile up: each run of the job leaves at most       *)
(* max_ckpt_to_keep of a role behind.  Rotation forgets at a restart what   *)
(* earlier runs left.                                                       *)
StepsOnDisk(role) == {f.step : f \in {x \in shards : x.role = role}}
RotationKeepsUp ==
    \A role \in RoleSet : MaxToKeep[role] > 0 =>
        Cardinality(StepsOnDisk(role)) <= MaxToKeep[role] * (crashes + 1)

=============================================================================
