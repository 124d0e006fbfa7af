-------------------------- MODULE PilotCommitRestart --------------------------
(***************************************************************************)
(* PilotCommit with a driver that may die at any point and be started      *)
(* again with trainer.resume_mode=auto.  What survives is the latest       *)
(* checkpoint: the step, the model and the position of the dataloader      *)
(* (verl/trainer/ppo/ray_trainer.py, _save_checkpoint, _load_checkpoint).  *)
(***************************************************************************)
EXTENDS PilotCommitProps

CONSTANT MaxCrashes     \* bound on the number of restarts explored

VARIABLE crashes        \* restarts so far

restartVars == <<vars, crashes>>

RestartInit == Init /\ crashes = 0

(* The dataloader resumes by skipping as many prompts as it had yielded.    *)
(* If it had shuffled the whole dataset those are the same prompts; if      *)
(* exclusions had shrunk the dataset, which the new process does not know,  *)
(* the sampler shuffles another range and skips prompts of its own.         *)
NothingSkipped == {{}}
Skipped ==
    IF disk.excluded = {} THEN {disk.seen}
    ELSE {S \in SUBSET Prompts : Cardinality(S) = Cardinality(disk.seen)}

(* _load_checkpoint sets global_steps; the loop starts one further.         *)
FirstStep == 1
ResumedStep == disk.step + 1

(* The process is gone; fit starts again.  __init__ makes new buffers and   *)
(* sets, fit starts at epoch 1 with gen_steps from 0, and _load_checkpoint  *)
(* sets global_steps, the models and the dataloader, if there is a          *)
(* checkpoint.                                                              *)
Restart ==
    /\ crashes < MaxCrashes
    /\ pc \notin {"done", "exhausted"}
    /\ crashes' = crashes + 1
    /\ pc' = "fetch"
    /\ global_steps' = ResumedStep
    /\ gen_steps' = 1
    /\ epoch' = 1
    /\ seen' \in Skipped
    /\ excluded' = {}
    /\ to_exclude' = {}
    /\ FlushAll
    /\ explore_batch' = {}
    /\ commit_batch' = {}
    /\ batch' = {}
    /\ step_metrics' = ZeroMetrics
    /\ trained' = disk.trained
    /\ UNCHANGED disk

RunStep == Step /\ UNCHANGED crashes

RestartNext ==
    \/ RunStep
    \/ Restart
    \/ Stopped /\ UNCHANGED crashes

RestartSpec == RestartInit /\ [][RestartNext]_restartVars

-----------------------------------------------------------------------------
(* A crash repeats at most save_freq updates: the step in progress is never *)
(* further than that ahead of the checkpoint, through restarts too.         *)
LittleIsRepeated ==
    SaveFreq > 0 => global_steps - disk.step \in 0 .. SaveFreq

(* The checkpoint never goes back: an older step, or an older position in   *)
(* the data at the same step, never replaces a newer one.                   *)
CheckpointAdvances ==
    [][disk' = disk \/ disk'.step > disk.step]_restartVars

=============================================================================
