----------------------------- MODULE PilotCommit -----------------------------
(***************************************************************************)
(* recipe/pc/pc_ray_trainer.py: RayPCTrainer.fit, the driver loop of       *)
(* pilot-commit training.  A round takes the next gen batch of prompts     *)
(* from the dataloader, samples prompts explored in earlier rounds from    *)
(* the replay buffer, generates responses for both (the pilot and the      *)
(* commit), scores them, puts the explored prompts of medium difficulty    *)
(* into the buffer, marks the too easy ones for exclusion, and appends the *)
(* committed ones to the train batch.  Rounds repeat until the train batch *)
(* is full; then the model is updated and the step ends.                   *)
(*                                                                         *)
(* The assertions of fit that the code is meant never to violate are       *)
(* invariants of PilotCommitProps; the two error exits that can be reached *)
(* are the states "raised" and "crashed".                                  *)
(***************************************************************************)
EXTENDS ReplayBuffer, CommitSize

CONSTANTS
    GenBatchSize,        \* data.gen_batch_size, prompts explored per round
    TrainBatchSize,      \* data.train_batch_size, prompts per update
    NCommit,             \* rollout.n, rollouts of a committed prompt
    NExploreEffective,   \* pilot responses kept of a committed prompt
    NGpus,               \* resource_pool_manager.get_n_gpus()
    Lower, Upper,        \* diversity thresholds, in solved responses
    ExcludeAt,           \* exclude_threshold_upper; NExplore + 1 for null
    MaxNumGenBatches,    \* max_num_gen_batches; <= 0 for no limit
    TotalEpochs,         \* trainer.total_epochs
    TotalTrainingSteps,  \* trainer.total_training_steps
    SaveFreq             \* trainer.save_freq; <= 0 for never

ASSUME TrainerAssumption ==
    /\ GenBatchSize \in Nat \ {0}
    /\ GenBatchSize <= Cardinality(Prompts)
    /\ TrainBatchSize \in Nat \ {0}
    /\ NCommit \in Nat \ {0}
    /\ NExploreEffective \in 1 .. NExplore
    /\ NGpus \in Nat \ {0}
    /\ Lower \in Nat
    /\ Upper \in Nat
    /\ ExcludeAt \in 0 .. NExplore + 1
    /\ MaxNumGenBatches \in Int
    /\ TotalEpochs \in Nat \ {0}
    /\ TotalTrainingSteps \in Nat
    /\ SaveFreq \in Int

VARIABLES
    pc,              \* where in the body of fit the driver is
    epoch, global_steps, gen_steps,
    seen,            \* prompts the dataloader has yielded in this epoch
    excluded,        \* train_dataset.excluded_source_indices
    to_exclude,      \* indices_to_exclude_next_epoch
    explore_batch,   \* prompts explored in this round
    commit_batch,    \* entries sampled from the buffer in this round
    batch,           \* the train batch so far; {} stands for None
    step_metrics,    \* the two counters of step_metrics that steer fit
    trained,         \* history: prompts of this epoch's updates
    disk             \* the latest complete checkpoint

memory == <<explore_batch, commit_batch, batch, step_metrics>>
steps  == <<epoch, global_steps, gen_steps>>
data   == <<seen, excluded, to_exclude, trained>>
vars   == <<pc, buffer, disk, memory, steps, data>>

Terminal == {"done", "exhausted", "raised", "crashed"}
Places == {"fetch", "sample", "score", "stage", "update"} \cup Terminal

(* A sampled entry in the train batch.  The round in which it was sampled   *)
(* tells two copies of one prompt apart, as the concatenated rows do.       *)
Samples == [prompt : Prompts, step : Nat, round : Nat]
PromptsOf(samples) == {s.prompt : s \in samples}

NoCheckpoint == [step |-> 0, seen |-> {}, excluded |-> {}, trained |-> {}]
ZeroMetrics == [num_prompt_in_batch |-> 0, num_gen_batches |-> 0]

TypeOK ==
    /\ BufferTypeOK
    /\ pc \in Places
    /\ epoch \in 1 .. TotalEpochs
    /\ global_steps \in Nat
    /\ gen_steps \in Nat
    /\ seen \in SUBSET Prompts
    /\ excluded \in SUBSET Prompts
    /\ to_exclude \in SUBSET Prompts
    /\ explore_batch \in SUBSET Prompts
    /\ commit_batch \in SUBSET Samples
    /\ batch \in SUBSET Samples
    /\ step_metrics \in [num_prompt_in_batch : Nat, num_gen_batches : Nat]
    /\ trained \in SUBSET Prompts
    /\ disk \in [step : Nat, seen : SUBSET Prompts,
                excluded : SUBSET Prompts, trained : SUBSET Prompts]

Init ==
    /\ BufferInit
    /\ pc = "fetch"
    /\ epoch = 1
    /\ global_steps = 1
    /\ gen_steps = 1
    /\ seen = {}
    /\ excluded = {}
    /\ to_exclude = {}
    /\ explore_batch = {}
    /\ commit_batch = {}
    /\ batch = {}
    /\ step_metrics = ZeroMetrics
    /\ trained = {}
    /\ disk = NoCheckpoint

-----------------------------------------------------------------------------
(* The dataset and its loader: no replacement, drop_last=True.              *)
DatasetUnfiltered == Prompts
Dataset == Prompts \ excluded
Unseen == Dataset \ seen
LoaderHasBatch == Cardinality(Unseen) >= GenBatchSize

(* The next gen batch of the epoch.                                         *)
FetchExploreBatch ==
    /\ pc = "fetch"
    /\ LoaderHasBatch
    /\ \E prompts \in SUBSET Unseen :
          /\ Cardinality(prompts) = GenBatchSize
          /\ explore_batch' = prompts
          /\ seen' = seen \cup prompts
    /\ step_metrics' = [step_metrics EXCEPT !.num_gen_batches = @ + 1]
    /\ pc' = "sample"
    /\ UNCHANGED <<buffer, disk, commit_batch, batch, steps,
                   excluded, to_exclude, trained>>

(* How many prompts this round commits.                                     *)
ExploreRollouts == NExplore * GenBatchSize
NecessaryCommitBatchSize ==
    IF batch = {} THEN TrainBatchSize
    ELSE TrainBatchSize - step_metrics.num_prompt_in_batch

Smaller(a, b) == IF a <= b THEN a ELSE b

CommitBatchSize ==
    AdjustCommitBatchSize(
        Smaller(NecessaryCommitBatchSize, Cardinality(DOMAIN buffer)),
        ExploreRollouts, NCommit, NGpus)

(* sample(0) on a buffer that is not empty concatenates an empty list, and  *)
(* a whole buffer handed over without down-sampling fails the length        *)
(* assertion that follows the call: both end the program.                   *)
SampleSucceeds(size) ==
    /\ size > 0
    /\ ResponsesPerPrompt(size, NExploreEffective) = NExploreEffective

SkipCommitBatch ==
    /\ pc = "sample"
    /\ DOMAIN buffer = {}
    /\ pc' = "score"
    /\ UNCHANGED <<buffer, disk, memory, steps, data>>

PrepareCommitBatch ==
    /\ pc = "sample"
    /\ DOMAIN buffer # {}
    /\ SampleSucceeds(CommitBatchSize)
    /\ \E taken \in SUBSET DOMAIN buffer :
          /\ Sample(CommitBatchSize, taken)
          /\ commit_batch' =
                {[prompt |-> p, step |-> buffer[p].step,
                  round |-> step_metrics.num_gen_batches] : p \in taken}
    /\ pc' = "score"
    /\ UNCHANGED <<disk, explore_batch, batch, step_metrics,
                   steps, data>>

SampleCrashes ==
    /\ pc = "sample"
    /\ DOMAIN buffer # {}
    /\ ~SampleSucceeds(CommitBatchSize)
    /\ pc' = "crashed"
    /\ UNCHANGED <<buffer, disk, memory, steps, data>>

-----------------------------------------------------------------------------
(* filter_batch and exclude_batch on the mean of the responses' scores.     *)
Passes(k) == k >= Lower /\ k <= NExplore - Upper
TooEasy(k) == k >= ExcludeAt

(* Generation and reward, then everything done with the explored prompts:   *)
(* filtering, buffering and marking for exclusion.                          *)
ScoreExploreBatch ==
    /\ pc = "score"
    /\ \E solved \in [explore_batch -> Solved] :
          /\ Add({p \in explore_batch : Passes(solved[p])},
                 solved, global_steps)
          /\ to_exclude' =
                to_exclude \cup {p \in explore_batch : TooEasy(solved[p])}
    /\ explore_batch' = {}
    /\ pc' = "stage"
    /\ UNCHANGED <<disk, commit_batch, batch, step_metrics, steps,
                   seen, excluded, trained>>

-----------------------------------------------------------------------------
(* The committed prompts join the train batch.                              *)
StageCommitBatch ==
    /\ batch' = batch \cup commit_batch
    /\ commit_batch' = {}
    /\ step_metrics' = [step_metrics EXCEPT
          !.num_prompt_in_batch = @ + Cardinality(commit_batch)]
    /\ UNCHANGED <<buffer, disk, explore_batch, steps, data>>

BatchFull ==
    step_metrics.num_prompt_in_batch + Cardinality(commit_batch)
        >= TrainBatchSize

RoundsLeftOneMore ==
    MaxNumGenBatches <= 0 \/ step_metrics.num_gen_batches <= MaxNumGenBatches
RoundsLeft ==
    \/ MaxNumGenBatches <= 0
    \/ step_metrics.num_gen_batches < MaxNumGenBatches

KeepGenerating ==
    /\ pc = "stage"
    /\ ~BatchFull
    /\ RoundsLeft
    /\ StageCommitBatch
    /\ pc' = "fetch"

GenerateTooMany ==
    /\ pc = "stage"
    /\ ~BatchFull
    /\ ~RoundsLeft
    /\ StageCommitBatch
    /\ pc' = "raised"

FillBatch ==
    /\ pc = "stage"
    /\ BatchFull
    /\ StageCommitBatch
    /\ pc' = "update"

-----------------------------------------------------------------------------
(* The update: flush the buffer, update the models, save when due, reset    *)
(* what belongs to the step.                                                *)
IsLastStep == gen_steps >= TotalTrainingSteps

SaveDueAtTheEnd == SaveFreq > 0 /\ IsLastStep
SaveDue ==
    /\ SaveFreq > 0
    /\ IsLastStep \/ global_steps % SaveFreq = 0

(* The step and the dataloader's position.  Which prompts the dataset was    *)
(* without, and which the saved model was trained on in this epoch, is      *)
(* history: neither is in the files.                                        *)
Checkpoint ==
    [step |-> global_steps, seen |-> seen, excluded |-> excluded,
     trained |-> trained \cup PromptsOf(batch)]

UpdateModel ==
    /\ pc = "update"
    /\ Flush(global_steps)
    /\ trained' = trained \cup PromptsOf(batch)
    /\ disk' = IF SaveDue THEN Checkpoint ELSE disk
    /\ batch' = {}
    /\ step_metrics' = ZeroMetrics
    /\ UNCHANGED <<explore_batch, commit_batch, seen, excluded, to_exclude>>

FinishStep ==
    /\ UpdateModel
    /\ ~IsLastStep
    /\ global_steps' = global_steps + 1
    /\ gen_steps' = gen_steps + 1
    /\ pc' = "fetch"
    /\ UNCHANGED epoch

FinishTraining ==
    /\ UpdateModel
    /\ IsLastStep
    /\ pc' = "done"
    /\ UNCHANGED steps

-----------------------------------------------------------------------------
(* The end of an epoch: drop the partial batch, empty the buffer, hand the  *)
(* marked prompts to the dataset.  The counters are reset only together     *)
(* with a partial batch.                                                    *)
KeepPartialBatch == UNCHANGED <<batch, step_metrics>>
DropBatchOnly == batch' = {} /\ UNCHANGED step_metrics
DropPartialBatch ==
    /\ batch' = {}
    /\ step_metrics' = IF batch # {} THEN ZeroMetrics ELSE step_metrics

ApplyExclusionsAndKeep ==
    excluded' = excluded \cup to_exclude /\ UNCHANGED to_exclude
ApplyExclusions ==
    /\ excluded' = excluded \cup to_exclude
    /\ to_exclude' = {}

CloseEpoch ==
    /\ pc = "fetch"
    /\ ~LoaderHasBatch
    /\ DropPartialBatch
    /\ FlushAll
    /\ ApplyExclusions
    /\ seen' = {}
    /\ trained' = {}
    /\ UNCHANGED <<disk, explore_batch, commit_batch,
                   global_steps, gen_steps>>

NextEpochUncounted == CloseEpoch /\ epoch < TotalEpochs /\ UNCHANGED <<pc, epoch>>
NextEpochUnguarded == CloseEpoch /\ epoch' = epoch + 1 /\ UNCHANGED pc
NextEpoch ==
    /\ CloseEpoch
    /\ epoch < TotalEpochs
    /\ epoch' = epoch + 1
    /\ UNCHANGED pc

RunOutOfEpochs ==
    /\ CloseEpoch
    /\ epoch = TotalEpochs
    /\ pc' = "exhausted"
    /\ UNCHANGED epoch

Step ==
    \/ FetchExploreBatch
    \/ SkipCommitBatch
    \/ PrepareCommitBatch
    \/ SampleCrashes
    \/ ScoreExploreBatch
    \/ KeepGenerating
    \/ GenerateTooMany
    \/ FillBatch
    \/ FinishStep
    \/ FinishTraining
    \/ NextEpoch
    \/ RunOutOfEpochs

(* fit has returned or raised.                                              *)
Stopped == pc \in Terminal /\ UNCHANGED vars

Next == Step \/ Stopped

Spec == Init /\ [][Next]_vars

(* The driver is one thread that is never blocked for ever: its remote      *)
(* calls are synchronous ray.get calls that return or raise.                *)
FairSpec == Spec /\ WF_vars(Step)

=============================================================================
