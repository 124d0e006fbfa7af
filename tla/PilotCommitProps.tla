--------------------------- MODULE PilotCommitProps ---------------------------
(***************************************************************************)
(* What must hold of PilotCommit, and what the comments of the code claim. *)
(***************************************************************************)
EXTENDS PilotCommit

Buffered  == DOMAIN buffer
Committed == PromptsOf(commit_batch)
Staged    == PromptsOf(batch)

-----------------------------------------------------------------------------
(* A prompt is in one place.  Buffer, commit batch, train batch and the     *)
(* updates already made in this epoch share no prompt, and all of them come *)
(* from this epoch's explored and scored prompts.  A prompt that were in    *)
(* two of them would be trained on twice, or fail the assertion at          *)
(* pc_ray_trainer.py:692.                                                   *)
InHandApart ==
    /\ Buffered \cap Committed = {}
    /\ Buffered \cap Staged = {}
    /\ Committed \cap Staged = {}
    /\ Buffered \cup Committed \cup Staged \subseteq seen \ explore_batch

TrainedApart ==
    /\ trained \cap (Buffered \cup Committed \cup Staged) = {}
    /\ trained \subseteq seen \ explore_batch

OnePlace == InHandApart /\ TrainedApart

(* The assertions at pc_ray_trainer.py:691-692: an update sees exactly      *)
(* train_bsz samples of train_bsz different prompts, though it was filled   *)
(* over several rounds and around partial batches dropped at epoch ends.    *)
FullBatchIsDistinct ==
    pc = "update" =>
        /\ Cardinality(batch) = TrainBatchSize
        /\ Cardinality(PromptsOf(batch)) = TrainBatchSize

(* num_prompt_in_batch counts what is in the batch, and never exceeds       *)
(* train_bsz (the assertion at pc_ray_trainer.py:486), so that a step never *)
(* samples more than it still needs.                                        *)
BatchIsCounted ==
    /\ step_metrics.num_prompt_in_batch = Cardinality(batch)
    /\ Cardinality(batch \cup commit_batch) <= TrainBatchSize

(* However old, a sample in the train batch was explored at most            *)
(* max_off_steps + 1 steps ago, and nothing in the buffer comes from a      *)
(* later step or can outlive that bound.                                    *)
StalenessIsBounded ==
    /\ \A s \in batch \cup commit_batch :
          global_steps - s.step \in 0 .. MaxOffSteps + 1
    /\ \A p \in Buffered :
          global_steps - buffer[p].step \in 0 .. MaxOffSteps + 1

(* The rollouts of a round that commits prompts can be dealt evenly to the  *)
(* GPUs, given that those of a round that only explores can.                *)
RolloutsAreEven ==
    (pc = "score" /\ Evenly(ExploreRollouts, NGpus)) =>
        Evenly(ExploreRollouts + Cardinality(commit_batch) * NCommit, NGpus)

(* No step takes more than max_num_gen_batches rounds, even when rounds are *)
(* carried over the end of an epoch.                                        *)
RoundsAreBounded ==
    MaxNumGenBatches > 0 => step_metrics.num_gen_batches <= MaxNumGenBatches

(* Exclusion waits for the end of the epoch and then holds: what is marked  *)
(* was explored in this epoch, and nothing excluded is ever explored.       *)
ExclusionTakesEffect ==
    /\ to_exclude \subseteq seen
    /\ seen \cap excluded = {}

(* fit always comes to an end: the last step, the last epoch or an error,   *)
(* with or without a limit on rounds, and when exclusions leave too few     *)
(* prompts for one gen batch.                                               *)
Termination == <>(pc \in Terminal)

-----------------------------------------------------------------------------
(* The inductive invariant: the invariants above and what the places in fit *)
(* know about the round in progress.  What it says of the updates already   *)
(* made is a conjunct of its own: the rest holds without it, also where a   *)
(* restart has lost track of them.                                          *)
OneSample ==
    \A s, t \in batch \cup commit_batch : s.prompt = t.prompt => s = t

RoundInProgress ==
    /\ IsFiniteSet(batch)
    /\ IsFiniteSet(commit_batch)
    /\ explore_batch \subseteq seen
    /\ pc \notin {"sample", "score", "crashed"} => explore_batch = {}
    /\ pc \notin {"score", "stage"} => commit_batch = {}
    /\ pc = "update" => step_metrics.num_prompt_in_batch = TrainBatchSize

RunInv ==
    /\ TypeOK
    /\ InHandApart
    /\ OneSample
    /\ BatchIsCounted
    /\ StalenessIsBounded
    /\ ExclusionTakesEffect
    /\ RoundInProgress

IInv == RunInv /\ TrainedApart

-----------------------------------------------------------------------------
(* The lifecycle of a prompt: PilotCommit implements PromptLifecycle.       *)
StageOf(p) ==
    CASE p \in excluded                -> "excluded"
      [] p \in trained                 -> "trained"
      [] p \in Committed \cup Staged   -> "staged"
      [] p \in Buffered                -> "pooled"
      [] p \in explore_batch           -> "rolling"
      [] p \in seen \ (excluded \cup trained \cup Committed \cup Staged
                         \cup Buffered \cup explore_batch) -> "dropped"
      [] OTHER                         -> "unseen"

Lifecycle == INSTANCE PromptLifecycle WITH
    ChunkSize <- GenBatchSize,
    BatchSize <- TrainBatchSize,
    stage     <- [p \in Prompts |-> StageOf(p)]

(* Every step of fit is a step in the lives of the prompts or invisible.    *)
ImplementsLifecycle == Lifecycle!Spec

-----------------------------------------------------------------------------
(* A claim of a comment that the code does not keep.                        *)

(* replay_buffer.py:147: least_recent takes the least recent prompts.       *)
LeastRecentFirst ==
    (pc = "score" /\ Strategy = "least_recent") =>
        \A s \in commit_batch, p \in Buffered : s.step <= buffer[p].step

=============================================================================
