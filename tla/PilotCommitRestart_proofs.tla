---------------------- MODULE PilotCommitRestart_proofs ----------------------
(***************************************************************************)
(* What holds of pilot-commit training through any number of crashes and   *)
(* restarts: the invariants of one run that do not depend on what the      *)
(* process has forgotten, for all parameters of the training; and those    *)
(* about the checkpoint itself.                                            *)
(***************************************************************************)
EXTENDS PilotCommitRestart, PilotCommit_proofs

(* A restart forgets everything but the checkpoint.                         *)
LEMMA RestartEffect ==
  ASSUME Restart
  PROVE  /\ pc' = "fetch"
         /\ global_steps' = disk.step + 1
         /\ gen_steps' = 1
         /\ epoch' = 1
         /\ seen' \in Skipped
         /\ excluded' = {}
         /\ to_exclude' = {}
         /\ DOMAIN buffer' = {} /\ buffer' \in [{} -> Entries]
         /\ explore_batch' = {}
         /\ commit_batch' = {}
         /\ batch' = {}
         /\ step_metrics' = ZeroMetrics
         /\ trained' = disk.trained
         /\ disk' = disk
PROOF
  <1>1. buffer' = [p \in {} |-> buffer[p]]
    BY DEF Restart, FlushAll, Restrict
  <1>2. DOMAIN buffer' = {} /\ buffer' \in [{} -> Entries]
    BY <1>1
  <1> QED BY <1>2 DEF Restart, ResumedStep

(* The invariant of a run holds again where a run starts again, wherever    *)
(* the dataloader resumes.                                                  *)
LEMMA RestartRunInv == RunInv /\ Restart => RunInv'
PROOF
  <1> SUFFICES ASSUME RunInv, Restart PROVE RunInv'
    OBVIOUS
  <1> USE RestartEffect
  <1>1. disk \in [step : Nat, seen : SUBSET Prompts,
                  excluded : SUBSET Prompts, trained : SUBSET Prompts]
    BY DEF RunInv, TypeOK
  <1>2. seen' \subseteq Prompts
    BY <1>1 DEF Skipped
  <1>3. step_metrics' \in [num_prompt_in_batch : Nat, num_gen_batches : Nat]
    BY DEF ZeroMetrics
  <1>4. TypeOK'
    BY <1>1, <1>2, <1>3, TrainerAssumption DEF TypeOK, BufferTypeOK, Places
  <1>5. InHandApart' /\ OneSample'
    BY DEF InHandApart, OneSample, Buffered, Committed, Staged, PromptsOf
  <1>6. BatchIsCounted'
    <2>1. batch' \cup commit_batch' = {} /\ Cardinality({}) = 0
      BY FS_EmptySet
    <2>2. Cardinality(batch') = 0 /\ Cardinality(batch' \cup commit_batch') = 0
      BY <2>1
    <2> QED BY <2>2, TrainerAssumption DEF BatchIsCounted, ZeroMetrics
  <1>7. StalenessIsBounded' /\ ExclusionTakesEffect'
    BY DEF StalenessIsBounded, ExclusionTakesEffect, Buffered
  <1>8. RoundInProgress'
    BY FS_EmptySet DEF RoundInProgress
  <1> QED BY <1>4, <1>5, <1>6, <1>7, <1>8 DEF RunInv

(* A step of the training with restarts is a restart or one of a run.       *)
LEMMA RestartCases == [RestartNext]_restartVars => Restart \/ [Next]_vars
  BY DEF RestartNext, RunStep, Next, restartVars

(* The invariant of a run survives any number of restarts.                  *)
THEOREM RunsAreSound == RestartSpec => []RunInv
PROOF
  <1>1. RestartInit => RunInv
    BY InitRunInv DEF RestartInit
  <1>2. RunInv /\ [RestartNext]_restartVars => RunInv'
    BY RestartCases, RestartRunInv, NextRunInv
  <1> QED BY <1>1, <1>2, PTL DEF RestartSpec

(* Through crashes as without them, and wherever the dataloader resumes,    *)
(* a sample is at most max_off_steps + 1 steps old.                         *)
THEOREM SamplesStayFresh == RestartSpec => []StalenessIsBounded
PROOF
  <1>1. RunInv => StalenessIsBounded
    BY DEF RunInv
  <1> QED BY RunsAreSound, <1>1, PTL

(* Every update after a resume is made on exactly train_bsz samples of as   *)
(* many prompts, as the assertions at pc_ray_trainer.py:691-692 demand.     *)
THEOREM ResumedUpdatesSeeAFullBatch ==
  RestartSpec => [](FullBatchIsDistinct /\ BatchIsCounted)
PROOF
  <1>1. RunInv => FullBatchIsDistinct /\ BatchIsCounted
    BY UpdateIsFull DEF RunInv
  <1> QED BY RunsAreSound, <1>1, PTL

(* A resumed step, too, takes no more than max_num_gen_batches rounds, and  *)
(* rounds that commit are dealt evenly to the GPUs: what was counted before *)
(* the crash is forgotten together with what it counted.                    *)
THEOREM ResumedRoundsAreBoundedAndEven ==
  RestartSpec => [](RoundsAreBounded /\ RolloutsAreEven)
PROOF
  <1> DEFINE Rounds == RoundsAreBounded /\ RoundIsLeft
  <1>1. RestartInit => Rounds /\ RolloutsAreEven
    BY TrainerAssumption DEF RestartInit, Init, ZeroMetrics, RoundsAreBounded,
       RoundIsLeft, RolloutsAreEven
  <1>2. RunInv /\ (Rounds /\ RolloutsAreEven) /\ [RestartNext]_restartVars
          => (Rounds /\ RolloutsAreEven)'
    <2> SUFFICES ASSUME RunInv, Rounds, RolloutsAreEven, [RestartNext]_restartVars
                 PROVE  Rounds' /\ RolloutsAreEven'
      OBVIOUS
    <2>1. CASE Restart
      BY <2>1, RestartEffect, TrainerAssumption
         DEF ZeroMetrics, RoundsAreBounded, RoundIsLeft, RolloutsAreEven
    <2>2. CASE [Next]_vars
      BY <2>2, NextBounded, NextEven DEF RunInv
    <2> QED BY <2>1, <2>2, RestartCases
  <1> QED BY RunsAreSound, <1>1, <1>2, PTL DEF RestartSpec

-----------------------------------------------------------------------------
(* The checkpoint.  All multiples of save_freq that have been passed are at *)
(* or before it, and it is behind the step in progress, which only the last *)
(* step catches up with.                                                    *)
DiskFollows ==
    /\ disk.step <= global_steps
    /\ pc # "done" => disk.step < global_steps
    /\ SaveFreq > 0 =>
          \A k \in Nat : SaveFreq * k < global_steps => SaveFreq * k <= disk.step

(* Nothing is on disk at first.                                             *)
LEMMA InitFollows == RestartInit => DiskFollows
PROOF
  <1>1. SaveFreq > 0 => \A k \in Nat : SaveFreq * k < 1 => SaveFreq * k <= 0
    BY TrainerAssumption
  <1> QED BY <1>1 DEF RestartInit, Init, NoCheckpoint, DiskFollows

(* What ends a step does to the checkpoint.                                 *)
LEMMA FinishEffect ==
  ASSUME RunInv, FinishStep \/ FinishTraining
  PROVE  /\ pc = "update"
         /\ disk' = IF SaveDue THEN Checkpoint ELSE disk
         /\ \/ pc' = "done" /\ UNCHANGED global_steps
            \/ ~IsLastStep /\ pc' = "fetch" /\ global_steps' = global_steps + 1
  BY DEF FinishStep, FinishTraining, UpdateModel, steps

(* Nothing else touches it, but a restart that takes the step from it.      *)
LEMMA OthersLeaveDisk ==
  ASSUME [RestartNext]_restartVars, ~(FinishStep \/ FinishTraining)
  PROVE  /\ disk' = disk
         /\ \/ pc' = "fetch" /\ global_steps' = disk.step + 1
            \/ pc # "done" /\ UNCHANGED global_steps
            \/ UNCHANGED <<pc, global_steps>>
PROOF
  <1>1. CASE Restart
    BY <1>1, RestartEffect
  <1>2. CASE [Next]_vars
    BY <1>2 DEF Next, Step, Stopped, FetchExploreBatch, SkipCommitBatch,
       PrepareCommitBatch, SampleCrashes, ScoreExploreBatch, KeepGenerating,
       GenerateTooMany, FillBatch, StageCommitBatch, NextEpoch, RunOutOfEpochs,
       CloseEpoch, vars, steps, data, memory
  <1> QED BY <1>1, <1>2, RestartCases

(* A save brings the checkpoint up to the step, a crash goes back to it.    *)
LEMMA NextFollows ==
  RunInv /\ DiskFollows /\ [RestartNext]_restartVars => DiskFollows'
PROOF
  <1> SUFFICES ASSUME RunInv, DiskFollows, [RestartNext]_restartVars
               PROVE  DiskFollows'
    OBVIOUS
  <1>0. global_steps \in Nat /\ disk.step \in Nat /\ SaveFreq \in Int
    BY TrainerAssumption DEF RunInv, TypeOK
  <1> DEFINE Passed(g, d) ==
               SaveFreq > 0 =>
                 \A k \in Nat : SaveFreq * k < g => SaveFreq * k <= d
  <1>1. Passed(global_steps, disk.step)
    BY DEF DiskFollows
  <1>2. CASE FinishStep \/ FinishTraining
    <2>1. PICK g \in {global_steps, global_steps + 1} :
             /\ global_steps' = g
             /\ pc' = "done" \/ (~IsLastStep /\ g = global_steps + 1)
      BY <1>2, FinishEffect
    <2>2. CASE SaveDue
      <3>1. disk'.step = global_steps
        BY <1>2, <2>2, FinishEffect DEF Checkpoint
      <3>2. Passed(g, global_steps)
        BY <1>0, <2>1
      <3> QED BY <1>0, <2>1, <3>1, <3>2 DEF DiskFollows
    <2>3. CASE ~SaveDue
      <3>1. disk' = disk /\ pc = "update"
        BY <1>2, <2>3, FinishEffect
      <3>2. disk.step < global_steps
        BY <3>1 DEF DiskFollows
      <3>3. SaveFreq > 0 => global_steps % SaveFreq # 0
        BY <2>3 DEF SaveDue
      <3>4. Passed(g, disk.step)
        <4> SUFFICES ASSUME SaveFreq > 0, NEW k \in Nat, SaveFreq * k < g
                     PROVE  SaveFreq * k <= disk.step
          OBVIOUS
        <4>1. SaveFreq * k # global_steps
          <5>1. SaveFreq \in Nat \ {0}
            BY <1>0
          <5> QED BY <1>0, <3>3, <5>1, MultipleHasNoRemainder
        <4>2. SaveFreq * k \in Int
          BY <1>0
        <4>3. SaveFreq * k < global_steps
          BY <1>0, <2>1, <4>1, <4>2
        <4> QED BY <1>1, <4>3
      <3> QED BY <1>0, <2>1, <3>1, <3>2, <3>4 DEF DiskFollows
    <2> QED BY <2>2, <2>3
  <1>3. CASE ~(FinishStep \/ FinishTraining)
    <2>1. disk' = disk
      BY <1>3, OthersLeaveDisk
    <2>2. CASE pc' = "fetch" /\ global_steps' = disk.step + 1
      <3>1. Passed(disk.step + 1, disk.step)
        BY <1>0
      <3> QED BY <1>0, <2>1, <2>2, <3>1 DEF DiskFollows
    <2>3. CASE UNCHANGED <<pc, global_steps>>
      BY <2>1, <2>3 DEF DiskFollows
    <2>4. CASE pc # "done" /\ UNCHANGED global_steps
      BY <2>1, <2>4 DEF DiskFollows
    <2> QED BY <1>3, <2>2, <2>3, <2>4, OthersLeaveDisk
  <1> QED BY <1>2, <1>3

(* A crash repeats no more than save_freq steps, through any number of      *)
(* crashes before it: the last multiple of save_freq is on disk.            *)
THEOREM LittleIsEverRepeated == RestartSpec => []LittleIsRepeated
PROOF
  <1>1. RunInv /\ DiskFollows => LittleIsRepeated
    <2> SUFFICES ASSUME RunInv, DiskFollows, SaveFreq > 0
                 PROVE  global_steps - disk.step \in 0 .. SaveFreq
      BY DEF LittleIsRepeated
    <2>1. /\ global_steps \in Nat /\ disk.step \in Nat
          /\ disk.step <= global_steps /\ SaveFreq \in Nat \ {0}
      BY TrainerAssumption DEF RunInv, TypeOK, DiskFollows
    <2>2. CASE global_steps = 0
      BY <2>1, <2>2
    <2>3. CASE global_steps # 0
      <3> DEFINE k == (global_steps - 1) \div SaveFreq
      <3>1. global_steps - 1 \in Nat
        BY <2>1, <2>3
      <3>2. /\ k \in Nat /\ k * SaveFreq <= global_steps - 1
            /\ global_steps - 1 < k * SaveFreq + SaveFreq
        BY <2>1, <3>1, DivisionBounds
      <3> HIDE DEF k
      <3>3. SaveFreq * k = k * SaveFreq /\ SaveFreq * k \in Nat
        BY <2>1, <3>2
      <3>4. SaveFreq * k < global_steps
        BY <2>1, <3>2, <3>3
      <3>5. SaveFreq * k <= disk.step
        BY <3>2, <3>4 DEF DiskFollows
      <3> QED BY <2>1, <3>2, <3>3, <3>5
    <2> QED BY <2>2, <2>3
  <1>2. RestartSpec => []DiskFollows
    BY InitFollows, RunsAreSound, NextFollows, PTL DEF RestartSpec
  <1> QED BY RunsAreSound, <1>1, <1>2, PTL

(* A checkpoint is only ever replaced by one of a later step, also after    *)
(* restarts that repeat steps already made.                                 *)
THEOREM CheckpointNeverGoesBack == RestartSpec => CheckpointAdvances
PROOF
  <1>1. RunInv /\ DiskFollows /\ [RestartNext]_restartVars
          => [disk' = disk \/ disk'.step > disk.step]_restartVars
    <2> SUFFICES ASSUME RunInv, DiskFollows, [RestartNext]_restartVars
                 PROVE  disk' = disk \/ disk'.step > disk.step
      OBVIOUS
    <2>1. CASE FinishStep \/ FinishTraining
      <3>1. disk' = disk \/ disk'.step = global_steps
        BY <2>1, FinishEffect DEF Checkpoint
      <3>2. disk.step < global_steps
        BY <2>1, FinishEffect DEF DiskFollows
      <3> QED BY <3>1, <3>2 DEF RunInv, TypeOK
    <2>2. CASE ~(FinishStep \/ FinishTraining)
      BY <2>2, OthersLeaveDisk
    <2> QED BY <2>1, <2>2
  <1>2. RestartSpec => []DiskFollows
    BY InitFollows, RunsAreSound, NextFollows, PTL DEF RestartSpec
  <1> QED BY RunsAreSound, <1>1, <1>2, PTL DEF RestartSpec, CheckpointAdvances

-----------------------------------------------------------------------------
(* Where nothing is ever excluded (exclude_threshold_upper is null), the    *)
(* dataloader resumes on the prompts it had yielded, and they contain those *)
(* the saved model was trained on in this epoch.                            *)
NoneExcluded ==
    /\ excluded = {}
    /\ to_exclude = {}
    /\ disk.excluded = {}
    /\ disk.trained \subseteq disk.seen

(* When nothing was excluded, the dataloader that is restored knows all it  *)
(* handed out before the save.                                              *)
LEMMA RestartKeepsApart ==
  ASSUME RunInv, NoneExcluded, Restart
  PROVE  TrainedApart' /\ NoneExcluded'
PROOF
  <1>1. seen' = disk.seen
    BY RestartEffect DEF NoneExcluded, Skipped
  <1> QED BY <1>1, RestartEffect
          DEF NoneExcluded, TrainedApart, Buffered, Committed, Staged, PromptsOf

(* With a threshold out of reach no score excludes.                         *)
LEMMA NextExcludesNone ==
  ASSUME ExcludeAt = NExplore + 1, RunInv, TrainedApart, NoneExcluded, [Next]_vars
  PROVE  NoneExcluded'
PROOF
  <1> USE DEF NoneExcluded
  <1>1. CASE ScoreExploreBatch
    <2>1. PICK solved \in [explore_batch -> Solved] :
             to_exclude' = to_exclude \cup {p \in explore_batch : TooEasy(solved[p])}
      BY <1>1 DEF ScoreExploreBatch
    <2>2. \A p \in explore_batch : ~TooEasy(solved[p])
      BY BufferAssumption DEF TooEasy, Solved
    <2>3. UNCHANGED <<excluded, disk>>
      BY <1>1 DEF ScoreExploreBatch
    <2> QED BY <2>1, <2>2, <2>3
  <1>2. CASE FinishStep \/ FinishTraining
    <2>1. UNCHANGED <<excluded, to_exclude>>
      BY <1>2 DEF FinishStep, FinishTraining, UpdateModel
    <2>2. disk' = disk \/ disk' = Checkpoint
      BY <1>2, FinishEffect
    <2>3. trained \cup PromptsOf(batch) \subseteq seen
      BY DEF RunInv, InHandApart, TrainedApart, Staged
    <2> QED BY <2>1, <2>2, <2>3 DEF Checkpoint
  <1>3. CASE ~ScoreExploreBatch /\ ~(FinishStep \/ FinishTraining)
    <2>1. disk' = disk /\ excluded' \subseteq excluded \cup to_exclude
            /\ to_exclude' \subseteq to_exclude
      BY <1>3 DEF Next, Step, Stopped, FetchExploreBatch, SkipCommitBatch,
         PrepareCommitBatch, SampleCrashes, KeepGenerating, GenerateTooMany,
         FillBatch, StageCommitBatch, NextEpoch, RunOutOfEpochs, CloseEpoch,
         ApplyExclusions, vars, data
    <2> QED BY <2>1
  <1> QED BY <1>1, <1>2, <1>3

(* Then no prompt is trained on twice in an epoch, however often training   *)
(* crashes in it: what the saved model was trained on is not explored       *)
(* again, and no prompt is in two places.                                   *)
THEOREM PromptsStayInOnePlace ==
  ASSUME ExcludeAt = NExplore + 1
  PROVE  RestartSpec => []OnePlace
PROOF
  <1>1. RestartInit => TrainedApart /\ NoneExcluded
    BY InitIInv DEF RestartInit, Init, IInv, NoneExcluded, NoCheckpoint
  <1>2. RunInv /\ (TrainedApart /\ NoneExcluded) /\ [RestartNext]_restartVars
          => (TrainedApart /\ NoneExcluded)'
    BY RestartCases, RestartKeepsApart, NextTrained, NextExcludesNone
  <1>3. RunInv /\ TrainedApart => OnePlace
    BY DEF RunInv, OnePlace
  <1> QED BY RunsAreSound, <1>1, <1>2, <1>3, PTL DEF RestartSpec

=============================================================================
