------------------------------ MODULE OneStepOff ------------------------------
(***************************************************************************)
(* recipe/one_step_off_policy/ray_trainer.py: OneStepOffRayTrainer.fit.    *)
(* The driver trains on one batch while the rollout workers generate the   *)
(* next one with the weights that were sent to them before the training.   *)
(* Weights are named by the number of actor updates they have seen, and    *)
(* batches by the order in which the data yields them.                     *)
(* The workers are those of megatron_workers.py.                           *)
(*                                                                         *)
(* The driver is one thread.  The rollout workers execute the calls they   *)
(* receive one after the other, so a validation waits for a generation in  *)
(* progress, and weights are never exchanged during one: the driver gets   *)
(* the previous result before it sends the weights for the next.           *)
(***************************************************************************)
EXTENDS Integers, Sequences

CONSTANTS
    TotalEpochs,         \* trainer.total_epochs
    BatchesPerEpoch,     \* len(train_dataloader)
    TotalTrainingSteps,  \* total_training_steps
    CriticWarmup,        \* trainer.critic_warmup, first step with actor update
    SaveFreq,            \* trainer.save_freq; <= 0 for never
    TestFreq,            \* trainer.test_freq; <= 0 for never
    MaxCrashes           \* bound of the crashes of the job

ASSUME OneStepOffAssumption ==
    /\ TotalEpochs \in Nat \ {0}
    /\ BatchesPerEpoch \in Nat \ {0}
    /\ TotalTrainingSteps \in Nat
    /\ CriticWarmup \in Nat
    /\ SaveFreq \in Int
    /\ TestFreq \in Int
    /\ MaxCrashes \in Nat

VARIABLES
    pc,              \* where in fit the driver is
    global_steps,
    epoch, position, \* of the continuous iterator
    drawn,           \* the last batch drawn
    current,         \* the batch this step trains on
    future,          \* batch_data_future
    last, used,      \* history: the last batch trained on, and how many
    actor, rollout,  \* weights of the actor and of the rollout workers
    disk,            \* the latest checkpoint
    crashes

loader  == <<epoch, position, drawn>>
learned == <<last, used>>
weights == <<actor, rollout>>
vars == <<pc, global_steps, loader, current, future, learned, weights, disk,
          crashes>>

Terminal == {"done", "ended"}
Places == {"load", "initial", "first", "wait", "prefetch", "train",
           "validate", "save", "finish"} \cup Terminal

(* A generation: its batch, whether it is finished and with which weights.  *)
NoBatch == [batch |-> 0, ready |-> FALSE, weights |-> 0]
Generations == [batch : Nat, ready : BOOLEAN, weights : Nat]
IsBatch(g) == g.batch # 0

(* The step, the actor and the position of the dataloader; what the actor   *)
(* was trained on is history.                                               *)
NoCheckpoint == [step |-> 0, actor |-> 0, position |-> 0, drawn |-> 0,
                 last |-> 0, used |-> 0]
Checkpoints == [step : Nat, actor : Nat, position : 0 .. BatchesPerEpoch,
                drawn : Nat, last : Nat, used : Nat]

TypeOK ==
    /\ pc \in Places
    /\ global_steps \in Nat
    /\ epoch \in 0 .. TotalEpochs - 1
    /\ position \in 0 .. BatchesPerEpoch
    /\ drawn \in Nat
    /\ current \in Generations
    /\ future \in Generations
    /\ last \in Nat
    /\ used \in Nat
    /\ actor \in Nat
    /\ rollout \in Nat
    /\ disk \in Checkpoints
    /\ crashes \in 0 .. MaxCrashes

Init ==
    /\ pc = "load"
    /\ global_steps = 0
    /\ epoch = 0
    /\ position = 0
    /\ drawn = 0
    /\ current = NoBatch
    /\ future = NoBatch
    /\ last = 0
    /\ used = 0
    /\ actor = 0
    /\ rollout = 0
    /\ disk = NoCheckpoint
    /\ crashes = 0

-----------------------------------------------------------------------------
(* _load_checkpoint.  init_workers has sent the rollout workers the weights *)
(* the model starts from, and loading replaces those of the actor only.     *)
LoadCheckpoint ==
    /\ pc = "load"
    /\ global_steps' = disk.step
    /\ actor' = disk.actor
    /\ position' = disk.position
    /\ drawn' = disk.drawn
    /\ last' = disk.last
    /\ used' = disk.used
    /\ pc' = "initial"
    /\ UNCHANGED <<epoch, current, future, rollout, disk, crashes>>

(* The validation before training, and the first step's number.             *)
ValidateBefore ==
    /\ pc = "initial"
    /\ global_steps' = global_steps + 1
    /\ pc' = "first"
    /\ UNCHANGED <<loader, current, future, learned, weights, disk, crashes>>

(* next(continuous_iterator): the rest of this epoch, then the next one.    *)
IteratorHasNextOneMore ==
    position < BatchesPerEpoch \/ epoch < TotalEpochs
IteratorHasNext ==
    position < BatchesPerEpoch \/ epoch + 1 < TotalEpochs

AdvanceIterator ==
    /\ IteratorHasNext
    /\ drawn' = drawn + 1
    /\ \/ /\ position < BatchesPerEpoch
          /\ position' = position + 1
          /\ UNCHANGED epoch
       \/ /\ position = BatchesPerEpoch
          /\ position' = 1
          /\ epoch' = epoch + 1

SyncOnlyAtFirst == rollout' = IF pc = "first" THEN actor ELSE rollout
SyncRolloutWeights == rollout' = actor

(* _async_gen_next_batch: draw a batch, send the weights, start generating. *)
AsyncGenNextBatch ==
    /\ AdvanceIterator
    /\ SyncRolloutWeights
    /\ future' = [batch |-> drawn + 1, ready |-> FALSE, weights |-> 0]

(* It returns None at the end of the data, and after any error in drawing:  *)
(* the error is printed, and the iterator is finished too.                  *)
NoNextBatch ==
    /\ future' = NoBatch
    /\ UNCHANGED <<loader, rollout>>

FetchFirstBatch ==
    /\ pc = "first"
    /\ AsyncGenNextBatch
    /\ pc' = "wait"
    /\ UNCHANGED <<global_steps, current, learned, actor, disk, crashes>>

FetchNoFirstBatch ==
    /\ pc = "first"
    /\ NoNextBatch
    /\ pc' = "ended"
    /\ UNCHANGED <<global_steps, current, learned, actor, disk, crashes>>

-----------------------------------------------------------------------------
(* The rollout workers, concurrently with everything the driver does.       *)
Generate ==
    /\ IsBatch(future)
    /\ ~future.ready
    /\ future' = [future EXCEPT !.ready = TRUE, !.weights = rollout]
    /\ UNCHANGED <<pc, global_steps, loader, current, learned, weights, disk,
                   crashes>>

RolloutIsIdle == IsBatch(future) => future.ready

-----------------------------------------------------------------------------
(* The body of the loop.                                                    *)
AwaitGeneration ==
    /\ pc = "wait"
    /\ future.ready
    /\ current' = future
    /\ pc' = "prefetch"
    /\ UNCHANGED <<global_steps, loader, future, learned, weights, disk,
                   crashes>>

IsLastStep == global_steps >= TotalTrainingSteps

PrefetchUntilDrawn ==
    /\ pc = "prefetch"
    /\ ~IsLastStep
    /\ \/ AsyncGenNextBatch /\ pc' = "train"
       \/ NoNextBatch /\ UNCHANGED pc
    /\ UNCHANGED <<global_steps, current, learned, actor, disk, crashes>>
Prefetch ==
    /\ pc = "prefetch"
    /\ ~IsLastStep
    /\ AsyncGenNextBatch \/ NoNextBatch
    /\ pc' = "train"
    /\ UNCHANGED <<global_steps, current, learned, actor, disk, crashes>>

(* In the last step the future is left as it is, and never looked at again. *)
SkipPrefetch ==
    /\ pc = "prefetch"
    /\ IsLastStep
    /\ pc' = "train"
    /\ UNCHANGED <<global_steps, loader, current, future, learned, weights,
                   disk, crashes>>

Train ==
    /\ pc = "train"
    /\ actor' = IF CriticWarmup <= global_steps THEN actor + 1 ELSE actor
    /\ last' = current.batch
    /\ used' = used + 1
    /\ current' = NoBatch
    /\ pc' = "validate"
    /\ UNCHANGED <<global_steps, loader, future, rollout, disk, crashes>>

TestDue ==
    /\ TestFreq > 0
    /\ IsLastStep \/ global_steps % TestFreq = 0

(* _validate generates with the rollout workers, after what they have begun.*)
Validate ==
    /\ pc = "validate"
    /\ TestDue => RolloutIsIdle
    /\ pc' = "save"
    /\ UNCHANGED <<global_steps, loader, current, future, learned, weights,
                   disk, crashes>>

SaveDueByStep == SaveFreq > 0 /\ global_steps % SaveFreq = 0
SaveDue ==
    /\ SaveFreq > 0
    /\ IsLastStep \/ global_steps % SaveFreq = 0

SaveCheckpoint ==
    /\ pc = "save"
    /\ disk' = IF SaveDue
               THEN [step |-> global_steps, actor |-> actor,
                     position |-> position, drawn |-> drawn,
                     last |-> last, used |-> used]
               ELSE disk
    /\ pc' = "finish"
    /\ UNCHANGED <<global_steps, loader, current, future, learned, weights,
                   crashes>>

FinishStepAndFetch ==
    /\ pc = "finish"
    /\ global_steps' = global_steps + 1
    /\ pc' = IF IsLastStep THEN "done" ELSE "first"
    /\ UNCHANGED <<loader, current, future, learned, weights, disk, crashes>>
FinishStep ==
    /\ pc = "finish"
    /\ global_steps' = global_steps + 1
    /\ pc' = IF IsLastStep THEN "done"
             ELSE IF IsBatch(future) THEN "wait" ELSE "ended"
    /\ UNCHANGED <<loader, current, future, learned, weights, disk, crashes>>

-----------------------------------------------------------------------------
(* The job dies and is started again: everything but the disk is new.       *)
Crash ==
    /\ pc \notin Terminal
    /\ crashes < MaxCrashes
    /\ crashes' = crashes + 1
    /\ pc' = "load"
    /\ global_steps' = 0
    /\ epoch' = 0
    /\ position' = 0
    /\ current' = NoBatch
    /\ future' = NoBatch
    /\ actor' = 0
    /\ rollout' = 0
    /\ drawn' = disk.drawn
    /\ last' = disk.last
    /\ used' = disk.used
    /\ UNCHANGED disk

Drive ==
    \/ LoadCheckpoint
    \/ ValidateBefore
    \/ FetchFirstBatch
    \/ FetchNoFirstBatch
    \/ AwaitGeneration
    \/ Prefetch
    \/ SkipPrefetch
    \/ Train
    \/ Validate
    \/ SaveCheckpoint
    \/ FinishStep

(* fit has returned.                                                        *)
Stopped == pc \in Terminal /\ UNCHANGED vars

Next == Drive \/ Generate \/ Crash \/ Stopped

Spec == Init /\ [][Next]_vars

(* The driver's calls and the generations return or raise.                  *)
FairSpec == Spec /\ WF_vars(Drive) /\ WF_vars(Generate)

-----------------------------------------------------------------------------
(* README.md:31 of the recipe: generation stays one step off.  Whatever is  *)
(* generated in advance, the weights it is trained against are at most one  *)
(* update ahead of those that generated it, through warm-up steps, restarts *)
(* and the ends of epochs.                                                  *)
OneStepBehind ==
    IsBatch(current) => actor - current.weights \in 0 .. 1

(* The batches drawn and not yet trained on, oldest first.  After the last  *)
(* step the future is still the batch that was trained on.                  *)
NextWaits ==
    IsBatch(future) /\ future.batch > last /\ future.batch # current.batch
CurrentBatch == IF IsBatch(current) THEN <<current.batch>> ELSE <<>>
Waiting ==
    IF NextWaits THEN Append(CurrentBatch, future.batch) ELSE CurrentBatch

(* No batch is trained on twice, and every batch drawn is trained on but    *)
(* for one at each restart: the one that was drawn ahead of the checkpoint  *)
(* and generated when the job died.                                         *)
LittleIsSkipped == drawn - used - Len(Waiting) \in 0 .. crashes

(* However training stops, by a crash, an error in drawing or the end of    *)
(* the data before the last step, fewer than SaveFreq finished steps are    *)
(* lost, and none when the last step was reached.                           *)
StepsAhead == global_steps - 1 - disk.step
LittleWorkIsLost ==
    SaveFreq > 0 =>
        /\ StepsAhead < SaveFreq
        /\ pc = "done" => StepsAhead = 0

(* fit returns, whatever the lengths of data and training and the failures. *)
Termination == <>(pc \in Terminal)

-----------------------------------------------------------------------------
(* The driver implements the pipeline of two batches.                       *)
Pipeline == INSTANCE BatchPipeline WITH
    Depth   <- 2,
    waiting <- Waiting,
    saved   <- [drawn |-> disk.drawn, last |-> disk.last]

(* Batches are trained on in the order drawn, once, and only a restart      *)
(* skips one.                                                               *)
ImplementsPipeline == Pipeline!Spec

=============================================================================
