-------------------------- MODULE OneStepOff_proofs --------------------------
(***************************************************************************)
(* Proofs about OneStepOff: for all lengths of data and training, all      *)
(* warm-ups and frequencies and any number of crashes.  None of the        *)
(* properties is inductive: each depends on which batches the driver holds *)
(* at each place of the loop (Batches).                                    *)
(***************************************************************************)
EXTENDS OneStepOff, SequenceTheorems, TLAPS

(* The batch the loop is occupied with: the one in training or, after the   *)
(* actor's update, the last one trained on.                                 *)
Newest == IF pc = "train" THEN current.batch ELSE last

(* Which batches the driver holds, by where it is.  In the last step the    *)
(* future is still the batch of that step.                                  *)
Batches ==
    /\ IsBatch(current) <=> pc \in {"prefetch", "train"}
    /\ pc \in {"load", "initial", "first"} => ~IsBatch(future)
    /\ pc = "wait" => future.batch = drawn /\ last < drawn
    /\ pc = "prefetch" => /\ current = future /\ future.ready
                          /\ future.batch = drawn /\ last < drawn
    /\ pc = "train" => last < current.batch
    /\ pc \in {"train", "validate", "save", "finish"} =>
           IF IsBatch(future)
           THEN /\ future.batch = drawn
                /\ Newest = (IF IsLastStep THEN drawn ELSE drawn - 1)
           ELSE Newest <= drawn
    /\ last <= drawn /\ disk.last <= disk.drawn

(* Which weights generated them.                                            *)
Weights ==
    /\ future.ready => future.weights = rollout
    /\ pc = "wait" => actor - rollout \in 0 .. 1
    /\ IsBatch(current) => actor - current.weights \in 0 .. 1
    /\ (pc = "train" /\ IsBatch(future) /\ ~IsLastStep) => rollout = actor
    /\ (pc \in {"validate", "save", "finish"} /\ IsBatch(future) /\ ~IsLastStep) =>
           actor - rollout \in 0 .. 1

(* How many batches a restart from the disk would have skipped.             *)
Skipped ==
    /\ drawn - used - Len(Waiting) \in 0 .. crashes
    /\ disk.drawn - disk.used \in 0 .. crashes + 1
    /\ pc = "load" => /\ drawn = disk.drawn
                      /\ used = disk.used
                      /\ last = disk.last

IInv == TypeOK /\ Batches /\ Weights /\ Skipped

-----------------------------------------------------------------------------
(* Nothing is generated before the first step.                              *)
LEMMA InitIInv == Init => IInv
PROOF
  <1> SUFFICES ASSUME Init PROVE IInv
    OBVIOUS
  <1>1. TypeOK
    BY OneStepOffAssumption
       DEF Init, TypeOK, Places, NoBatch, Generations, NoCheckpoint, Checkpoints
  <1>2. Batches /\ Weights
    BY DEF Init, Batches, Weights, IsBatch, NoBatch, NoCheckpoint
  <1>3. Skipped
    <2>1. Waiting = <<>>
      BY DEF Init, Waiting, CurrentBatch, NextWaits, IsBatch, NoBatch
    <2>2. Len(Waiting) = 0
      BY <2>1
    <2> QED BY <2>2 DEF Init, Skipped, NoCheckpoint
  <1> QED BY <1>1, <1>2, <1>3 DEF IInv

(* The iterator stays within the data.                                      *)
LEMMA AdvanceKeepsPosition ==
  ASSUME TypeOK, AdvanceIterator
  PROVE  /\ epoch' \in 0 .. TotalEpochs - 1
         /\ position' \in 0 .. BatchesPerEpoch
         /\ drawn' = drawn + 1
PROOF
  <1>1. CASE position < BatchesPerEpoch
    BY <1>1, OneStepOffAssumption DEF TypeOK, AdvanceIterator
  <1>2. CASE position = BatchesPerEpoch
    BY <1>2, OneStepOffAssumption DEF TypeOK, AdvanceIterator, IteratorHasNext
  <1> QED BY <1>1, <1>2, OneStepOffAssumption DEF TypeOK

(* The batches that wait, by where the driver is.                           *)
LEMMA WaitingIs ==
  ASSUME TypeOK, Batches
  PROVE  /\ pc \in {"load", "initial", "first"} => Waiting = <<>>
         /\ pc \in {"wait", "prefetch"} => Waiting = <<drawn>>
         /\ pc = "train" =>
              Waiting = IF IsBatch(future) /\ ~IsLastStep
                        THEN Append(<<current.batch>>, drawn) ELSE <<current.batch>>
         /\ pc \in {"validate", "save", "finish"} =>
              Waiting = IF IsBatch(future) /\ ~IsLastStep
                        THEN <<drawn>> ELSE <<>>
PROOF
  <1>0. /\ drawn \in Nat /\ last \in Nat
        /\ current.batch \in Nat /\ future.batch \in Nat
    BY DEF TypeOK, Generations
  <1>1. CASE pc \in {"load", "initial", "first"}
    <2>1. CurrentBatch = <<>> /\ ~NextWaits
      BY <1>1 DEF Batches, CurrentBatch, NextWaits
    <2> QED BY <1>1, <2>1 DEF Waiting
  <1>2. CASE pc = "wait"
    <2>1. CurrentBatch = <<>> /\ NextWaits /\ future.batch = drawn
      BY <1>0, <1>2 DEF Batches, CurrentBatch, NextWaits, IsBatch
    <2> QED BY <1>0, <1>2, <2>1 DEF Waiting
  <1>3. CASE pc = "prefetch"
    <2>1. CurrentBatch = <<drawn>> /\ ~NextWaits
      BY <1>0, <1>3 DEF Batches, CurrentBatch, NextWaits, IsBatch
    <2> QED BY <1>0, <1>3, <2>1 DEF Waiting
  <1>4. CASE pc = "train"
    <2>1. CurrentBatch = <<current.batch>>
      BY <1>4 DEF Batches, CurrentBatch
    <2>2. /\ NextWaits <=> IsBatch(future) /\ ~IsLastStep
          /\ NextWaits => future.batch = drawn
      BY <1>0, <1>4 DEF Batches, Newest, NextWaits, IsBatch
    <2> QED BY <1>0, <1>4, <2>1, <2>2 DEF Waiting
  <1>5. CASE pc \in {"validate", "save", "finish"}
    <2>1. CurrentBatch = <<>>
      BY <1>5 DEF Batches, CurrentBatch
    <2>2. /\ NextWaits <=> IsBatch(future) /\ ~IsLastStep
          /\ NextWaits => future.batch = drawn
      BY <1>0, <1>5 DEF Batches, Newest, NextWaits, IsBatch
    <2> QED BY <1>0, <1>5, <2>1, <2>2 DEF Waiting
  <1> QED BY <1>1, <1>2, <1>3, <1>4, <1>5

(* Every step keeps the types.                                              *)
LEMMA NextTypeOK == IInv /\ [Next]_vars => TypeOK'
PROOF
  <1> SUFFICES ASSUME IInv, [Next]_vars PROVE TypeOK'
    OBVIOUS
  <1> USE DEF IInv
  <1>1. CASE LoadCheckpoint
    BY <1>1 DEF LoadCheckpoint, TypeOK, Places, Checkpoints
  <1>2. CASE ValidateBefore
    BY <1>2 DEF ValidateBefore, TypeOK, Places, loader, learned, weights
  <1>3. CASE FetchFirstBatch \/ (Prefetch /\ AsyncGenNextBatch)
    <2>1. /\ epoch' \in 0 .. TotalEpochs - 1
          /\ position' \in 0 .. BatchesPerEpoch
          /\ drawn' = drawn + 1
      BY <1>3, AdvanceKeepsPosition
         DEF FetchFirstBatch, Prefetch, AsyncGenNextBatch
    <2>2. future' \in Generations
      <3>1. future' = [batch |-> drawn + 1, ready |-> FALSE, weights |-> 0]
        BY <1>3 DEF FetchFirstBatch, Prefetch, AsyncGenNextBatch
      <3>2. drawn + 1 \in Nat
        BY DEF TypeOK
      <3> QED BY <3>1, <3>2 DEF Generations
    <2> QED BY <1>3, <2>1, <2>2
            DEF FetchFirstBatch, Prefetch, AsyncGenNextBatch,
                SyncRolloutWeights, TypeOK, Places, learned
  <1>4. CASE FetchNoFirstBatch \/ (Prefetch /\ NoNextBatch)
    <2>1. future' \in Generations
      <3>1. future' = NoBatch
        BY <1>4 DEF FetchNoFirstBatch, Prefetch, NoNextBatch
      <3> QED BY <3>1 DEF NoBatch, Generations
    <2>2. /\ pc' \in {"train", "ended"}
          /\ UNCHANGED <<global_steps, epoch, position, drawn, current, last,
                        used, actor, rollout, disk, crashes>>
      BY <1>4 DEF FetchNoFirstBatch, Prefetch, NoNextBatch, loader, learned
    <2> QED BY <2>1, <2>2 DEF TypeOK, Places, Terminal
  <1>5. CASE Generate
    BY <1>5 DEF Generate, TypeOK, Generations, loader, learned, weights
  <1>6. CASE AwaitGeneration
    BY <1>6 DEF AwaitGeneration, TypeOK, Places, loader, learned, weights
  <1>7. CASE SkipPrefetch
    BY <1>7 DEF SkipPrefetch, TypeOK, Places, loader, learned, weights
  <1>8. CASE Train
    BY <1>8 DEF Train, TypeOK, Places, Generations, NoBatch, loader
  <1>9. CASE Validate
    BY <1>9 DEF Validate, TypeOK, Places, loader, learned, weights
  <1>10. CASE SaveCheckpoint
    BY <1>10 DEF SaveCheckpoint, TypeOK, Places, Checkpoints, loader, learned,
                 weights
  <1>11. CASE FinishStep
    BY <1>11 DEF FinishStep, TypeOK, Places, Terminal, loader, learned, weights
  <1>12. CASE Crash
    BY <1>12, OneStepOffAssumption
       DEF Crash, TypeOK, Places, NoBatch, Generations, Checkpoints
  <1>13. CASE UNCHANGED vars
    BY <1>13 DEF vars, TypeOK, loader, learned, weights
  <1> QED
    BY <1>1, <1>2, <1>3, <1>4, <1>5, <1>6, <1>7, <1>8, <1>9, <1>10, <1>11,
       <1>12, <1>13
       DEF Next, Drive, Stopped, Prefetch

(* What every step does to the batches that wait, and so to those skipped.  *)
LEMMA NextBatches == IInv /\ [Next]_vars => Batches'
PROOF
  <1> SUFFICES ASSUME IInv, [Next]_vars PROVE Batches'
    OBVIOUS
  <1> USE DEF IsBatch, NoBatch
  <1>0. /\ drawn \in Nat /\ last \in Nat
        /\ current.batch \in Nat /\ future.batch \in Nat
        /\ Batches
    BY DEF IInv, TypeOK, Generations
  <1>1. CASE LoadCheckpoint
    BY <1>0, <1>1 DEF LoadCheckpoint, Batches
  <1>2. CASE ValidateBefore
    BY <1>0, <1>2 DEF ValidateBefore, Batches, loader, learned
  <1>3. CASE AsyncGenNextBatch /\ (FetchFirstBatch \/ Prefetch)
    <2>1. /\ drawn' = drawn + 1 /\ future'.batch = drawn + 1
          /\ UNCHANGED <<current, last, disk, global_steps>>
      BY <1>3 DEF AsyncGenNextBatch, AdvanceIterator, FetchFirstBatch,
                  Prefetch, learned
    <2>2. CASE FetchFirstBatch
      BY <1>0, <1>3, <2>1, <2>2 DEF FetchFirstBatch, Batches
    <2>3. CASE Prefetch
      BY <1>0, <1>3, <2>1, <2>3 DEF Prefetch, Batches, Newest, IsLastStep
    <2> QED BY <1>3, <2>2, <2>3
  <1>4. CASE NoNextBatch /\ (FetchNoFirstBatch \/ Prefetch)
    <2>1. /\ future'.batch = 0
          /\ UNCHANGED <<drawn, current, last, disk, global_steps>>
      BY <1>4 DEF NoNextBatch, FetchNoFirstBatch, Prefetch, loader, learned
    <2>2. CASE FetchNoFirstBatch
      BY <1>0, <1>4, <2>1, <2>2 DEF FetchNoFirstBatch, Batches
    <2>3. CASE Prefetch
      BY <1>0, <1>4, <2>1, <2>3 DEF Prefetch, Batches, Newest
    <2> QED BY <1>4, <2>2, <2>3
  <1>5. CASE Generate
    <2>1. /\ future'.batch = future.batch
          /\ UNCHANGED <<pc, global_steps, drawn, current, last, disk>>
          /\ pc # "prefetch"
      BY <1>0, <1>5 DEF Generate, Batches, IInv, TypeOK, Generations, loader, learned
    <2> QED BY <1>0, <2>1 DEF Batches, Newest, IsLastStep
  <1>6. CASE AwaitGeneration
    BY <1>0, <1>6 DEF AwaitGeneration, Batches, loader, learned
  <1>7. CASE SkipPrefetch
    BY <1>0, <1>7
       DEF SkipPrefetch, Batches, Newest, IsLastStep, loader, learned
  <1>8. CASE Train
    BY <1>0, <1>8 DEF Train, Batches, Newest, IsLastStep, loader
  <1>9. CASE Validate
    BY <1>0, <1>9 DEF Validate, Batches, Newest, IsLastStep, loader, learned
  <1>10. CASE SaveCheckpoint
    BY <1>0, <1>10
       DEF SaveCheckpoint, Batches, Newest, IsLastStep, loader, learned
  <1>11. CASE FinishStep
    BY <1>0, <1>11
       DEF FinishStep, Batches, Newest, IsLastStep, loader, learned
  <1>12. CASE Crash
    BY <1>0, <1>12 DEF Crash, Batches
  <1>13. CASE UNCHANGED vars
    BY <1>0, <1>13 DEF vars, Batches, Newest, IsLastStep, loader, learned
  <1> QED
    BY <1>1, <1>2, <1>3, <1>4, <1>5, <1>6, <1>7, <1>8, <1>9, <1>10, <1>11,
       <1>12, <1>13
       DEF Next, Drive, Stopped, FetchFirstBatch, FetchNoFirstBatch, Prefetch

(* Sending copies the actor's weights, training then puts it one ahead.     *)
LEMMA NextWeights == IInv /\ [Next]_vars => Weights'
PROOF
  <1> SUFFICES ASSUME IInv, [Next]_vars PROVE Weights'
    OBVIOUS
  <1> USE DEF IsBatch, NoBatch
  <1>0. /\ actor \in Nat /\ rollout \in Nat /\ global_steps \in Nat
        /\ Batches /\ Weights
    BY DEF IInv, TypeOK
  <1>1. CASE LoadCheckpoint \/ Crash
    BY <1>0, <1>1 DEF LoadCheckpoint, Crash, Weights, Batches
  <1>2. CASE ValidateBefore
    BY <1>0, <1>2 DEF ValidateBefore, Weights, Batches, weights
  <1>3. CASE AsyncGenNextBatch /\ (FetchFirstBatch \/ Prefetch)
    BY <1>0, <1>3
       DEF AsyncGenNextBatch, SyncRolloutWeights, FetchFirstBatch, Prefetch,
           Weights, Batches
  <1>4. CASE NoNextBatch /\ (FetchNoFirstBatch \/ Prefetch)
    BY <1>0, <1>4
       DEF NoNextBatch, FetchNoFirstBatch, Prefetch, Weights, Batches
  <1>5. CASE Generate
    <2>1. future'.weights = rollout /\ future'.batch = future.batch
      BY <1>5 DEF Generate, IInv, TypeOK, Generations
    <2> QED BY <1>0, <1>5, <2>1
            DEF Generate, Weights, Batches, IsLastStep, weights
  <1>6. CASE AwaitGeneration
    BY <1>0, <1>6 DEF AwaitGeneration, Weights, weights
  <1>7. CASE SkipPrefetch
    BY <1>0, <1>7 DEF SkipPrefetch, Weights, weights, IsLastStep
  <1>8. CASE Train
    BY <1>0, <1>8 DEF Train, Weights, IsLastStep
  <1>9. CASE Validate
    BY <1>0, <1>9 DEF Validate, Weights, weights, IsLastStep
  <1>10. CASE SaveCheckpoint
    BY <1>0, <1>10 DEF SaveCheckpoint, Weights, weights, IsLastStep
  <1>11. CASE FinishStep
    BY <1>0, <1>11 DEF FinishStep, Weights, Batches, weights, IsLastStep
  <1>12. CASE UNCHANGED vars
    BY <1>0, <1>12 DEF vars, Weights, weights, IsLastStep
  <1> QED
    BY <1>1, <1>2, <1>3, <1>4, <1>5, <1>6, <1>7, <1>8, <1>9, <1>10, <1>11,
       <1>12
       DEF Next, Drive, Stopped, FetchFirstBatch, FetchNoFirstBatch, Prefetch

-----------------------------------------------------------------------------
(* Training on the first of two batches leaves the second.                  *)
LEMMA FirstOfTwo ==
  ASSUME NEW x \in Nat, NEW y \in Nat
  PROVE  /\ Append(<<x>>, y) # <<>>
         /\ Head(Append(<<x>>, y)) = x
         /\ Tail(Append(<<x>>, y)) = <<y>>
         /\ Append(<<>>, y) = <<y>>
PROOF
  <1>1. <<x>> \in Seq(Nat)
    OBVIOUS
  <1>2. <<x>> # <<>>
    OBVIOUS
  <1>3. Head(<<x>>) = x
    OBVIOUS
  <1>4. Tail(<<x>>) = <<>>
    OBVIOUS
  <1>5. Append(<<>>, y) = <<y>>
    OBVIOUS
  <1>6. Append(<<x>>, y) # <<>>
    BY <1>1, AppendProperties
  <1> QED BY <1>1, <1>2, <1>3, <1>4, <1>5, <1>6, HeadTailAppend, Zenon

(* Batches are numbers.                                                     *)
LEMMA WaitingTyped ==
  ASSUME TypeOK
  PROVE  Waiting \in Seq(Nat)
PROOF
  <1>1. current.batch \in Nat /\ future.batch \in Nat
    BY DEF TypeOK, Generations
  <1>2. CurrentBatch \in Seq(Nat)
    BY <1>1 DEF CurrentBatch
  <1> QED BY <1>1, <1>2, AppendProperties DEF Waiting

(* What a step of the driver is to the batches: they are drawn, trained on, *)
(* saved or restarted from, or the step leaves them as they are.            *)
LEMMA StepsOfPipeline ==
  ASSUME IInv, [Next]_vars, TypeOK', Batches'
  PROVE  \/ /\ Pipeline!Draw
            /\ UNCHANGED <<used, disk, crashes>> /\ pc' # "load"
         \/ /\ Pipeline!Train
            /\ used' = used + 1
            /\ UNCHANGED <<disk, crashes>> /\ pc' # "load"
         \/ /\ UNCHANGED <<drawn, last, Waiting, used, crashes>>
            /\ Len(Waiting) <= 1 /\ pc' # "load"
            /\ disk'.drawn = drawn /\ disk'.last = last /\ disk'.used = used
         \/ Crash /\ Waiting' = <<>>
         \/ /\ UNCHANGED <<drawn, last, Waiting, used, disk, crashes>>
            /\ pc' = "load" => pc = "load"
PROOF
  <1>0. /\ TypeOK /\ Batches /\ Skipped
        /\ drawn \in Nat /\ last \in Nat
        /\ current.batch \in Nat /\ future.batch \in Nat
    BY DEF IInv, TypeOK, Generations
  <1>1. CASE LoadCheckpoint
    <2>1. Waiting = <<>> /\ Waiting' = <<>>
      BY <1>0, <1>1, WaitingIs DEF LoadCheckpoint, Batches, Waiting,
         NextWaits, CurrentBatch, IsBatch
    <2> QED BY <1>0, <1>1, <2>1 DEF LoadCheckpoint, Skipped
  <1>2. CASE UNCHANGED <<current, future, last>> /\ UNCHANGED <<drawn, used, disk, crashes>>
              /\ (pc' = "load" => pc = "load")
    BY <1>2 DEF Waiting, NextWaits, CurrentBatch
  <1>3. CASE AsyncGenNextBatch /\ (FetchFirstBatch \/ Prefetch)
    <2>1. /\ drawn' = drawn + 1
          /\ future'.batch = drawn + 1
          /\ UNCHANGED <<current, last, used, disk, crashes>>
          /\ pc' # "load"
      BY <1>3 DEF AsyncGenNextBatch, AdvanceIterator, FetchFirstBatch,
                  Prefetch, learned
    <2>2. /\ ~NextWaits
          /\ NextWaits'
      BY <1>0, <1>3, <2>1
         DEF FetchFirstBatch, Prefetch, NextWaits, Batches, IsBatch
    <2>3. /\ Waiting = CurrentBatch
          /\ Waiting' = Append(CurrentBatch, drawn + 1)
      BY <2>1, <2>2 DEF Waiting, CurrentBatch
    <2>4. Len(Waiting) < 2
      BY <1>0, <2>3 DEF CurrentBatch
    <2> QED BY <2>1, <2>3, <2>4 DEF Pipeline!Draw
  <1>4. CASE NoNextBatch /\ (FetchNoFirstBatch \/ Prefetch)
    <2>1. /\ ~IsBatch(future)'
          /\ UNCHANGED <<current, drawn, last, used, disk, crashes>>
          /\ pc' # "load"
      BY <1>4 DEF NoNextBatch, FetchNoFirstBatch, Prefetch, loader, learned,
                  IsBatch, NoBatch
    <2>2. ~NextWaits /\ ~NextWaits'
      BY <1>0, <1>4, <2>1
         DEF FetchNoFirstBatch, Prefetch, Batches, NextWaits, IsBatch
    <2> QED BY <2>1, <2>2 DEF Waiting, CurrentBatch
  <1>5. CASE Generate
    <2>1. /\ future'.batch = future.batch
          /\ UNCHANGED <<pc, drawn, current, last, used, disk, crashes>>
      BY <1>5 DEF Generate, IInv, TypeOK, Generations, loader, learned
    <2> QED BY <2>1 DEF Waiting, NextWaits, CurrentBatch, IsBatch
  <1>6. CASE AwaitGeneration
    <2>1. /\ current' = future
          /\ UNCHANGED <<future, drawn, last, used, disk, crashes>>
          /\ pc = "wait" /\ pc' = "prefetch"
      BY <1>6 DEF AwaitGeneration, loader, learned
    <2>2. Waiting = <<drawn>>
      BY <1>0, <2>1, WaitingIs
    <2>3. Waiting' = <<drawn>>
      BY <1>0, <2>1 DEF Batches, Waiting, NextWaits, CurrentBatch, IsBatch
    <2> QED BY <2>1, <2>2, <2>3
  <1>7. CASE SkipPrefetch \/ Validate \/ FinishStep \/ ValidateBefore
    BY <1>2, <1>7 DEF SkipPrefetch, Validate, FinishStep, ValidateBefore,
                      loader, learned
  <1>8. CASE Train
    <2>1. /\ last' = current.batch /\ current'.batch = 0
          /\ used' = used + 1
          /\ UNCHANGED <<future, drawn, disk, crashes>>
          /\ pc = "train" /\ pc' = "validate" /\ IsBatch(current)
      BY <1>0, <1>8 DEF Train, loader, Batches, NoBatch
    <2>2. NextWaits <=> NextWaits'
      BY <1>0, <2>1 DEF Batches, Newest, NextWaits, IsBatch
    <2>3. /\ CurrentBatch = <<current.batch>>
          /\ CurrentBatch' = <<>>
      BY <2>1 DEF CurrentBatch, IsBatch
    <2>4. /\ Waiting # <<>>
          /\ last' = Head(Waiting)
          /\ Waiting' = Tail(Waiting)
      <3>1. CASE NextWaits
        <4>1. Waiting = Append(<<current.batch>>, future.batch)
          BY <2>3, <3>1 DEF Waiting
        <4>2. Waiting' = Append(<<>>, future.batch)
          BY <2>1, <2>2, <2>3, <3>1 DEF Waiting
        <4> QED BY <1>0, <2>1, <4>1, <4>2, FirstOfTwo
      <3>2. CASE ~NextWaits
        BY <1>0, <2>1, <2>2, <2>3, <3>2 DEF Waiting
      <3> QED BY <3>1, <3>2
    <2> QED BY <2>1, <2>4 DEF Pipeline!Train
  <1>9. CASE SaveCheckpoint
    <2>1. /\ UNCHANGED <<current, future, drawn, last, used, crashes>>
          /\ pc = "save" /\ pc' = "finish"
          /\ \/ disk' = disk
             \/ disk'.drawn = drawn /\ disk'.last = last /\ disk'.used = used
      BY <1>9 DEF SaveCheckpoint, loader, learned
    <2>2. Waiting = <<>> \/ Waiting = <<drawn>>
      BY <1>0, <2>1, WaitingIs
    <2>3. Len(Waiting) <= 1
      <3>1. CASE Waiting = <<>>
        BY <3>1
      <3>2. CASE Waiting = <<drawn>>
        BY <3>2
      <3> QED BY <2>2, <3>1, <3>2
    <2>4. UNCHANGED Waiting
      BY <2>1 DEF Waiting, NextWaits, CurrentBatch
    <2> QED BY <2>1, <2>3, <2>4
  <1>10. CASE Crash
    <2>1. Waiting' = <<>>
      BY <1>10 DEF Crash, Waiting, NextWaits, CurrentBatch, IsBatch, NoBatch
    <2> QED BY <1>10, <2>1
  <1>11. CASE UNCHANGED vars
    BY <1>2, <1>11 DEF vars, loader, learned
  <1> QED
    BY <1>1, <1>3, <1>4, <1>5, <1>6, <1>7, <1>8, <1>9, <1>10, <1>11
       DEF Next, Drive, Stopped, FetchFirstBatch, FetchNoFirstBatch, Prefetch

(* A restart skips what was drawn and not trained on.                       *)
LEMMA NextSkipped == IInv /\ [Next]_vars /\ TypeOK' /\ Batches' => Skipped'
PROOF
  <1> SUFFICES ASSUME IInv, [Next]_vars, TypeOK', Batches' PROVE Skipped'
    OBVIOUS
  <1> DEFINE n == Len(Waiting)
  <1>0. /\ TypeOK /\ Skipped /\ Waiting \in Seq(Nat)
        /\ drawn \in Nat /\ used \in Nat /\ crashes \in Nat
        /\ disk.drawn \in Nat /\ disk.used \in Nat
    BY WaitingTyped, OneStepOffAssumption DEF IInv, TypeOK, Checkpoints
  <1>1. n \in Nat
    BY <1>0
  <1>2. CASE Pipeline!Draw /\ UNCHANGED <<used, disk, crashes>> /\ pc' # "load"
    <2>1. Len(Waiting') = n + 1
      BY <1>0, <1>2, AppendProperties DEF Pipeline!Draw
    <2> QED BY <1>0, <1>1, <1>2, <2>1 DEF Skipped, Pipeline!Draw
  <1>3. CASE Pipeline!Train /\ used' = used + 1 /\ UNCHANGED <<disk, crashes>>
             /\ pc' # "load"
    <2>1. Len(Waiting') = n - 1
      BY <1>0, <1>3, HeadTailProperties DEF Pipeline!Train
    <2> QED BY <1>0, <1>1, <1>3, <2>1 DEF Skipped, Pipeline!Train
  <1>4. CASE /\ UNCHANGED <<drawn, last, Waiting, used, crashes>>
             /\ Len(Waiting) <= 1 /\ pc' # "load"
             /\ disk'.drawn = drawn /\ disk'.last = last /\ disk'.used = used
    BY <1>0, <1>1, <1>4 DEF Skipped
  <1>5. CASE Crash /\ Waiting' = <<>>
    <2>1. Len(Waiting') = 0
      BY <1>5
    <2> QED BY <1>0, <1>5, <2>1 DEF Skipped, Crash
  <1>6. CASE /\ UNCHANGED <<drawn, last, Waiting, used, disk, crashes>>
             /\ pc' = "load" => pc = "load"
    BY <1>0, <1>6 DEF Skipped
  <1> QED BY <1>2, <1>3, <1>4, <1>5, <1>6, StepsOfPipeline

(* The parts together.                                                      *)
LEMMA NextIInv == IInv /\ [Next]_vars => IInv'
PROOF
  <1> SUFFICES ASSUME IInv, [Next]_vars PROVE IInv'
    OBVIOUS
  <1>1. TypeOK' /\ Batches' /\ Weights'
    BY NextTypeOK, NextBatches, NextWeights
  <1>2. Skipped'
    BY <1>1, NextSkipped
  <1> QED BY <1>1, <1>2 DEF IInv

(* IInv holds throughout.                                                   *)
LEMMA Invariance == Spec => []IInv
  BY InitIInv, NextIInv, PTL DEF Spec

(* The driver's variables keep their types; in particular the epoch and the *)
(* position stay within the data.                                           *)
THEOREM TypeCorrect == Spec => []TypeOK
PROOF
  <1>1. IInv => TypeOK
    BY DEF IInv
  <1> QED BY <1>1, Invariance, PTL

(* The weights a batch is trained against are at most one update ahead of   *)
(* those that generated it (README.md:31 of the recipe).                    *)
THEOREM StaysOneStepBehind == Spec => []OneStepBehind
PROOF
  <1>1. IInv => OneStepBehind
    BY DEF IInv, Weights, OneStepBehind
  <1> QED BY <1>1, Invariance, PTL

(* Each restart skips at most one batch, and nothing else skips any.        *)
THEOREM SkipsLittle == Spec => []LittleIsSkipped
PROOF
  <1>1. IInv => LittleIsSkipped
    BY DEF IInv, Skipped, LittleIsSkipped
  <1> QED BY <1>1, Invariance, PTL

(* The driver implements the pipeline of two batches.                       *)
THEOREM Implementation == Spec => ImplementsPipeline
PROOF
  <1>1. Init => Pipeline!Init
    <2> SUFFICES ASSUME Init PROVE Pipeline!Init
      OBVIOUS
    <2>1. Waiting = <<>>
      BY DEF Init, Waiting, CurrentBatch, NextWaits, IsBatch, NoBatch
    <2> QED BY <2>1 DEF Init, Pipeline!Init, NoCheckpoint
  <1>2. IInv /\ IInv' /\ [Next]_vars => [Pipeline!Next]_(Pipeline!pipeline)
    <2> SUFFICES ASSUME IInv, IInv', [Next]_vars
                 PROVE  [Pipeline!Next]_(Pipeline!pipeline)
      OBVIOUS
    <2> USE DEF Pipeline!Next, Pipeline!pipeline
    <2>1. TypeOK' /\ Batches'
      BY DEF IInv
    <2>2. CASE Pipeline!Draw
      BY <2>2
    <2>3. CASE Pipeline!Train
      BY <2>3
    <2>4. CASE /\ UNCHANGED <<drawn, last, Waiting>>
               /\ disk'.drawn = drawn /\ disk'.last = last
      BY <2>4 DEF Pipeline!Save
    <2>5. CASE Crash /\ Waiting' = <<>>
      BY <2>5 DEF Crash, Pipeline!Restart
    <2>6. CASE UNCHANGED <<drawn, last, Waiting, disk>>
      BY <2>6
    <2> QED BY <2>1, <2>2, <2>3, <2>4, <2>5, <2>6, StepsOfPipeline
  <1> QED BY <1>1, <1>2, Invariance, PTL
          DEF Spec, ImplementsPipeline, Pipeline!Spec

-----------------------------------------------------------------------------
(* The remainder grows by one until it wraps around.                        *)
LEMMA RemainderOfPrevious ==
  ASSUME NEW s \in Nat \ {0}, NEW f \in Nat \ {0}
  PROVE  /\ s % f \in 0 .. f - 1
         /\ (s - 1) % f \in 0 .. f - 1
         /\ s % f # 0 => (s - 1) % f = (s % f) - 1
PROOF
  <1> DEFINE q1 == s \div f
             r1 == s % f
             q2 == (s - 1) \div f
             r2 == (s - 1) % f
  <1>1. q1 \in Nat /\ r1 \in 0 .. f - 1 /\ s = f * q1 + r1
    OBVIOUS
  <1>2. q2 \in Nat /\ r2 \in 0 .. f - 1 /\ s - 1 = f * q2 + r2
    <2>1. s - 1 \in Nat
      OBVIOUS
    <2> QED BY <2>1
  <1> HIDE DEF q1, r1, q2, r2
  <1>3. ASSUME NEW a \in Nat, NEW b \in Nat, a < b
        PROVE  f * a + f <= f * b
    <2>1. PICK k \in Nat : b = (a + 1) + k
      <3>1. b - (a + 1) \in Nat /\ b = (a + 1) + (b - (a + 1))
        BY <1>3
      <3> QED BY <3>1
    <2>2. f * b = f * a + f + f * k /\ f * k \in Nat
      BY <2>1
    <2> QED BY <2>2
  <1>4. ASSUME r1 # 0 PROVE q1 = q2
    <2>1. ~(q2 < q1)
      <3> SUFFICES ASSUME q2 < q1 PROVE FALSE
        OBVIOUS
      <3>1. f * q2 + f <= f * q1
        BY <1>1, <1>2, <1>3
      <3> QED BY <3>1, <1>1, <1>2, <1>4
    <2>2. ~(q1 < q2)
      <3> SUFFICES ASSUME q1 < q2 PROVE FALSE
        OBVIOUS
      <3>1. f * q1 + f <= f * q2
        BY <1>1, <1>2, <1>3
      <3> QED BY <3>1, <1>1, <1>2
    <2> QED BY <2>1, <2>2, <1>1, <1>2
  <1>5. r1 # 0 => r2 = r1 - 1
    BY <1>1, <1>2, <1>4
  <1> QED BY <1>1, <1>2, <1>5 DEF r1, r2

(* Fewer steps were taken since the checkpoint than would have made one     *)
(* due.                                                                     *)
NoneMissed(s) == s - disk.step <= s % SaveFreq

LInv ==
    /\ TypeOK
    /\ pc = "load" => global_steps = 0
    /\ pc = "initial" => global_steps = disk.step
    /\ pc \notin {"load", "initial"} => global_steps \in Nat \ {0}
    /\ pc \notin {"load", "initial", "finish"} => NoneMissed(global_steps - 1)
    /\ pc = "finish" => /\ NoneMissed(global_steps)
                        /\ IsLastStep => disk.step = global_steps
    /\ pc = "done" => disk.step = global_steps - 1

(* What is on disk falls behind by a step at a time, and a save catches up. *)
LEMMA NextLInv ==
  ASSUME SaveFreq \in Nat \ {0}, LInv, TypeOK', [Next]_vars
  PROVE  LInv'
PROOF
  <1>0. /\ global_steps \in Nat /\ disk.step \in Nat
        /\ 0 % SaveFreq = 0 /\ disk.step % SaveFreq >= 0
    BY DEF LInv, TypeOK, Checkpoints
  <1>1. CASE LoadCheckpoint
    BY <1>0, <1>1 DEF LoadCheckpoint, LInv
  <1>2. CASE ValidateBefore
    BY <1>0, <1>2 DEF ValidateBefore, LInv, NoneMissed
  <1>3. CASE FetchFirstBatch \/ FetchNoFirstBatch \/ AwaitGeneration
             \/ Prefetch \/ SkipPrefetch \/ Train \/ Validate
    <2>1. /\ UNCHANGED <<global_steps, disk>>
          /\ pc \in {"first", "wait", "prefetch", "train", "validate"}
          /\ pc' \in {"wait", "ended", "prefetch", "train", "validate", "save"}
      BY <1>3 DEF FetchFirstBatch, FetchNoFirstBatch, AwaitGeneration,
                  Prefetch, SkipPrefetch, Train, Validate
    <2> QED BY <1>0, <2>1 DEF LInv, NoneMissed
  <1>4. CASE Generate \/ UNCHANGED vars
    <2>1. UNCHANGED <<pc, global_steps, disk>>
      BY <1>4 DEF Generate, vars
    <2> QED BY <2>1 DEF LInv, NoneMissed, IsLastStep
  <1>5. CASE SaveCheckpoint
    <2>1. /\ pc = "save" /\ pc' = "finish" /\ UNCHANGED global_steps
          /\ global_steps \in Nat \ {0} /\ NoneMissed(global_steps - 1)
      BY <1>5 DEF SaveCheckpoint, LInv
    <2>2. /\ global_steps % SaveFreq \in 0 .. SaveFreq - 1
          /\ global_steps % SaveFreq # 0 =>
               (global_steps - 1) % SaveFreq = (global_steps % SaveFreq) - 1
      BY <2>1, RemainderOfPrevious
    <2>3. CASE SaveDue
      <3>1. disk'.step = global_steps
        BY <1>5, <2>3 DEF SaveCheckpoint
      <3> QED BY <2>1, <2>2, <3>1 DEF LInv, NoneMissed
    <2>4. CASE ~SaveDue
      <3>1. /\ disk' = disk
            /\ ~IsLastStep /\ global_steps % SaveFreq # 0
        BY <1>5, <2>4 DEF SaveCheckpoint, SaveDue
      <3>2. global_steps - disk.step <= global_steps % SaveFreq
        BY <1>0, <2>1, <2>2, <3>1 DEF NoneMissed
      <3> QED BY <2>1, <3>1, <3>2 DEF LInv, NoneMissed, IsLastStep
    <2> QED BY <2>3, <2>4
  <1>6. CASE FinishStep
    <2>1. /\ pc = "finish" /\ pc' \in {"done", "wait", "ended"}
          /\ global_steps' = global_steps + 1 /\ disk' = disk
          /\ pc' = "done" => IsLastStep
      BY <1>6 DEF FinishStep
    <2>2. (global_steps + 1) - 1 = global_steps
      BY <1>0
    <2> QED BY <1>0, <2>1, <2>2 DEF LInv, NoneMissed
  <1>7. CASE Crash
    BY <1>7 DEF Crash, LInv
  <1> QED
    BY <1>1, <1>2, <1>3, <1>4, <1>5, <1>6, <1>7 DEF Next, Drive, Stopped

(* However training stops, fewer than save_freq steps are lost.             *)
THEOREM LosesLittleWork == Spec => []LittleWorkIsLost
PROOF
  <1>1. CASE SaveFreq > 0
    <2>0. SaveFreq \in Nat \ {0}
      BY <1>1, OneStepOffAssumption
    <2>1. Init /\ TypeOK => LInv
      BY DEF Init, LInv
    <2>2. LInv /\ TypeOK' /\ [Next]_vars => LInv'
      BY <2>0, NextLInv
    <2>3. LInv => LittleWorkIsLost
      <3> SUFFICES ASSUME LInv
                   PROVE  /\ StepsAhead < SaveFreq
                          /\ pc = "done" => StepsAhead = 0
        BY DEF LittleWorkIsLost
      <3>1. global_steps \in Nat /\ disk.step \in Nat
        BY DEF LInv, TypeOK, Checkpoints
      <3>2. /\ global_steps % SaveFreq < SaveFreq
            /\ global_steps # 0 => (global_steps - 1) % SaveFreq < SaveFreq
        BY <2>0, <3>1, RemainderOfPrevious
      <3> QED BY <2>0, <3>1, <3>2 DEF LInv, NoneMissed, StepsAhead
    <2> QED BY <2>1, <2>2, <2>3, TypeCorrect, PTL DEF Spec
  <1>2. CASE ~(SaveFreq > 0)
    <2>1. LittleWorkIsLost
      BY <1>2 DEF LittleWorkIsLost
    <2> QED BY <2>1, PTL
  <1> QED BY <1>1, <1>2

=============================================================================
