-------------------------- MODULE HybridEngine_proofs --------------------------
(***************************************************************************)
(* Proofs about HybridEngine: its type, that every generation is done by   *)
(* the actor's weights, that GPU memory is shared as configured and that   *)
(* training's random numbers go on, for every set of configurations,       *)
(* number of steps, rounds and crashes.                                    *)
(***************************************************************************)
EXTENDS HybridEngine, TLAPS

(* What init_model builds has its type.                                     *)
LEMMA ModelIsTyped ==
  ASSUME NEW c \in Configs
  PROVE  /\ InitModel(c).pc \in {"first_sleep", "load"}
         /\ InitModel(c).param \in {"gpu", "cpu"}
         /\ InitModel(c).engine \in Engines
         /\ InitModel(c).resident \subseteq Memory
         /\ InitModel(c).base_sync_done \in BOOLEAN
  BY DEF InitModel, Asleep, Engines

(* The streams of a process that starts.                                    *)
LEMMA FreshIsStream ==
  Fresh("train") \in Streams /\ Fresh("gen") \in Streams
  BY DEF Fresh, Streams

(* Drawing from a stream leaves a stream.                                   *)
LEMMA DrawnIsStream ==
  ASSUME NEW s \in Streams
  PROVE  Drawn(s) \in Streams
  BY DEF Drawn, Streams

(* TypeOK holds of the first state ...                                      *)
LEMMA TypeInitial == Init => TypeOK
PROOF
  <1> SUFFICES ASSUME Init PROVE TypeOK
    OBVIOUS
  <1>1. config \in Configs
    BY DEF Init
  <1>2. /\ pc \in Places
        /\ engine \in Engines
        /\ param \in {"gpu", "cpu"}
        /\ resident \subseteq Memory
    BY <1>1, ModelIsTyped DEF Init, Places
  <1>3. base_sync_done \in BOOLEAN
    BY <1>1, ModelIsTyped, Zenon DEF Init
  <1>4. /\ global_steps \in Nat /\ gen_steps \in Nat /\ actor \in Nat
        /\ rounds \in 0 .. MaxGenBatches
        /\ crashes \in 0 .. MaxCrashes
        /\ purpose \in Purposes
        /\ optimizer \in {"empty", "gpu", "cpu"}
    BY HybridEngineAssumption DEF Init, Purposes
  <1>7. is_sleep \in BOOLEAN
    BY DEF Init
  <1>5. disk \in [step : Nat, actor : Nat, rng : Streams]
    BY FreshIsStream DEF Init, NoCheckpoint
  <1>6. /\ rng \in Streams /\ torch_random_states \in Streams
        /\ gen_random_states \in Streams
    BY FreshIsStream DEF Init
  <1> QED BY <1>1, <1>2, <1>3, <1>4, <1>5, <1>6, <1>7 DEF TypeOK

(* ... and every step keeps it.                                             *)
LEMMA TypeNext ==
  ASSUME TypeOK, [Next]_vars
  PROVE  TypeOK'
PROOF
  <1>1. CASE FirstSleep
    BY <1>1
       DEF FirstSleep, ExitManager, SleepEngine, RestoreRandomStates, Asleep,
           Forwards, TypeOK, Places, driver, model, serving, random
  <1>2. CASE LoadCheckpoint
    BY <1>2
       DEF LoadCheckpoint, NoCheckpoint, Fresh, TypeOK, Places, model, serving
  <1>3. CASE ValidateBefore
    BY <1>3
       DEF ValidateBefore, BeginGeneration, Forwards, TypeOK, Places,
           Purposes, driver, model, serving, random
  <1>4. CASE SkipValidation
    BY HybridEngineAssumption, <1>4
       DEF SkipValidation, StartTraining, BeginGeneration, Forwards, TypeOK,
           Places, Purposes, model, serving, random
  <1>5. CASE CollectParams
    BY <1>5
       DEF CollectParams, TypeOK, Places, Terminal, driver, serving, random
  <1>6. CASE WakeUp
    BY <1>6
       DEF WakeUp, WakeWeights, TypeOK, Places, Memory, driver, model,
           serving, random
  <1>7. CASE UpdateParams
    <2>1. ActorWeights.base \in Nat /\ ActorWeights.adapter \in Nat
      BY DEF ActorWeights, TypeOK
    <2>2. engine' \in Engines /\ base_sync_done' \in BOOLEAN
      <3>1. CASE config.lora /\ base_sync_done
        BY <1>7, <2>1, <3>1 DEF UpdateParams, SendParams, Engines, TypeOK
      <3>2. CASE ~(config.lora /\ base_sync_done)
        BY <1>7, <2>1, <3>2 DEF UpdateParams, SendParams, Engines, TypeOK
      <3> QED BY <3>1, <3>2
    <2> QED
      BY <1>7, <2>2
         DEF UpdateParams, TypeOK, Places, driver, model, random
  <1>8. CASE OffloadParams
    BY <1>8 DEF OffloadParams, TypeOK, Places, driver, serving, random
  <1>9. CASE WakeCache
    BY <1>9 DEF WakeCache, TypeOK, Places, Memory, driver, model, serving
  <1>10. CASE GenerateSequences
    BY DrawnIsStream, <1>10
       DEF GenerateSequences, TypeOK, Places, driver, model, serving
  <1>11. CASE AfterInitial
    <2>1. /\ pc' \in Places /\ purpose' \in Purposes
          /\ global_steps' \in Nat /\ gen_steps' \in Nat
          /\ rounds' \in 0 .. MaxGenBatches
      BY <1>11, HybridEngineAssumption
         DEF AfterInitial, TypeOK, Places, Purposes
    <2>2. /\ resident' \subseteq Memory /\ is_sleep' \in BOOLEAN
          /\ rng' \in Streams /\ torch_random_states' \in Streams
          /\ gen_random_states' \in Streams
      BY <1>11, HybridEngineAssumption
         DEF AfterInitial, Exits, ExitManager, SleepEngine,
             RestoreRandomStates, Asleep, Forwards, TypeOK, Configurations,
             random
    <2> QED
      BY <1>11, <2>1, <2>2 DEF AfterInitial, Exits, TypeOK, model, serving
  <1>12. CASE AfterFullBatch
    BY HybridEngineAssumption, <1>12
       DEF AfterFullBatch, Exits, ExitManager, SleepEngine,
           RestoreRandomStates, Asleep, Forwards, TypeOK, Places,
           Configurations, driver, model, serving, random
  <1>13. CASE AfterPartialBatch
    BY HybridEngineAssumption, <1>13
       DEF AfterPartialBatch, Exits, ExitManager, SleepEngine,
           RestoreRandomStates, Asleep, Forwards, TypeOK, Places, Terminal,
           Configurations, model, serving, random
  <1>14. CASE AfterValidation
    BY HybridEngineAssumption, <1>14
       DEF AfterValidation, Exits, ExitManager, SleepEngine,
           RestoreRandomStates, Asleep, Forwards, TypeOK, Places,
           Configurations, driver, model, serving, random
  <1>15. CASE ComputeLogProb
    BY <1>15
       DEF ComputeLogProb, TypeOK, Places, Terminal, driver, model, serving,
           random
  <1>16. CASE LoadForUpdate
    BY <1>16 DEF LoadForUpdate, TypeOK, Places, driver, serving, random
  <1>17. CASE UpdateActor
    BY DrawnIsStream, <1>17
       DEF UpdateActor, OffloadOptimizer, TypeOK, Places, driver, serving
  <1>18. CASE Validate
    BY <1>18
       DEF Validate, BeginGeneration, Forwards, IsDue, IsLastStep, TypeOK,
           Places, Purposes, driver, model, serving, random
  <1>19. CASE SaveCheckpoint
    BY <1>19
       DEF SaveCheckpoint, IsDue, IsLastStep, TypeOK, Places, model, serving,
           random
  <1>20. CASE FinishTraining
    BY <1>20
       DEF FinishTraining, TypeOK, Places, Terminal, driver, model, serving,
           random
  <1>21. CASE NextStep
    BY HybridEngineAssumption, <1>21
       DEF NextStep, StartTraining, BeginGeneration, Forwards, TypeOK, Places,
           Purposes, model, serving, random
  <1>22. CASE Restart
    <2>1. config \in Configs
      BY DEF TypeOK
    <2>2. /\ pc' \in Places
          /\ engine' \in Engines
          /\ param' \in {"gpu", "cpu"}
          /\ resident' \subseteq Memory
      BY <1>22, <2>1, ModelIsTyped DEF Restart, Places
    <2>3. base_sync_done' \in BOOLEAN
      BY <1>22, <2>1, ModelIsTyped, Zenon DEF Restart
    <2>4. /\ global_steps' \in Nat /\ gen_steps' \in Nat /\ actor' \in Nat
          /\ rounds' \in 0 .. MaxGenBatches
          /\ crashes' \in 0 .. MaxCrashes
          /\ purpose' \in Purposes
          /\ optimizer' \in {"empty", "gpu", "cpu"}
      BY <1>22, HybridEngineAssumption DEF Restart, TypeOK, Purposes
    <2>6. is_sleep' \in BOOLEAN
      BY <1>22 DEF Restart
    <2>5. /\ rng' \in Streams /\ torch_random_states' \in Streams
          /\ gen_random_states' \in Streams
      BY <1>22, FreshIsStream DEF Restart
    <2> QED BY <1>22, <2>1, <2>2, <2>3, <2>4, <2>5, <2>6 DEF Restart, TypeOK
  <1>23. CASE UNCHANGED vars
    BY <1>23 DEF vars, TypeOK, driver, model, serving, random
  <1> QED
    BY <1>1, <1>2, <1>3, <1>4, <1>5, <1>6, <1>7, <1>8, <1>9, <1>10, <1>11,
            <1>12, <1>13, <1>14, <1>15, <1>16, <1>17, <1>18, <1>19, <1>20,
            <1>21, <1>22, <1>23 DEF Next

(* TypeOK is an invariant.                                                  *)
THEOREM TypeCorrect == Spec => []TypeOK
PROOF
  <1>1. Init => TypeOK
    BY TypeInitial
  <1>2. TypeOK /\ [Next]_vars => TypeOK'
    BY TypeNext
  <1> QED BY <1>1, <1>2, PTL DEF Spec

-----------------------------------------------------------------------------
(* The configurations the theorem is about: async mode with a freed engine, *)
(* and no adapter over a base model that the first generation sends.        *)
Supported(c) ==
    /\ c.async => c.free
    /\ c.lora /\ c.dummy => c.layered

AllSupported == \A c \in Configs : Supported(c)

(* Sending is what puts the actor's weights in the engine, so: every way to *)
(* a generation leads through it, the async worker being asleep whenever    *)
(* the driver begins one; the adapter alone is sent only over the base      *)
(* model that was trained; and a base model is never sent alone.            *)
Outside == {"load", "initial", "log_prob", "update", "step", "validate",
            "save", "finish"}
PolicyInv ==
    /\ config.async /\ pc \in Outside => is_sleep
    /\ config.lora => (base_sync_done <=> ~config.dummy)
    /\ config.lora /\ base_sync_done => engine.base = 0
    /\ config.lora /\ pc \in {"wake", "send"} => base_sync_done
    /\ ~config.lora => engine.adapter = 0
    /\ pc \in {"offload", "cache", "generate"} => engine = ActorWeights

(* At first no generation is under way.                                     *)
LEMMA PolicyInitial ==
  ASSUME AllSupported, Init
  PROVE  PolicyInv
PROOF
  BY DEF Init, InitModel, Fresh, Asleep, PolicyInv, Outside

(* Every step keeps it.                                                     *)
LEMMA PolicyNext ==
  ASSUME AllSupported, TypeOK, PolicyInv, [Next]_vars
  PROVE  PolicyInv'
PROOF
  <1>1. CASE FirstSleep
    BY <1>1
       DEF FirstSleep, ExitManager, SleepEngine, RestoreRandomStates, Asleep,
           Forwards, PolicyInv, TypeOK, AllSupported, Supported, driver,
           model, serving, random
  <1>2. CASE LoadCheckpoint
    BY <1>2
       DEF LoadCheckpoint, NoCheckpoint, Fresh, PolicyInv, Outside, TypeOK,
           model, serving
  <1>3. CASE ValidateBefore
    BY <1>3
       DEF ValidateBefore, BeginGeneration, Forwards, PolicyInv, Outside,
           TypeOK, AllSupported, Supported, driver, model, serving, random
  <1>4. CASE SkipValidation
    BY <1>4
       DEF SkipValidation, StartTraining, BeginGeneration, Forwards,
           PolicyInv, Outside, TypeOK, AllSupported, Supported, model,
           serving, random
  <1>5. CASE CollectParams
    BY <1>5
       DEF CollectParams, PolicyInv, Outside, TypeOK, AllSupported, Supported,
           driver, serving, random
  <1>6. CASE WakeUp
    BY <1>6
       DEF WakeUp, WakeWeights, PolicyInv, Outside, TypeOK, driver, model,
           serving, random
  <1>7. CASE UpdateParams
    BY <1>7
       DEF UpdateParams, SendParams, ActorWeights, PolicyInv, Outside,
           ActorWeights, TypeOK, Engines, driver, model, random
  <1>8. CASE OffloadParams
    BY <1>8
       DEF OffloadParams, PolicyInv, Outside, ActorWeights, TypeOK, driver,
           serving, random
  <1>9. CASE WakeCache
    BY <1>9
       DEF WakeCache, PolicyInv, Outside, ActorWeights, TypeOK, driver, model,
           serving
  <1>10. CASE GenerateSequences
    BY <1>10
       DEF GenerateSequences, Drawn, PolicyInv, Outside, TypeOK, driver,
           model, serving
  <1>11. CASE AfterInitial
    BY <1>11
       DEF AfterInitial, Exits, ExitManager, SleepEngine, RestoreRandomStates,
           Asleep, Forwards, PolicyInv, TypeOK, AllSupported, Supported,
           model, serving, random
  <1>12. CASE AfterFullBatch
    BY <1>12
       DEF AfterFullBatch, Exits, ExitManager, SleepEngine,
           RestoreRandomStates, Asleep, Forwards, PolicyInv, TypeOK,
           AllSupported, Supported, driver, model, serving, random
  <1>13. CASE AfterPartialBatch
    BY <1>13
       DEF AfterPartialBatch, Exits, ExitManager, SleepEngine,
           RestoreRandomStates, Asleep, Forwards, PolicyInv, TypeOK, model,
           serving, random
  <1>14. CASE AfterValidation
    BY <1>14
       DEF AfterValidation, Exits, ExitManager, SleepEngine,
           RestoreRandomStates, Asleep, Forwards, PolicyInv, TypeOK,
           AllSupported, Supported, driver, model, serving, random
  <1>15. CASE ComputeLogProb
    BY <1>15
       DEF ComputeLogProb, PolicyInv, Outside, TypeOK, driver, model, serving,
           random
  <1>16. CASE LoadForUpdate
    BY <1>16
       DEF LoadForUpdate, PolicyInv, Outside, TypeOK, driver, serving, random
  <1>17. CASE UpdateActor
    BY <1>17
       DEF UpdateActor, OffloadOptimizer, Drawn, PolicyInv, Outside, TypeOK,
           driver, serving
  <1>18. CASE Validate
    BY <1>18
       DEF Validate, BeginGeneration, Forwards, IsDue, IsLastStep, PolicyInv,
           Outside, TypeOK, AllSupported, Supported, driver, model, serving,
           random
  <1>19. CASE SaveCheckpoint
    BY <1>19
       DEF SaveCheckpoint, IsDue, IsLastStep, PolicyInv, Outside, TypeOK,
           model, serving, random
  <1>20. CASE FinishTraining
    BY <1>20
       DEF FinishTraining, PolicyInv, Outside, TypeOK, driver, model, serving,
           random
  <1>21. CASE NextStep
    BY <1>21
       DEF NextStep, StartTraining, BeginGeneration, Forwards, PolicyInv,
           Outside, TypeOK, AllSupported, Supported, model, serving, random
  <1>22. CASE Restart
    BY <1>22 DEF Restart, InitModel, Fresh, Asleep, PolicyInv, Outside, TypeOK
  <1>23. CASE UNCHANGED vars
    BY <1>23
       DEF vars, PolicyInv, ActorWeights, TypeOK, driver, model, serving,
           random
  <1> QED
    BY <1>1, <1>2, <1>3, <1>4, <1>5, <1>6, <1>7, <1>8, <1>9, <1>10, <1>11,
            <1>12, <1>13, <1>14, <1>15, <1>16, <1>17, <1>18, <1>19, <1>20,
            <1>21, <1>22, <1>23 DEF Next

(* Every generation is done by the actor's weights.                         *)
THEOREM OnPolicy ==
  ASSUME AllSupported
  PROVE  Spec => []GenerationIsOnPolicy
PROOF
  <1>1. Init => PolicyInv
    BY PolicyInitial
  <1>2. TypeOK /\ PolicyInv /\ [Next]_vars => PolicyInv'
    BY PolicyNext
  <1>3. PolicyInv => GenerationIsOnPolicy
    BY DEF PolicyInv, GenerationIsOnPolicy
  <1> QED BY <1>1, <1>2, <1>3, TypeCorrect, PTL DEF Spec

-----------------------------------------------------------------------------
(* Where the parameters, the optimizer and the engine are between any two   *)
(* steps.  In async mode the worker is awake while it generates, or the     *)
(* sleep after it would be ignored.                                         *)
MemoryInv ==
    /\ config.async /\ config.free /\ pc \in Outside => is_sleep
    /\ config.async /\ config.free
           /\ pc \in {"first_sleep", "generate", "exit"} => ~is_sleep
    /\ config.free /\ pc # "first_sleep" /\ ~IsGenerating => resident = {}
    /\ config.free /\ config.tags /\ pc \in {"send", "offload"} =>
           resident = {"weights"}
    /\ config.offload_param
           /\ pc \notin {"wake", "send", "offload", "step", "failed"} =>
           param = "cpu"
    /\ config.offload_optimizer /\ pc # "step" => optimizer # "gpu"

(* At first everything is where the configuration puts it.                  *)
LEMMA MemoryInitial == Init => MemoryInv
  BY DEF Init, InitModel, Asleep, MemoryInv, Outside

(* Every step keeps it.                                                     *)
LEMMA MemoryNext ==
  ASSUME TypeOK, MemoryInv, [Next]_vars
  PROVE  MemoryInv'
PROOF
  <1>1. CASE FirstSleep
    BY <1>1
       DEF FirstSleep, ExitManager, SleepEngine, Asleep, Forwards, MemoryInv,
           TypeOK, driver, model, serving, random
  <1>2. CASE LoadCheckpoint
    BY <1>2
       DEF LoadCheckpoint, MemoryInv, Outside, IsGenerating, TypeOK, model,
           serving
  <1>3. CASE ValidateBefore
    BY <1>3
       DEF ValidateBefore, BeginGeneration, Forwards, MemoryInv, Outside,
           IsGenerating, TypeOK, driver, model, serving, random
  <1>4. CASE SkipValidation
    BY <1>4
       DEF SkipValidation, StartTraining, BeginGeneration, Forwards,
           MemoryInv, Outside, IsGenerating, TypeOK, model, serving, random
  <1>5. CASE CollectParams
    BY <1>5
       DEF CollectParams, MemoryInv, Outside, IsGenerating, TypeOK, driver,
           serving, random
  <1>6. CASE WakeUp
    BY <1>6
       DEF WakeUp, WakeWeights, MemoryInv, Outside, IsGenerating, TypeOK,
           driver, model, serving, random
  <1>7. CASE UpdateParams
    BY <1>7
       DEF UpdateParams, MemoryInv, Outside, IsGenerating, TypeOK, driver,
           model, random
  <1>8. CASE OffloadParams
    BY <1>8
       DEF OffloadParams, MemoryInv, Outside, IsGenerating, TypeOK, driver,
           serving, random
  <1>9. CASE WakeCache
    BY <1>9
       DEF WakeCache, MemoryInv, Outside, IsGenerating, TypeOK, driver, model,
           serving
  <1>10. CASE GenerateSequences
    BY <1>10
       DEF GenerateSequences, MemoryInv, Outside, IsGenerating, TypeOK,
           driver, model, serving
  <1>11. CASE AfterInitial
    BY <1>11
       DEF AfterInitial, Exits, ExitManager, SleepEngine, Asleep, Forwards,
           MemoryInv, TypeOK, model, serving, random
  <1>12. CASE AfterFullBatch
    BY <1>12
       DEF AfterFullBatch, Exits, ExitManager, SleepEngine, Asleep, Forwards,
           MemoryInv, TypeOK, driver, model, serving, random
  <1>13. CASE AfterPartialBatch
    BY <1>13
       DEF AfterPartialBatch, Exits, ExitManager, SleepEngine, Asleep,
           Forwards, MemoryInv, TypeOK, model, serving, random
  <1>14. CASE AfterValidation
    BY <1>14
       DEF AfterValidation, Exits, ExitManager, SleepEngine, Asleep, Forwards,
           MemoryInv, TypeOK, driver, model, serving, random
  <1>15. CASE ComputeLogProb
    BY <1>15
       DEF ComputeLogProb, MemoryInv, Outside, IsGenerating, TypeOK, driver,
           model, serving, random
  <1>16. CASE LoadForUpdate
    BY <1>16
       DEF LoadForUpdate, MemoryInv, Outside, IsGenerating, TypeOK, driver,
           serving, random
  <1>17. CASE UpdateActor
    BY <1>17
       DEF UpdateActor, OffloadOptimizer, MemoryInv, Outside, IsGenerating,
           TypeOK, driver, serving
  <1>18. CASE Validate
    BY <1>18
       DEF Validate, BeginGeneration, Forwards, MemoryInv, Outside,
           IsGenerating, TypeOK, driver, model, serving, random
  <1>19. CASE SaveCheckpoint
    BY <1>19
       DEF SaveCheckpoint, MemoryInv, Outside, IsGenerating, TypeOK, model,
           serving, random
  <1>20. CASE FinishTraining
    BY <1>20
       DEF FinishTraining, MemoryInv, Outside, IsGenerating, TypeOK, driver,
           model, serving, random
  <1>21. CASE NextStep
    BY <1>21
       DEF NextStep, StartTraining, BeginGeneration, Forwards, MemoryInv,
           Outside, IsGenerating, TypeOK, model, serving, random
  <1>22. CASE Restart
    BY <1>22 DEF Restart, InitModel, Asleep, MemoryInv, Outside, TypeOK
  <1>23. CASE UNCHANGED vars
    BY <1>23
       DEF vars, MemoryInv, IsGenerating, TypeOK, driver, model, serving,
           random
  <1> QED
    BY <1>1, <1>2, <1>3, <1>4, <1>5, <1>6, <1>7, <1>8, <1>9, <1>10, <1>11,
            <1>12, <1>13, <1>14, <1>15, <1>16, <1>17, <1>18, <1>19, <1>20,
            <1>21, <1>22, <1>23 DEF Next

(* The memory of the GPU is shared as configured.                           *)
THEOREM Shared == Spec => []MemoryIsShared
PROOF
  <1>1. TypeOK /\ MemoryInv /\ [Next]_vars => MemoryInv'
    BY MemoryNext
  <1>2. MemoryInv => MemoryIsShared
    BY DEF MemoryInv, MemoryIsShared, IsGenerating
  <1> QED BY <1>1, <1>2, MemoryInitial, TypeCorrect, PTL DEF Spec

-----------------------------------------------------------------------------
(* Training's stream is the device's, or is put aside while generation's is *)
(* there; it has been drawn from once for each update of the actor, and of  *)
(* the actor in the checkpoint.                                             *)
TrainingStream == [seed |-> "train", drawn |-> actor]
StreamInv ==
    /\ config.async /\ pc \in Outside => is_sleep
    /\ config.async /\ pc \in {"generate", "exit"} => ~is_sleep
    /\ pc = "first_sleep" => torch_random_states = TrainingStream
    /\ pc \in {"generate", "exit"} => torch_random_states = TrainingStream
    /\ pc \notin {"generate", "exit", "failed"} => rng = TrainingStream
    /\ pc \in {"first_sleep", "load"} => actor = 0
    /\ disk.rng = [seed |-> "train", drawn |-> disk.actor]

(* Two fresh streams, the device on training's.                             *)
LEMMA StreamInitial ==
  ASSUME AllSupported, Init
  PROVE  StreamInv
PROOF
  BY DEF Init, InitModel, Fresh, NoCheckpoint, StreamInv, TrainingStream,
         Outside

(* Every step keeps it.                                                     *)
LEMMA StreamNext ==
  ASSUME AllSupported, TypeOK, StreamInv, [Next]_vars
  PROVE  StreamInv'
PROOF
  <1>1. CASE FirstSleep
    BY <1>1
       DEF FirstSleep, ExitManager, RestoreRandomStates, Forwards, StreamInv,
           TrainingStream, TypeOK, AllSupported, Supported, driver, model,
           serving, random
  <1>2. CASE LoadCheckpoint
    BY <1>2
       DEF LoadCheckpoint, NoCheckpoint, Fresh, StreamInv, TrainingStream,
           Outside, TypeOK, model, serving
  <1>3. CASE ValidateBefore
    BY <1>3
       DEF ValidateBefore, BeginGeneration, Forwards, StreamInv,
           TrainingStream, Outside, TypeOK, AllSupported, Supported, driver,
           model, serving, random
  <1>4. CASE SkipValidation
    BY <1>4
       DEF SkipValidation, StartTraining, BeginGeneration, Forwards,
           StreamInv, TrainingStream, Outside, TypeOK, AllSupported,
           Supported, model, serving, random
  <1>5. CASE CollectParams
    BY <1>5
       DEF CollectParams, StreamInv, TrainingStream, Outside, TypeOK, driver,
           serving, random
  <1>6. CASE WakeUp
    BY <1>6
       DEF WakeUp, StreamInv, TrainingStream, Outside, TypeOK, driver, model,
           serving, random
  <1>7. CASE UpdateParams
    BY <1>7
       DEF UpdateParams, StreamInv, TrainingStream, Outside, TypeOK, driver,
           model, random
  <1>8. CASE OffloadParams
    BY <1>8
       DEF OffloadParams, StreamInv, TrainingStream, Outside, TypeOK, driver,
           serving, random
  <1>9. CASE WakeCache
    BY <1>9
       DEF WakeCache, StreamInv, TrainingStream, Outside, TypeOK, driver,
           model, serving
  <1>10. CASE GenerateSequences
    BY <1>10
       DEF GenerateSequences, Drawn, StreamInv, TrainingStream, Outside,
           TypeOK, driver, model, serving
  <1>11. CASE AfterInitial
    BY <1>11
       DEF AfterInitial, Exits, ExitManager, RestoreRandomStates, Forwards,
           StreamInv, TrainingStream, Outside, TypeOK, model, serving, random
  <1>12. CASE AfterFullBatch
    BY <1>12
       DEF AfterFullBatch, Exits, ExitManager, RestoreRandomStates, Forwards,
           StreamInv, TrainingStream, TypeOK, AllSupported, Supported, driver,
           model, serving, random
  <1>13. CASE AfterPartialBatch
    BY <1>13
       DEF AfterPartialBatch, Exits, ExitManager, RestoreRandomStates,
           Forwards, StreamInv, TrainingStream, TypeOK, model, serving, random
  <1>14. CASE AfterValidation
    BY <1>14
       DEF AfterValidation, Exits, ExitManager, RestoreRandomStates, Forwards,
           StreamInv, TrainingStream, TypeOK, AllSupported, Supported, driver,
           model, serving, random
  <1>15. CASE ComputeLogProb
    BY <1>15
       DEF ComputeLogProb, StreamInv, TrainingStream, Outside, TypeOK, driver,
           model, serving, random
  <1>16. CASE LoadForUpdate
    BY <1>16
       DEF LoadForUpdate, StreamInv, TrainingStream, Outside, TypeOK, driver,
           serving, random
  <1>17. CASE UpdateActor
    BY <1>17
       DEF UpdateActor, Drawn, StreamInv, TrainingStream, Outside, TypeOK,
           driver, serving
  <1>18. CASE Validate
    BY <1>18
       DEF Validate, BeginGeneration, Forwards, StreamInv, TrainingStream,
           Outside, TypeOK, AllSupported, Supported, driver, model, serving,
           random
  <1>19. CASE SaveCheckpoint
    BY <1>19
       DEF SaveCheckpoint, StreamInv, TrainingStream, Outside, TypeOK, model,
           serving, random
  <1>20. CASE FinishTraining
    BY <1>20
       DEF FinishTraining, StreamInv, TrainingStream, Outside, TypeOK, driver,
           model, serving, random
  <1>21. CASE NextStep
    BY <1>21
       DEF NextStep, StartTraining, BeginGeneration, Forwards, StreamInv,
           TrainingStream, Outside, TypeOK, AllSupported, Supported, model,
           serving, random
  <1>22. CASE Restart
    BY <1>22
       DEF Restart, InitModel, Fresh, StreamInv, TrainingStream, Outside,
           TypeOK
  <1>23. CASE UNCHANGED vars
    BY <1>23
       DEF vars, StreamInv, TrainingStream, TypeOK, driver, model, serving,
           random
  <1> QED
    BY <1>1, <1>2, <1>3, <1>4, <1>5, <1>6, <1>7, <1>8, <1>9, <1>10, <1>11,
            <1>12, <1>13, <1>14, <1>15, <1>16, <1>17, <1>18, <1>19, <1>20,
            <1>21, <1>22, <1>23 DEF Next

(* Training's random numbers go on where its last update left them.         *)
THEOREM StreamKept ==
  ASSUME AllSupported
  PROVE  Spec => []TrainingStreamIsKept
PROOF
  <1>1. Init => StreamInv
    BY StreamInitial
  <1>2. TypeOK /\ StreamInv /\ [Next]_vars => StreamInv'
    BY StreamNext
  <1>3. StreamInv => TrainingStreamIsKept
    BY DEF StreamInv, TrainingStream, TrainingStreamIsKept
  <1> QED BY <1>1, <1>2, <1>3, TypeCorrect, PTL DEF Spec

===============================================================================
