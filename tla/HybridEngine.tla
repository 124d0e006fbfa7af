----------------------------- MODULE HybridEngine -----------------------------
(***************************************************************************)
(* verl/workers/fsdp_workers.py with verl/workers/sharding_manager/        *)
(* fsdp_vllm.py: one GPU holds the trained model (FSDP) and the inference  *)
(* engine (vLLM), in turns.  Before every generation the sharding manager  *)
(* loads the model's parameters, wakes the engine, sends it the parameters *)
(* and switches to generation's random numbers; after it, the engine       *)
(* sleeps and training's random numbers are put back.                      *)
(*                                                                         *)
(* The calls come from the trainer: in sync mode from the pilot-commit     *)
(* trainer (recipe/pc/pc_ray_trainer.py), which generates several times    *)
(* before it trains; in async mode from the base trainer, through the      *)
(* agent loop manager and vllm_async_server.py.  The job may crash at any  *)
(* point and is started again with the same configuration.  Weights are    *)
(* named by the number of updates they have seen; of the data only one     *)
(* batch per validation is kept.                                           *)
(***************************************************************************)
EXTENDS Integers

CONSTANTS
    Configs,             \* configurations a job may have
    TotalTrainingSteps,  \* total_training_steps
    CriticWarmup,        \* trainer.critic_warmup
    SaveFreq, TestFreq,  \* trainer.save_freq, trainer.test_freq
    MaxGenBatches,       \* algorithm.max_num_gen_batches, > 0
    MaxCrashes           \* bound of the crashes of the job

(* free: rollout.free_cache_engine.  dummy: rollout.load_format starts with *)
(* "dummy".  layered: rollout.layered_summon.  tags: this vLLM can wake up  *)
(* its weights and its cache apart.  The two offloads are the actor's.      *)
Configurations ==
    [async : BOOLEAN, free : BOOLEAN, lora : BOOLEAN, dummy : BOOLEAN,
     layered : BOOLEAN, tags : BOOLEAN, offload_param : BOOLEAN,
     offload_optimizer : BOOLEAN]

ASSUME HybridEngineAssumption ==
    /\ Configs \subseteq Configurations
    /\ \A c \in Configs : c.lora => ~c.async  \* adapters need the LLM class
    /\ TotalTrainingSteps \in Nat \ {0}
    /\ CriticWarmup \in Nat
    /\ SaveFreq \in Int
    /\ TestFreq \in Int
    /\ MaxGenBatches \in Nat \ {0}
    /\ MaxCrashes \in Nat

VARIABLES
    config,
    pc,                       \* what the worker is about to do
    purpose,                  \* of the generation in progress
    global_steps, gen_steps,  \* of the driver
    rounds,                   \* generations of this training step
    actor,                    \* updates the model has seen
    param, optimizer,         \* where they are
    engine,                   \* weights in the engine
    resident,                 \* memory the engine holds on the GPU
    base_sync_done, is_sleep,
    rng,                      \* the device's random state
    torch_random_states, gen_random_states,
    disk,                     \* the latest checkpoint
    crashes

driver == <<config, global_steps, gen_steps, rounds, disk, crashes>>
model == <<actor, param, optimizer>>
serving == <<engine, base_sync_done>>
random == <<rng, torch_random_states, gen_random_states>>
vars == <<pc, purpose, driver, model, serving, resident, is_sleep, random>>

Terminal == {"done", "failed"}
Places == {"first_sleep", "load", "initial", "enter", "wake", "send",
           "offload", "cache", "generate", "exit", "log_prob", "update",
           "step", "validate", "save", "finish"} \cup Terminal
Purposes == {"initial", "train", "validate"}

Dummy == -1
Engines == [base : Nat \cup {Dummy}, adapter : Nat]
Memory == {"weights", "kv_cache"}

(* A random state: the seed it comes from and how often it was drawn from.  *)
Streams == [seed : {"train", "gen"}, drawn : Nat]
Fresh(seed) == [seed |-> seed, drawn |-> 0]
Drawn(stream) == [stream EXCEPT !.drawn = @ + 1]

NoCheckpoint == [step |-> 0, actor |-> 0, rng |-> Fresh("train")]

(* Every variable has the values its declaration says.                      *)
TypeOK ==
    /\ config \in Configs
    /\ pc \in Places
    /\ purpose \in Purposes
    /\ global_steps \in Nat /\ gen_steps \in Nat
    /\ rounds \in 0 .. MaxGenBatches
    /\ actor \in Nat
    /\ param \in {"gpu", "cpu"}
    /\ optimizer \in {"empty", "gpu", "cpu"}
    /\ engine \in Engines
    /\ resident \subseteq Memory
    /\ base_sync_done \in BOOLEAN /\ is_sleep \in BOOLEAN
    /\ rng \in Streams
    /\ torch_random_states \in Streams /\ gen_random_states \in Streams
    /\ disk \in [step : Nat, actor : Nat, rng : Streams]
    /\ crashes \in 0 .. MaxCrashes

-----------------------------------------------------------------------------
(* init_model: the model is built from model.path and offloaded, the engine *)
(* is built and put to sleep, and the sharding manager takes its random     *)
(* states.  The async server always loads model.path itself and stays awake *)
(* until the manager's constructor calls sleep.                             *)
Asleep(c) == IF c.free THEN {} ELSE Memory

InitModel(c) ==
    [pc        |-> IF c.async THEN "first_sleep" ELSE "load",
     param     |-> IF c.offload_param THEN "cpu" ELSE "gpu",
     engine    |-> [base |-> IF c.dummy /\ ~c.async THEN Dummy ELSE 0,
                    adapter |-> 0],
     resident  |-> IF c.async THEN Memory ELSE Asleep(c),
     base_sync_done |-> ~c.dummy]

Init ==
    /\ config \in Configs
    /\ pc = InitModel(config).pc
    /\ param = InitModel(config).param
    /\ engine = InitModel(config).engine
    /\ resident = InitModel(config).resident
    /\ base_sync_done = InitModel(config).base_sync_done
    /\ purpose = "initial"
    /\ global_steps = 0 /\ gen_steps = 0 /\ rounds = 0
    /\ actor = 0
    /\ optimizer = "empty"
    /\ is_sleep = FALSE
    /\ rng = Fresh("train")
    /\ torch_random_states = Fresh("train")
    /\ gen_random_states = Fresh("gen")
    /\ disk = NoCheckpoint
    /\ crashes = 0

(* A crash loses everything but the checkpoint; init_model runs again.      *)
Restart ==
    /\ pc # "done"
    /\ crashes < MaxCrashes
    /\ crashes' = crashes + 1
    /\ pc' = InitModel(config).pc
    /\ param' = InitModel(config).param
    /\ engine' = InitModel(config).engine
    /\ resident' = InitModel(config).resident
    /\ base_sync_done' = InitModel(config).base_sync_done
    /\ purpose' = "initial"
    /\ global_steps' = 0 /\ gen_steps' = 0 /\ rounds' = 0
    /\ actor' = 0
    /\ optimizer' = "empty"
    /\ is_sleep' = FALSE
    /\ rng' = Fresh("train")
    /\ torch_random_states' = Fresh("train")
    /\ gen_random_states' = Fresh("gen")
    /\ UNCHANGED <<config, disk>>

-----------------------------------------------------------------------------
(* __exit__ of the sharding manager.                                        *)
KeepRandomStates ==
    /\ gen_random_states' = rng
    /\ UNCHANGED <<rng, torch_random_states>>
RestoreRandomStates ==
    /\ gen_random_states' = rng
    /\ rng' = torch_random_states
    /\ UNCHANGED torch_random_states

SleepEngine == resident' = Asleep(config)

ExitManager ==
    /\ SleepEngine
    /\ RestoreRandomStates

(* The manager and the servers of async mode forward wake_up and sleep only *)
(* with free_cache_engine, and the worker ignores one that repeats.         *)
Forwards(asleep) == config.async => config.free /\ is_sleep = asleep

(* AgentLoopManager.__init__: "Initially we're in sleep mode."              *)
FirstSleep ==
    /\ pc = "first_sleep"
    /\ IF Forwards(FALSE)
       THEN ExitManager /\ is_sleep' = TRUE
       ELSE UNCHANGED <<resident, random, is_sleep>>
    /\ pc' = "load"
    /\ UNCHANGED <<purpose, driver, model, serving>>

(* load_checkpoint: model, optimizer, random state; then offloaded again.   *)
LoadCheckpoint ==
    /\ pc = "load"
    /\ IF disk = NoCheckpoint
       THEN UNCHANGED <<model, rng, global_steps>>
       ELSE /\ actor' = disk.actor
            /\ global_steps' = disk.step
            /\ rng' = disk.rng
            /\ param' = IF config.offload_param THEN "cpu" ELSE param
            /\ optimizer' = IF disk.actor = 0 THEN "empty"
                            ELSE IF config.offload_optimizer THEN "cpu"
                            ELSE "gpu"
    /\ pc' = "initial"
    /\ UNCHANGED <<purpose, config, gen_steps, rounds, disk, crashes, serving,
                   resident, is_sleep, torch_random_states,
                   gen_random_states>>

-----------------------------------------------------------------------------
(* A generation.                                                            *)
BeginGeneration(why) ==
    /\ purpose' = why
    /\ pc' = IF Forwards(TRUE) THEN "enter" ELSE "generate"

(* Validation before training is optional; then step 1's first generation.  *)
ValidateBefore ==
    /\ pc = "initial"
    /\ BeginGeneration("initial")
    /\ UNCHANGED <<driver, model, serving, resident, is_sleep, random>>

StartTraining ==
    /\ BeginGeneration("train")
    /\ global_steps' = global_steps + 1
    /\ gen_steps' = gen_steps + 1
    /\ rounds' = 1
    /\ UNCHANGED <<config, disk, crashes>>

SkipValidation ==
    /\ pc = "initial"
    /\ StartTraining
    /\ UNCHANGED <<model, serving, resident, is_sleep, random>>

(* __enter__: the parameters are loaded and collected.  Adapters cannot be  *)
(* collected layer by layer before the engine has the base model.           *)
CollectParams ==
    /\ pc = "enter"
    /\ param' = IF config.offload_param THEN "gpu" ELSE param
    /\ pc' = IF config.lora /\ config.layered /\ ~base_sync_done
             THEN "failed" ELSE "wake"
    /\ UNCHANGED <<purpose, driver, actor, optimizer, serving, resident,
                   is_sleep, random>>

WakeWeights ==
    resident' = IF ~config.free THEN resident
                ELSE IF config.tags THEN {"weights"} ELSE Memory

WakeUp ==
    /\ pc = "wake"
    /\ WakeWeights
    /\ pc' = "send"
    /\ UNCHANGED <<purpose, driver, model, serving, is_sleep, random>>

(* With LoRA the base model and the adapter are versioned apart: only the   *)
(* adapter is trained.                                                      *)
ActorWeights == [base    |-> IF config.lora THEN 0 ELSE actor,
                 adapter |-> IF config.lora THEN actor ELSE 0]

SendOnlyOnce ==
    /\ engine' = IF base_sync_done /\ ~config.dummy THEN engine
                 ELSE ActorWeights
    /\ base_sync_done' = TRUE
SendParams ==
    IF config.lora /\ base_sync_done
    THEN /\ engine' = [engine EXCEPT !.adapter = ActorWeights.adapter]
         /\ UNCHANGED base_sync_done
    ELSE /\ engine' = [engine EXCEPT !.base = ActorWeights.base]
         /\ base_sync_done' = TRUE

UpdateParams ==
    /\ pc = "send"
    /\ SendParams
    /\ pc' = "offload"
    /\ UNCHANGED <<purpose, driver, model, resident, is_sleep, random>>

OffloadParams ==
    /\ pc = "offload"
    /\ param' = IF config.offload_param THEN "cpu" ELSE param
    /\ pc' = "cache"
    /\ UNCHANGED <<purpose, driver, actor, optimizer, serving, resident,
                   is_sleep, random>>

(* The end of __enter__: the cache, and generation's random numbers.        *)
WakeCache ==
    /\ pc = "cache"
    /\ resident' = IF config.free THEN resident \cup {"kv_cache"}
                   ELSE resident
    /\ torch_random_states' = rng
    /\ rng' = gen_random_states
    /\ is_sleep' = FALSE
    /\ pc' = "generate"
    /\ UNCHANGED <<purpose, driver, model, serving, gen_random_states>>

GenerateSequences ==
    /\ pc = "generate"
    /\ rng' = Drawn(rng)
    /\ pc' = "exit"
    /\ UNCHANGED <<purpose, driver, model, serving, resident, is_sleep,
                   torch_random_states, gen_random_states>>

(* __exit__, and what the driver does with what was generated.  A training  *)
(* step generates until its batch is full, max_num_gen_batches times.       *)
Exits ==
    /\ pc = "exit"
    /\ IF Forwards(FALSE)
       THEN ExitManager /\ is_sleep' = config.async
       ELSE UNCHANGED <<resident, random, is_sleep>>
    /\ UNCHANGED <<model, serving>>

AfterInitial ==
    /\ purpose = "initial"
    /\ Exits
    /\ purpose' = "train"
    /\ pc' = IF config.async => config.free THEN "enter" ELSE "generate"
    /\ global_steps' = global_steps + 1
    /\ gen_steps' = gen_steps + 1
    /\ rounds' = 1
    /\ UNCHANGED <<config, disk, crashes>>

AfterFullBatch ==
    /\ purpose = "train"
    /\ Exits
    /\ pc' = "log_prob"
    /\ UNCHANGED <<purpose, driver>>

AfterPartialBatch ==
    /\ purpose = "train"
    /\ ~config.async
    /\ Exits
    /\ \/ /\ rounds < MaxGenBatches
          /\ rounds' = rounds + 1
          /\ pc' = "enter"
       \/ /\ rounds = MaxGenBatches
          /\ pc' = "failed"
          /\ UNCHANGED rounds
    /\ UNCHANGED <<purpose, config, global_steps, gen_steps, disk, crashes>>

AfterValidation ==
    /\ purpose = "validate"
    /\ Exits
    /\ pc' = "save"
    /\ UNCHANGED <<purpose, driver>>

-----------------------------------------------------------------------------
(* Training.  compute_log_prob gives no "entropys" any more; the pilot-     *)
(* commit trainer does not ask for them, the base trainer fails.            *)
ComputeLogProb ==
    /\ pc = "log_prob"
    /\ pc' = IF config.async THEN "failed"
             ELSE IF CriticWarmup <= global_steps THEN "update"
             ELSE "validate"
    /\ UNCHANGED <<purpose, driver, model, serving, resident, is_sleep, random>>

(* update_actor: parameters and optimizer, once it has a state, are loaded, *)
(* used and offloaded.                                                      *)
LoadForUpdate ==
    /\ pc = "update"
    /\ param' = IF config.offload_param THEN "gpu" ELSE param
    /\ optimizer' = IF config.offload_optimizer /\ optimizer # "empty"
                    THEN "gpu" ELSE optimizer
    /\ pc' = "step"
    /\ UNCHANGED <<purpose, driver, actor, serving, resident, is_sleep, random>>

OffloadLoadedOptimizer ==
    optimizer' = IF config.offload_optimizer /\ optimizer # "empty"
                 THEN "cpu" ELSE "gpu"
OffloadOptimizer ==
    optimizer' = IF config.offload_optimizer THEN "cpu" ELSE "gpu"

UpdateActor ==
    /\ pc = "step"
    /\ actor' = actor + 1
    /\ rng' = Drawn(rng)
    /\ param' = IF config.offload_param THEN "cpu" ELSE param
    /\ OffloadOptimizer
    /\ pc' = "validate"
    /\ UNCHANGED <<purpose, driver, serving, resident, is_sleep,
                   torch_random_states, gen_random_states>>

IsLastStep == gen_steps >= TotalTrainingSteps
IsDue(freq) == freq > 0 /\ (IsLastStep \/ global_steps % freq = 0)

Validate ==
    /\ pc = "validate"
    /\ IF IsDue(TestFreq)
       THEN BeginGeneration("validate")
       ELSE pc' = "save" /\ UNCHANGED purpose
    /\ UNCHANGED <<driver, model, serving, resident, is_sleep, random>>

(* save_checkpoint: the parameters are loaded, written and offloaded again. *)
SaveCheckpoint ==
    /\ pc = "save"
    /\ disk' = IF IsDue(SaveFreq)
               THEN [step |-> global_steps, actor |-> actor, rng |-> rng]
               ELSE disk
    /\ pc' = "finish"
    /\ UNCHANGED <<purpose, config, global_steps, gen_steps, rounds, crashes,
                   model, serving, resident, is_sleep, random>>

FinishTraining ==
    /\ pc = "finish"
    /\ IsLastStep
    /\ pc' = "done"
    /\ UNCHANGED <<purpose, driver, model, serving, resident, is_sleep, random>>

NextStep ==
    /\ pc = "finish"
    /\ ~IsLastStep
    /\ StartTraining
    /\ UNCHANGED <<model, serving, resident, is_sleep, random>>

Next ==
    \/ FirstSleep \/ LoadCheckpoint \/ ValidateBefore \/ SkipValidation
    \/ CollectParams \/ WakeUp \/ UpdateParams \/ OffloadParams \/ WakeCache
    \/ GenerateSequences
    \/ AfterInitial \/ AfterFullBatch \/ AfterPartialBatch \/ AfterValidation
    \/ ComputeLogProb \/ LoadForUpdate \/ UpdateActor
    \/ Validate \/ SaveCheckpoint \/ FinishTraining \/ NextStep
    \/ Restart

Spec == Init /\ [][Next]_vars

-----------------------------------------------------------------------------
(* Every generation, of training or of validation, is done by the weights   *)
(* the actor has at that moment, base model and adapter, also after a       *)
(* resume: fsdp_vllm.py's update_params on every way a job can reach it.    *)
GenerationIsOnPolicy == pc = "generate" => engine = ActorWeights

(* The GPU holds the engine or the training, as configured: outside a       *)
(* generation a freed engine has no memory; the engine's cache, when it is  *)
(* woken apart, never comes with offloaded parameters still on the GPU; and *)
(* no generation runs next to an offloaded optimizer.                       *)
IsGenerating == pc \in {"send", "offload", "cache", "generate", "exit"}
MemoryIsShared ==
    /\ config.free /\ pc \notin {"first_sleep"} /\ ~IsGenerating =>
           resident = {}
    /\ config.free /\ config.tags /\ config.offload_param
           /\ "kv_cache" \in resident /\ pc # "first_sleep" => param = "cpu"
    /\ config.offload_optimizer /\ IsGenerating => optimizer # "gpu"

(* Training's random numbers go on where its last update left them, however *)
(* many generations, validations and restarts come between two updates:     *)
(* every update the actor has seen drew from the stream once.               *)
TrainingStreamIsKept ==
    pc \in {"initial", "log_prob", "update", "step", "validate", "save",
            "finish", "done"} =>
        rng = [seed |-> "train", drawn |-> actor]
===============================================================================
