# Verification of pilot-commit

TLA+ models of the training system in this repository: `recipe/pc`, the
pilot-commit recipe, and the parts of `verl` it is built on. The modules are
translated from the source under `src/`; TLC checks them on small instances
and TLAPS proves the most important invariants for all values of the
constants. `PROJECT.json` lists every part of the system, every run, the lines
each definition stands for, the disagreements found, the hazards of the code
and the theorems.

## 1. The system

Pilot-commit trains a language model by reinforcement learning. A *round*
draws a gen batch of prompts and explores them with a few responses each (the
pilot). Prompts of medium difficulty go to a replay buffer. Later rounds take
prompts from the buffer, generate more responses for them (the commit) and
append pilot and commit responses to a train batch. When the batch is full the
model is updated, which ends the *step*; an *epoch* ends with the data.

| Component | State | Operations | Hard part |
|---|---|---|---|
| Trainer, `recipe/pc/pc_ray_trainer.py` | `global_steps`, `gen_steps`, epoch, `batch`, `step_metrics`, prompts marked for exclusion | `fit`: fetch, commit, generate, score, filter, stage, update, save, end of epoch | one loop, state that crosses rounds, steps and epochs; six assertions; restarts |
| Replay buffer, `recipe/pc/replay_buffer.py` | prompt -> responses, step of insertion, statistics | `add`, `sample`, `get_all`, `flush`, `clear` | ageing, overwriting, selection order, two paths of `sample` |
| Commit size, `_adjust_commit_batch_size_for_gpu_divisibility` | none | one pure function | LCM shortcut against a loop, zero |
| Dataset and loader, `verl/utils/dataset/rl_dataset.py` | `excluded_source_indices`, position | iterate, exclude, save and load position | exclusion waits for the epoch, indices are renumbered, restart |
| Base trainer, `verl/trainer/ppo/ray_trainer.py` | `global_steps`, tracker file | `_save_checkpoint`, `_load_checkpoint` | crash between any two writes |
| Checkpoint manager, `verl/utils/checkpoint/` | `previous_saved_paths`, shard files | save, rotate, load on every rank | ranks between barriers, rotation against crashes |
| One-step-off trainer, `recipe/one_step_off_policy` | batch in hand, future of the next one, weights at the rollout | prefetch, send weights, train, validate, save, resume | generation beside training, a batch drawn before the checkpoint that follows |
| Agent loop, `verl/experimental/agent_loop` | requests per server, LRU map, response mask and turns of each conversation | choose a server, generate, call tools, gather | conversations interleave; eviction; limits met exactly; one exception among many tasks |
| Tools, `verl/tools` | token bucket shared by all tools, instances | acquire, execute, release | two queues of one actor, death of the limiter, calls that raise |
| Batch protocol, `verl/protocol.py`; balancing, `seqlen_balancing.py`; `single_controller` | none | pad, chunk, split, reorder; partition; dispatch and collect | uneven sizes, layers that must be undone in the opposite order, collective passes |
| Hybrid engine, `fsdp_workers.py`, `fsdp_vllm.py`, vLLM rollout | where parameters, optimizer, engine weights and cache are; weights the engine has; two random streams | enter and exit generation, update, save, load | one GPU in turns, eight switches of configuration, first time against later times, restarts |
| Rewards, algorithms, models, other engines and recipes | GPU state | numerical work | outside what TLC reaches |

The trainer is the only caller of the buffer and the dataset, and calls the
worker groups through Ray, waiting for each result. It shares files with its
successor after a crash: the checkpoint. Workers meet only at barriers. In
sync mode the worker group's `generate_sequences` enters and leaves the
sharding manager itself; in async mode the agent loop manager wakes the engines
up, deals the batch to agent loop workers, whose conversations share servers
and tools, and puts the engines to sleep again. Every call of a worker group
passes through dispatch and collect functions of the single controller.

What makes each part correct:

- trainer: an update sees a full batch of different prompts; no prompt is used
  twice in an epoch; counters agree with what they count; a step takes a
  bounded number of rounds; training ends;
- buffer: what is sampled leaves it and is not too old; the strategy decides
  the order;
- commit size: one that splits evenly over the GPUs;
- dataset: exclusions take effect from the next epoch on, and stay;
- checkpoints: what the tracker names can be loaded whenever the job dies,
  a crash costs at most `save_freq` steps, old checkpoints do not pile up;
- one-step-off trainer: what is trained on is at most one update old; batches
  are used in order and once, and a restart skips no more than the one drawn
  ahead;
- agent loop: an answer ends with the model's token; a conversation stays with
  its server; servers get equal shares; a batch ends, and leaves nothing
  behind;
- tools: tokens are conserved, and no more calls run than there are tokens;
- batch calls: outputs come back in the batch's order, ranks run the same
  number of passes, balanced ranks differ little;
- hybrid engine: generation uses the actor's weights; memory is used in turns;
  training's random numbers do not depend on how often generation ran.

## 2. Modules

| Module | Content |
|---|---|
| `ReplayBuffer` | the buffer; `Add`, `Flush`, `FlushAll`, `Sample` are its operations |
| `CommitSize` | the commit size as a pure operator, no recursion |
| `PilotCommit` | `fit` as a state machine over `ReplayBuffer` and `CommitSize` |
| `PilotCommitProps` | its properties, its inductive invariant `IInv`, the mapping to `PromptLifecycle` |
| `PromptLifecycle` | abstract specification: the life of a prompt within an epoch |
| `PilotCommitRestart` | `PilotCommit` with crashes and `resume_mode=auto` |
| `Checkpoint` | saving, rotating and resuming, rank by rank and file by file |
| `OneStepOff` | the one-step-off trainer, its rollout worker and crashes |
| `BatchPipeline` | abstract specification: batches drawn, waiting, used and lost |
| `RateLimiter` | the shared token bucket and the calls that use it |
| `AgentLoop` | conversations, server manager and tool calls over `RateLimiter` |
| `DataBatch` | operators of `protocol.py` and of the megatron dispatch on sequences of rows |
| `SeqlenBalancing` | Karmarkar-Karp partitions and micro-batches, over `DataBatch` |
| `BatchCall` | one call of a worker group, over `SeqlenBalancing` |
| `HybridEngine` | FSDP worker, sharding manager and vLLM engine on one GPU |
| `MC*` | instances for TLC |
| `*_proofs` | theorems with proofs |

Some definitions stand directly before another one with a similar name and are
used by no specification (`TooOldByTwo` before `TooOld`, `KeepPartialBatch`
before `DropPartialBatch`, ...). Each is a
plausible fault of the definition that follows. Put in its place, it makes the
property named beside it under "mutants" in `PROJECT.json` fail, which shows
that the property depends on that piece of the code.

### PilotCommit

`pc` is the place in the body of `fit` at which the driver is: about to fetch
(`fetch`), before the commit batch (`sample`), before generation and scoring
(`score`), before staging (`stage`), before the update (`update`), or one of
four ends: `done` (last step), `exhausted` (last epoch), `raised` (generated
too many), `crashed` (an assertion or exception in sampling).

| Code | Action |
|---|---|
| loop head, gen batch of the epoch (427-474) | `FetchExploreBatch` |
| empty buffer / `buffer.sample` / its failures (478-533) | `SkipCommitBatch`, `PrepareCommitBatch`, `SampleCrashes` |
| generation, reward, filter, `buffer.add`, exclusion marks (535-650) | `ScoreExploreBatch` |
| append to the batch and `continue`, `raise` or go on (652-685) | `KeepGenerating`, `GenerateTooMany`, `FillBatch` |
| flush, update, save, reset, end (690-840) | `FinishStep`, `FinishTraining` |
| after the inner loop (842-872) | `NextEpoch`, `RunOutOfEpochs` |

Data is reduced to what steers the loop. A prompt is its source index. A
buffered entry is the step of its insertion and the number of solved
responses: mean and standard deviation, the only statistics the code reads,
are functions of that number. A committed sample also has the round that took
it, so that two copies of a prompt are two elements of the set `batch`, as
they are two groups of rows in the code. Thresholds are numbers of solved
responses. `disk` is the last complete checkpoint; its field `excluded` and
the variable `trained` are history variables that the properties need.
The gen batch is any set of unseen prompts, which covers every shuffle.

### PilotCommitRestart

`Restart` may happen in any state but a finished one. It does what a new
process does: `__init__`, the start of `fit` and `_load_checkpoint`. Only
`disk` survives. The loader skips as many prompts as it had yielded. If
nothing was excluded at the save, the new process shuffles the same range with
the restored generator and skips the same prompts; otherwise the ranges
differ, and any set of that size may be skipped.

### Checkpoint

`pc` and `turn` are the driver's place in `_save_checkpoint`; `phase[r]` is
the place of rank `r` in `save_checkpoint`: `entered`, `ready` (past mkdir,
and on rank 0 past rotation), `writing` (files opened), `saved`. `shards` are
the completely written shard files; a rank's model, optimizer and extra file
are one shard. Barriers are guards on all phases. `saved_paths` is rank 0's
list as a set of steps, in which its order is the order of steps. `Crash`
forgets all but the files; `Resume` is `find_latest_ckpt_path` and
`_load_checkpoint` and ends in `broken` if the tracker cannot be parsed or a
shard is missing. Not modelled here: HDFS (the code raises for it),
`resume_path`, loads that delete what they loaded (off by default).

### OneStepOff

`current` is the batch the driver trains on, `future` the `GenerationBatchFuture`
it holds; a generation has its batch (numbered in the order in which the data
yields them), whether it is ready and the weights that made it (the number of
actor updates they have seen). `weights` are the actor's and the rollout
worker's.

| Code | Action |
|---|---|
| `_load_checkpoint`, validation before training (366-386) | `LoadCheckpoint`, `ValidateBefore` |
| `_async_gen_next_batch`: next batch, weights, call; or the end of the data or an error (303-344, 389-394) | `FetchFirstBatch`, `FetchNoFirstBatch`, `Prefetch`, `SkipPrefetch` |
| the rollout worker's generation | `Generate` |
| `future.get()` (413-418) | `AwaitGeneration` |
| reward to actor update (425-556) | `Train` |
| validation, save, end of the step (572-624) | `Validate`, `SaveCheckpoint`, `FinishStep` |

A rollout worker executes its calls one after the other, so a validation waits
for the generation in progress (`RolloutIsIdle`). `Crash` may happen in any
state but an end and keeps only `disk`; the resume continues the data after
the batches drawn when it was saved. `LoadCheckpoint` is the base trainer's,
with its sub-files complete: what happens between them is `Checkpoint`'s
subject. Batch numbers in `current` and `future` map to `BatchPipeline`'s queue
`waiting`. `drawn`, `used` and `disk`'s copies of them are history variables.

### RateLimiter and AgentLoop

`RateLimiter` is the Ray actor `TokenBucketWorker`: its concurrency groups are
two queues, `acquires` and `releases`, served independently. A call is `idle`,
`queued` (its acquire was sent) or `running` its function; leaving the
`ExitStack` sends the release. `LimiterDies` is the death of the actor with
the process that owned it, after which `ray.get` raises in the calls that
wait.

`AgentLoop` extends it with conversations. `status[c]` is a conversation's place
in `ToolAgentLoop.run`; `mask[c]` its `response_mask`, in which 1 is a token of
the model and 0 one of a tool, so the length of the prompt that is sent next is
the first prompt's plus the mask's. `prompt[c]` is the number of tokens of the
first one, chosen once from `Prompts`. It may exceed `PromptLength`: the loop
applies the chat template with the tools' schemas and never truncates
(`tool_agent_loop.py:62-67`), and the dataset's filter is optional and counts
without them (`rl_dataset.py:147-181`). `MaxModelLen` is `config.max_model_len`
where that is set, and otherwise the sum of the two lengths
(`vllm_async_server.py:220`). What it leaves after a prompt is the request's
`max_tokens`, which may be 0 or negative; `SamplingParams` then raises and so
does the conversation (`Refuse`). When all have finished, `_postprocess` pads
the prompts but leaves those longer than `PromptLength` as they are; unless all
come out equally long it raises (`PostprocessRaises`). `load`, `recent` and
`server` are `weighted_serveres` and the LRU cache. `answer[x]` is what became
of a call: waiting for a thread of the pool, executing, a text, an exception
that `_call_tool` returned, or one that left it.

| Code | Action |
|---|---|
| `generate_sequences` up to the tasks, `gather` and `_postprocess` (258-293, 323-340) | `StartBatch`, `GatherOutputs`, `GatherException`, `PostprocessRaises` |
| `_choose_server`, `generate` (69-104) | `AskServer` |
| the server's answer; stop conditions; the calls (`tool_agent_loop.py:71-101`) | `Respond` |
| `max_tokens` below 1 (`vllm_async_server.py:316-318`) | `Refuse` |
| `tool.execute` in the pool (136-152) | `Execute`, `FunctionReturns`, `FunctionRaises`, `ExecuteFails` |
| `gather` of the answers, the mask, the next turn or the end (101-122) | `GatherAnswers`, `RaiseFromTool` |

An exception that leaves one conversation ends the batch while the others run
on as orphans, as `asyncio.gather` does. A single-turn agent loop is the case of
a conversation that calls no tool. Functions given to a pool return or raise:
both tools give their requests a time limit.

### DataBatch, SeqlenBalancing, BatchCall

A row is its position in the driver's first batch and the output of a worker
for a row is that row, so any misplaced output is visible. `BatchCall` follows
one call: `Balance` (`_balance_batch`), `PadAndDeal`
(`pad_dataproto_to_divisor`) or `AutoPadAndDeal` (automatic padding) on the
driver; on each rank `Count` (its own number of micro-batches, then the
all-reduce), `MakeDynamic` or `MakeFixed`, and `Compute`; `Collect` on the
driver.
`SeqlenBalancing` has `karmarkar_karp` as the code runs it: a heap of states,
the two with the largest spread merged, sets within a state sorted. The heap is
the set of its states (no two of them have an item in common) and the loop a
function of the number of merges done. Whatever the code sorts is `InOrder` of
a relation, the comparison the code sorts by: the k-th of the result is the
member with k - 1 before it. The megatron dispatch and collect functions
are operators over a mesh of tensor, context, data and pipeline ranks.

### HybridEngine

`pc` is the place of a worker within `init_model` and `load_checkpoint`, the
sharding manager's `__enter__` (`enter`, `wake`, `send`, `offload`, `cache`),
`generate`, `__exit__` (`exit`), and the methods the trainer calls between
generations. `config` is chosen once: async or sync mode, `free_cache_engine`,
adapters, load format, `layered_summon`, whether the engine wakes weights and
cache apart, and the two offloads. `engine` are the base and adapter weights
the engine has, as numbers of updates (`Dummy` for a dummy load). `rng` is the
device's random state, `torch_random_states` and `gen_random_states` the
manager's fields; a state is a seed and how often it was drawn from. The
driver is pilot-commit's in sync mode, with several rounds to a step, and the
base trainer's in async mode, with one; both are reduced to what they call.
`Restart` is a crash at any point and `init_model` in a new process.

## 3. Runs

Passing runs:

| Run | Question | Instance |
|---|---|---|
| `core` | Does the loop keep `TypeOK`, `FullBatchIsDistinct`, `BatchIsCounted`, `RolloutsAreEven`, `RoundsAreBounded`, `ExclusionTakesEffect`? | 8 prompts, gen batch 2, train batch 4, 2 responses, 1 commit rollout, 2 GPUs, 4 rounds, 2 epochs, 2 steps: 47275 states |
| `life` | Does `PilotCommit` implement `PromptLifecycle` (`ImplementsLifecycle`) and end (`Termination`) without a limit on rounds? | 4 prompts, gen batch 2, train batch 1, 2 epochs, 3 steps; no symmetry |
| `resume` | Over several steps of an epoch, with a backlog and two restarts: `StalenessIsBounded`, `OnePlace`, `LittleIsRepeated`, `CheckpointAdvances` | 8 prompts, gen batch 2, train batch 1, tolerance 1, `max_variance`, up to 5 steps, a save after each: 70769 states |
| `rotate` | `TrackedIsComplete`, `OnlyTruncationBreaks`, `LittleIsLost`, `RotationKeepsUp` with crashes anywhere | actor keeps 2, critic 3; 2 ranks, 7 steps, a save every 2, forced saves at any step, 2 crashes: 178958 states |
| `one_step_off` | Is generation at most one update behind (`OneStepBehind`), are batches used in order and once (`ImplementsPipeline`, `LittleIsSkipped`), is little work lost (`LittleWorkIsLost`), does `fit` return (`Termination`)? `TypeOK` | 3 epochs of 3 batches, 10 steps, the first 2 without an actor update, a save and a validation every 2 steps, 3 crashes: 2546 states |
| `agent_loop` | Are tokens conserved and the rate respected, does the model have the last word and, after a prompt that leaves room for a response, always room for it, is each conversation on one server and each server given its share, is nothing left behind, does every batch end? (`AgentTypeOK`, `TokensAreConserved`, `RateIsRespected`, `ModelHasTheLastWord`, `RoomToGenerate`, `StaysWithServer`, `EachServerHasItsShare`, `NothingIsLeft`, `BatchesEnd`) | 2 batches of 2 conversations, 2 servers, both tools under 1 token, cache of 2, prompts of 1 to 3 tokens under a `PromptLength` of 2, responses of 3, generations of at most 1 token and tool answers of at most 2, 2 calls a turn, 1 tool turn, 1 thread a pool: 713808 states |
| `batch` | Do outputs follow the batch (`ResultFollowsBatch`), do assertions hold (`AssertionsHold`), do ranks agree (`RanksKeepStep`), do micro-batches fit but for a row (`MicroBatchesNearlyFit`), are ranks balanced (`RanksAreBalanced`), does the megatron collect undo the dispatch (`CollectUndoesDispatch`)? | every batch of up to 6 rows of 1 to 3 tokens, 2 ranks, micro-batches of 2 rows or 5 tokens; meshes with up to 2 in each dimension: 75075 states |
| `hybrid_engine` | Is generation on policy (`GenerationIsOnPolicy`), is memory used in turns (`MemoryIsShared`), is training's random stream kept (`TrainingStreamIsKept`)? | 96 configurations, 3 steps, the first without an actor update, a save each step, a validation every 2, 2 rounds a step, 2 crashes: 270560 states |

The bounds are chosen by what has to happen. In `core` a train batch needs
more prompts than a gen batch yields, so it is filled over several rounds,
some of them reduced to an even number for the GPUs; an epoch of four rounds
ends with and without a partial batch, a round is the last one allowed, and
excluded prompts leave too few for the second epoch or not (`OnePlace` is
proved of this loop too, but checked in `resume`, where restarts threaten it as
well). In `resume` train batch 1 against gen batch 2 makes the buffer grow, so entries get old, and
five steps are enough for an entry to be kept, sampled at the largest age or
evicted. A save after each step lets an epoch of four rounds hold a checkpoint,
a crash and another checkpoint; with rarer saves the epoch would end before the
second one, and a resume that went back would go unnoticed. In `rotate` each
role passes its limit within one process life and
again after each of two crashes. In `one_step_off` data and training end in
either order, an epoch ends between a batch in hand and the next one, and a
second crash meets what the first one skipped. In `agent_loop` the second batch
starts with the counts and the cache of the first; orphans, which only a batch
that raised leaves, end the run with it. With one prompt too long, in the first
batch, that batch always raises and its conversations end as orphans; with two
of equal length, in the second, it is refused after a tool's answer or returns.
One token makes
the two calls of a turn, of two conversations and of both tools wait for each
other, one of two calls may raise while the other waits or executes, and the
lengths are met exactly, passed and missed by one; `tool_failure` configures
the model's length. In `batch` six rows of two
ranks give sizes below, equal to and indivisible by the number of ranks, and a
rank may need one micro-batch where the other needs two. In `hybrid_engine`
three steps have generations before and after the first update, validations
and saves between them, and resumes before and after it; the configurations
are all but those named under the disagreements and "Not modelled".

Prompts are interchangeable in `PilotCommit`, so runs of invariants and action
properties use `Symmetry`; `life`, which checks liveness, does not.

*Fairness.* Only `Termination` (twice) and `BatchesEnd` use it.

- `PilotCommit`: `WF_vars(Step)`, one weak-fairness condition on the whole
  loop. The driver is a single thread whose remote calls are `ray.get`s that
  return or raise, so while it can take a step it takes one. Nothing is assumed
  about which prompts are solved: training ends even if none ever passes the
  filter, because each epoch yields each prompt once.
- `OneStepOff`: `WF_vars(Drive)` and `WF_vars(Generate)`: the driver goes on
  while it can, and a generation that was called returns. Crashes are not
  fair, and bounded.
- `AgentLoop`: `WF_vars(Progress)` over everything but the limiter's death:
  servers answer, functions return or raise (both tools pass a timeout), and
  the event loop and the actors' threads run what is ready. No condition is
  made on who is served first; the queues decide.

Runs that end in a counterexample, each a disagreement between the code and
what the repository says of it ("findings" in `PROJECT.json` has the quotes):

| Run | What happens |
|---|---|
| `least_recent` | `least_recent` sorts as `most_recent` does and leaves older prompts behind |
| `keep_one` | with `max_*_ckpt_to_keep = 1`, rotation removes the tracked checkpoint before the next is written; a crash in between leaves nothing to load |
| `tool_failure` | the sandbox's function raises, its pool returns `None`, and `len(None)` outside the `try` block ends the whole batch |
| `stale_engine` | with adapters over a base model that the first generation sends, that generation sends no adapter; after a resume the actor has one |

Other disagreements met while modelling, without a run of their own:

- `flush` (`replay_buffer.py:84`) compares with the number of the step that
  ends, so a sample of age `max_off_steps + 1` reaches an update although
  `max_off_steps` is the "Maximum tolerance" (line 22); `StalenessIsBounded`
  has the `+ 1`;
- the commit size may be reduced to 0 with prompts in the buffer
  (`pc_ray_trainer.py:276`); `sample(0)` (line 495) then concatenates nothing
  and fails (`SampleCrashes`);
- with `n_effective < n`, handing over the whole buffer
  (`replay_buffer.py:132`) skips down-sampling, and the assertion at
  `pc_ray_trainer.py:503` fails (`SampleCrashes`);
- `gen_steps` restarts at a resume (`pc_ray_trainer.py:373`), so training goes
  past `total_training_steps`;
- prompts excluded when a checkpoint was saved return after a resume: only the
  dataloader's position is saved (`ray_trainer.py:932`), although
  `rl_dataset.py:423` keeps exclusions in the dataset's state;
- `one_step_off_policy`: a validation may use weights two updates old, since it
  is given those sent for the generation in progress (the recipe's README.md:31
  speaks of one step);
- a prompt that is longer than `prompt_length` with the tools' schemas is
  neither truncated nor filtered out, and one such conversation can end its
  whole batch: by `max_tokens` below 1 (`vllm_async_server.py:317`), or by
  `_postprocess`, which pads prompts to unequal lengths
  (`agent_loop.py:333-339`);
- the FSDP worker's `compute_log_prob` returns no `entropys`
  (`fsdp_workers.py:782-790`), which `verl`'s `ray_trainer.py:1189` and
  `one_step_off_policy/ray_trainer.py:458` read; the Megatron workers return
  it, and `OneStepOff` is a model of the trainer with those.
  `compute_ref_log_prob` unpacks two of three values (`fsdp_workers.py:828`).
  In `HybridEngine` the 16 asynchronous configurations therefore stop
  (`"failed"`) before their first update: what `GenerationIsOnPolicy` and
  `TrainingStreamIsKept` say of updates and of training's random stream is
  about the 80 synchronous ones;
- in async mode without `free_cache_engine`, `agent_loop.py:495` never wakes
  the servers up, and only a wake-up sends weights: they go on serving the
  first ones. The run `hybrid_engine` and the theorems `OnPolicy` and
  `StreamKept` leave this configuration out;
- in async mode the manager's first sleep leaves the sharding manager without
  having entered it, and makes training's random state that of generation
  (`fsdp_vllm.py:249`), which `fsdp_vllm.py:116` had seeded by the data rank;
- generation's random stream is not in the checkpoint, training's is;
- `max_size` of the buffer (`replay_buffer.py:21`) is never enforced;
- the comment at `pc_ray_trainer.py:843` promises that the step metrics are
  reset at the end of an epoch, the code does so only with a partial batch:
  `num_gen_batches` of rounds that committed nothing is carried over;
- the rollout tracker is not cleared at the end of an epoch, so rounds whose
  prompts were dropped count for the next step;
- the docstring of `_adjust_commit_batch_size_for_gpu_divisibility` promises
  that the total is divisible, but a round that commits nothing, and a size
  given up at 0, keep an uneven total (`RolloutsAreEven` has that condition);
- the tracker is "for atomic usage" (`ray_trainer.py:935`) but is opened with
  `"w"`: a crash between opening and writing leaves an empty file, and the
  resume fails parsing it (`Truncated`, `broken`);
- "keeping at most `max_ckpt_to_keep`" (`fsdp_checkpoint_manager.py:190`) holds
  per process life: what earlier runs of the job left is forgotten
  (`RotationKeepsUp` counts lives);
- `max_token_len` is the "max sum of attention_mask per micro-batch"
  (`seqlen_balancing.py:264`), but only the average is kept below it: three
  rows of 3 tokens under a limit of 5 become two micro-batches, one of 6 tokens
  (`MicroBatchesNearlyFit` says what holds instead);
- a job that had finished trains one more step when it is started again;
- the contents of the replay buffer are not saved.

## 4. Theorems

All are proved from the named assumptions on constants (`BufferAssumption`,
`TrainerAssumption`, `CheckpointAssumption`, `OneStepOffAssumption`,
`LimiterAssumption`, `AgentLoopAssumption`, `HybridEngineAssumption`,
`BatchCallAssumption`, `MCBatchCallAssumption`), which
TLC evaluates in the runs.

`PilotCommit_proofs`: `Invariance` (`Spec => []IInv`) and its consequences

| Theorem | Property |
|---|---|
| `TypeCorrect` | `TypeOK` |
| `PromptsAreInOnePlace` | `OnePlace` |
| `CounterIsExact` | `BatchIsCounted` |
| `UpdatesSeeAFullBatch` | `FullBatchIsDistinct` |
| `SamplesAreFresh` | `StalenessIsBounded` |
| `ExclusionHolds` | `ExclusionTakesEffect` |
| `RoundsAreDealtEvenly` | `RolloutsAreEven` |
| `StepsHaveFewRounds` | `RoundsAreBounded` |

`OnePlace` alone is not inductive. That a fetched prompt is in no other place
needs that every place holds only prompts already seen; that two staged
samples are of two prompts (`OneSample`) needs that what is sampled leaves the
buffer, which `OnePlace` says; that the batch is never overfilled needs the
exact counter (`BatchIsCounted`), since the commit size is computed from the
counter; and each of them needs to know where the round in progress is
(`RoundInProgress`: explored prompts exist only until they are scored,
committed ones only until they are staged, and at an update the counter equals
`train_bsz`). `IInv` has two parts: `RunInv`, what one process keeps by itself,
whatever the dataloader yields, and `TrainedApart`, that what was trained on in
this epoch is not fetched again, which needs a dataloader that forgets nothing.
There is one lemma per action. `RoundsAreDealtEvenly` adds the arithmetic of
the commit size, and `StepsHaveFewRounds` that where another round starts, one
is left (`RoundIsLeft`).

The commit size: it is between 0 and the size wanted (`CommitSizeInRange`),
even where the explored rollouts are (`CommitSizeIsEven`), and
`CommitSizeIsLargest`: whichever branch computes it, it is what counting down
from the size wanted would find, the largest size that makes the round even, 0
if none does. For the branch that uses the least common multiple this says
that the shortcut gives up no prompt that could have been committed; its lemma
is that every common multiple is a multiple of the least one
(`LcmDividesMultiples`), by the well-foundedness of the naturals.

`PilotCommitRestart_proofs`: the same training with any number of crashes and
restarts, for all constants. `RunsAreSound`: `RunInv` holds throughout, since a
restart forgets everything it relates and may resume the dataloader anywhere;
`SamplesStayFresh`, `ResumedUpdatesSeeAFullBatch` and
`ResumedRoundsAreBoundedAndEven` follow. `LittleIsEverRepeated` and
`CheckpointNeverGoesBack` come from `DiskFollows`: the checkpoint is of an
earlier step than the one in progress, and no multiple of `save_freq` that was
passed is later than it. `PromptsStayInOnePlace` is `OnePlace` where
`exclude_threshold_upper` is null, so that nothing is ever excluded
(`NoneExcluded`); with exclusions it does not hold, because a resume loses them.

Also in `PilotCommit_proofs`: `LifecycleIsImplemented`, the refinement
`Spec => ImplementsLifecycle` that the run `life` checks on one instance. The
stage of a prompt is read from the place it is in. Because `IInv` puts a prompt
in at most one place, each stage is the membership in one set (`StagesAre`),
and each action is shown to be `Explore`, `Judge`, `Stage`, `Train`,
`NewEpoch` or a stutter.

`Checkpoint_proofs`: `TrackerIsSafe`, `TrackedIsComplete` at every moment for
any number of ranks, roles, crashes and steps, provided no limit is 1
(`KeepsMoreThanOne`; the run `keep_one` shows that the condition is needed).
The inductive invariant `CInv` adds that the tracker is behind the step in
progress, that rank 0 remembers no step later than the tracker except of roles
already saved in this step, so that the newest path it keeps is the tracked
one or newer, and that what the step has saved so far is on disk.
`CrashesCostLittle` is `LittleIsLost` for all constants, without a condition on
the limits. Its invariant `LInv` measures the distance from the tracker to the
last finished step by the remainder of that step by `save_freq`: no step at
which a save was due lies in between (`NoneMissed`). `OnlyTruncation` is
`OnlyTruncationBreaks` under the same condition as `TrackerIsSafe`, from
`CInv`: what the tracker names being complete, only parsing the tracker can
fail. `CkptTypeCorrect` is the type invariant, without a condition.
`OldCheckpointsDoNotPileUp` is `RotationKeepsUp` for all constants. Its
invariant `KInv` splits the steps on disk of a role into what this run
remembers, what it is saving and what earlier runs left (`Leftover`), of which
each crash adds at most `max_ckpt_to_keep`; while the step is being saved, the
rotation has made room for it, and no rank writes before it (`BarrierHolds`).

`OneStepOff_proofs`: `TypeCorrect`, `StaysOneStepBehind`, `SkipsLittle` and the
refinement `Implementation` (`ImplementsPipeline`) come from one invariant,
`IInv`. It adds to `TypeOK` which batches are where (`Batches`: the one in hand
is older than the future's, and the youngest is the last one drawn), how far
each set of weights is behind the actor at each place of the loop (`Weights`:
they are sent just before the driver trains once, except on the last step,
which starts no generation) and how much a restart would skip (`Skipped`: going
back to the disk may skip one batch more than there were crashes).
`LosesLittleWork` has an invariant of its own, `LInv`, with the remainder
argument of `Checkpoint`.

`AgentLoop_proofs`: first the rate limiter by itself, `Conserved` and
`RateRespected` for any callers and any limit. Their invariant `LimiterInv`
adds that the queue holds only calls that are waiting, each once: taking a
token from the head then makes one more call run. `LoopUsesLimiter` is the
refinement `Spec => LimiterSpec`: what the loop does to the limiter, its errors
and the limiter's death included, is what the limiter's specification allows,
so that both properties hold of the loop (`LoopConserves`, `LoopRespectsRate`).
The rest comes from one invariant, `LoopInv`, for any numbers of servers,
conversations, batches and calls, any lengths of prompts, of responses and of
the model, and any size of the mapping:

| Theorem | Property | Conjunct that carries it |
|---|---|---|
| `ModelEnds` | `ModelHasTheLastWord` | `TurnsAlternate`: at each place of the loop, who had the last turn, and that a response that goes on is shorter than allowed |
| `RoomIsLeft` | `RoomToGenerate` | the same: a response that goes on is shorter than allowed, so a prompt that leaves room for a full one is never refused. Of longer prompts, which the code does not keep out, it says nothing |
| `AllIsReleased` | `NothingIsLeft` | `CallsAreAwaited`: a call executes exactly while a thread runs it, and belongs to a conversation that waits for it or has raised |
| `SharesAreKept` | `EachServerHasItsShare` | `SharesAreEven`: two servers' counts differ by at most one, and as their shares of the current batch do |
| `ServerStays` | `StaysWithServer` | `RecentInOrder`: the mapping has the batches in order, the current one last, and all of it if it is large enough |
| `AgentTypes` | `AgentTypeOK` | `LoadIsAskedFor`: a server's count is at most the number of requests made, two-dimensional in conversations and turns |

`SeqlenBalancing_proofs`: first facts about rows, for every batch: unpadding
undoes padding (`UnpadUndoesPad`), a padded batch splits evenly
(`PaddedIsEven`), restoring by `get_reverse_idx` undoes a reordering
(`RestoreUndoesReorder`), and splitting an interleaved repetition by the number
of repeats gives a part for each row, made of its repeats
(`SplitFindsRepeats`). Then `PartitionsAreShares`, what
`get_seqlen_balanced_partitions` returns for any lengths and any number of
partitions `k`: each position in exactly one, none empty if there are `k`
positions, and with `equal_size` as many in each. Their sums differ by at most
one number: with `equal_size` one of the spreads of the groups of `k` that the
sorted lengths fall into, otherwise one of the lengths (`Bounds`). The argument
is an invariant of the loop (`IsHeap`): the states of the heap share no item and
hold every position; each is sorted, its sums are those of its items (`Sound`)
and within one of the bounds of each other (`Close`), no set has two items while
another has none (`Thin`), and with `equal_size` its sets are equally large
(`Full`). Merging keeps this because it joins the largest set of one state with
the smallest of the other (`MergedIsKept`): the differences are then subtracted
and not added, and a set is joined with an empty one while there are
any. `Popped` chooses something since two states that share no item differ in
their first set (`PoppedIsMember`). A recursive function that is defined inside
an operator unfolds to a choice; `IterationExists` shows that there is such a
function, and the rest is induction over its bound (`UpTo`), from the
well-foundedness of the naturals. `MicroBatchesAreShares` is the consequence
for `rearrange_micro_batches`.

`BatchCall_proofs`: the six properties of the run `batch`, for any number of
ranks, any lengths and any size of micro-batches, from one invariant, `IInv`
(`CallInvariant`). It says how the pieces of a call relate at each moment: what
was dealt gives the batch back when put together and the padding taken off
(`Returns`), every rank has as many rows (`IsDealt`), a balanced batch was
dealt as its partitions, no rank wants more micro-batches than it has rows, the
micro-batches made hold each row of the rank once, as many of them as were
agreed on (`IsCutUp`), and an output is the rank's part in its order.

| Theorem | Property | Why |
|---|---|---|
| `ResultsFollowTheBatch` | `ResultFollowsBatch` | the outputs put together are `Returns`' batch; `RestoreUndoesReorder` for the order within a rank |
| `NoAssertionFails` | `AssertionsHold` | the number agreed on is the largest of numbers that are at most the rows of a rank, and all ranks have as many (`AgreedNumberIs`) |
| `RanksStayInStep` | `RanksKeepStep` | the same number, or the same number of rows |
| `MicroBatchesAreNearFit` | `MicroBatchesNearlyFit` | no micro-batch of a rank has fewer tokens than the largest less one row (`MicroBatchesAreShares`), and the number agreed on times the limit covers them all (`WantedIsEnough`): were the largest beyond both, so would be the sum of all (`TokensAddUp`, `MicroBatchesNearFit`). It is invariant together with `IInv`, as `FitInv` |
| `BalancingBalances` | `RanksAreBalanced` | `PartitionsAreShares` |
| `EveryPartIsCollected` | `CollectUndoesDispatch` | for meshes of any size (`CollectIsInverse`): a rank that is collected is determined by its data rank and grows with it (`CollectedIsRankFor`, `RankForIsCollected`) |

`HybridEngine_proofs`: `OnPolicy`, `Shared` and `StreamKept`, for every length
of training, every frequency and any number of crashes; `Shared` for all
configurations, the other two where `AllSupported`: async mode frees its
engine, and (the run `stale_engine` shows it necessary) no adapter lies over a
base model that the first generation sends. `PolicyInv` says that every way to
a generation leads through sending, since an async worker is asleep whenever
the driver begins one (a wake-up of one that is awake does nothing), and that
the base under an adapter is the one trained. `MemoryInv` says where each thing
is at every place; `StreamInv` that training's stream is the device's or put
aside, and equals the one the checkpoint has after a resume.

Every invariant and action property of a run that passes is a theorem. Only
model-checked are `Termination` (twice) and `BatchesEnd`: liveness under
fairness is outside this prover's reach. That a run with a finding ends in a
counterexample is TLC's result too.

## 5. Not modelled

Generation, rewards, advantages and updates are numerical; the models have only
their outcome, the number of solved responses, of tokens or of updates. Which
responses of a prompt are kept (`_maxvar_downsample_binary`), metrics,
profiling and logging do not steer a loop. Thresholds as floating-point numbers
are represented by the counts they separate. In particular:

- kernels, network definitions, algorithms and losses (`verl/models`,
  `verl/utils/kernel`, `core_algos.py`), most of the code by size: formulas on
  tensors, without state that outlives a call;
- the SGLang rollout and the SGLang and Megatron sharding managers: the same
  turns as `HybridEngine`'s with another engine, and a server of requests that
  would need the engine's own semantics;
- SPIN, SPPO, PRIME, DAPO and entropy recipes: the base loop with another
  loss or filter; the order of their saves is the base trainer's;
- what the manager and the trainer make of a batch whose prompts are all longer
  than `prompt_length` by as much, and so wider than expected;
- adapters in async mode, which the code does not support, and
  `enable_global_rate_limit` off, which no configuration sets;
- tokenisation, chat templates, tool-call parsing, schemas; reward managers and
  scoring; interactions; offline conversion, data preparation and scripts.

`PROJECT.json` gives the reason for each part.

## 6. Plan

1. The SGLang rollout's requests of several turns
   (`sglang_rollout.py`, `schemas.py`): the states of a request, tool calls and
   the length limits, against the same properties as `AgentLoop`.
2. DAPO's loop as an instance of `PilotCommit` without a buffer, and SPIN's
   reference updates.
3. Max-variance down-sampling (`replay_buffer.py:207-239`) against the
   definition of variance; the dynamic dataset under a sampler of fixed size.
