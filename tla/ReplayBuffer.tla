---------------------------- MODULE ReplayBuffer ----------------------------
(***************************************************************************)
(* recipe/pc/replay_buffer.py: the replay buffer that carries explored     *)
(* prompts from the round that explored them to the round that commits     *)
(* them.  The Python dict prompt_id -> {data, step, metric_stats} is a     *)
(* function from the buffered prompts to their entries.  Of the responses  *)
(* an entry keeps only how many solved the prompt: mean and std, the only  *)
(* statistics the code reads, are functions of that number.                *)
(***************************************************************************)
EXTENDS Integers, FiniteSets, Functions

CONSTANTS
    Prompts,       \* the dataset, each prompt named by its source index
    NExplore,      \* responses generated for an explored prompt
    MaxOffSteps,   \* max_off_steps: tolerated age, in training steps
    Strategy       \* prompt_sampling_strategy

ASSUME BufferAssumption ==
    /\ IsFiniteSet(Prompts)
    /\ NExplore \in Nat \ {0}
    /\ MaxOffSteps \in Nat
    /\ Strategy \in {"random", "max_variance", "most_recent", "least_recent"}

VARIABLE buffer    \* prompt -> [step, solved]

Solved == 0 .. NExplore
Entries == [step : Nat, solved : Solved]

BufferTypeOK ==
    /\ DOMAIN buffer \subseteq Prompts
    /\ buffer \in [DOMAIN buffer -> Entries]

BufferInit == buffer = [p \in {} |-> [step |-> 0, solved |-> 0]]

-----------------------------------------------------------------------------
(* add: one entry per prompt; an entry of the same prompt is overwritten.   *)
Add(passed, solved, step) ==
    buffer' = [p \in DOMAIN buffer \cup passed |->
                 IF p \in passed THEN [step |-> step, solved |-> solved[p]]
                                 ELSE buffer[p]]

(* flush: evicts the entries that are too old at current_step.              *)
TooOldByTwo(current_step) ==
    {p \in DOMAIN buffer : current_step - buffer[p].step > MaxOffSteps + 1}
TooOld(current_step) ==
    {p \in DOMAIN buffer : current_step - buffer[p].step > MaxOffSteps}

Flush(current_step) ==
    buffer' = Restrict(buffer, DOMAIN buffer \ TooOld(current_step))

(* flush with enforce=True, and clear.                                      *)
FlushAll == buffer' = Restrict(buffer, {})

(* The sort keys of _sample_by_variance and _sample_by_recent: a is taken   *)
(* ahead of b.  Python's order among equal keys is left open.  Both         *)
(* recency strategies pass reverse=True, so both sort newest first.         *)
Spread(e) == e.solved * (NExplore - e.solved)

AheadOf(a, b) ==
    \/ /\ Strategy = "max_variance"
       /\ \/ Spread(a) > Spread(b)
          \/ Spread(a) = Spread(b) /\ a.step > b.step
    \/ /\ Strategy \in {"most_recent", "least_recent"}
       /\ a.step > b.step

(* The sets of prompts that sample(size) may return: the whole buffer when  *)
(* it is no larger than size, else size prompts with none left behind that  *)
(* sorts ahead of one taken.                                                *)
Selections(size) ==
    {S \in SUBSET DOMAIN buffer :
        \/ Cardinality(DOMAIN buffer) <= size /\ S = DOMAIN buffer
        \/ /\ Cardinality(DOMAIN buffer) > size
           /\ Cardinality(S) = size
           /\ \A p \in S, q \in DOMAIN buffer \ S :
                 ~AheadOf(buffer[q], buffer[p])}

(* sample: the selected entries leave the buffer.                           *)
Sample(size, taken) ==
    /\ taken \in Selections(size)
    /\ buffer' = Restrict(buffer, DOMAIN buffer \ taken)

(* Responses returned per prompt: the early return that hands over the      *)
(* whole buffer (get_all) skips the down-sampling to n_responses.           *)
ResponsesPerPrompt(size, n_responses) ==
    IF Cardinality(DOMAIN buffer) <= size THEN NExplore ELSE n_responses

=============================================================================
