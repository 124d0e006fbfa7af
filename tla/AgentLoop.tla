------------------------------ MODULE AgentLoop ------------------------------
(***************************************************************************)
(* verl/experimental/agent_loop: one AgentLoopWorker generates batches of  *)
(* conversations with its servers (agent_loop.py), each a ToolAgentLoop.run*)
(* (tool_agent_loop.py) that alternates generations and tool calls.  The   *)
(* calls execute in the pools of the search and sandbox tools, under the   *)
(* rate limit that all tools share (module RateLimiter).                   *)
(*                                                                         *)
(* Token ids are left out: a response is its mask, 1 for a token that the  *)
(* model generated and 0 for one of a tool's answer.                       *)
(***************************************************************************)
EXTENDS RateLimiter, SequencesExt

CONSTANTS
    BatchSize,          \* conversations in a batch
    NBatches,           \* batches the trainer asks for
    Servers,
    CacheSize,          \* max_cache_size
    PromptLength,
    ResponseLength,
    ConfiguredModelLen, \* config.max_model_len, 0 for null
    Prompts,            \* the lengths that the conversations' prompts may have:
                        \* nothing bounds a prompt, which is not truncated and
                        \* whose tool schemas the dataset's filter ignores
    MaxAssistantTurns,  \* 0 for no limit, and likewise the next
    MaxUserTurns,
    MaxParallelCalls,
    NumWorkers,         \* num_workers of each tool's pool
    MaxGenerated,       \* bound of the tokens a generation yields
    MaxToolTokens       \* bound of the tokens of the tools' answer

Conversations == 1 .. NBatches * BatchSize
Calls == 1 .. MaxParallelCalls

ASSUME AgentLoopAssumption ==
    /\ {BatchSize, NBatches, CacheSize, PromptLength, ResponseLength,
        MaxParallelCalls, NumWorkers, MaxGenerated, MaxToolTokens}
           \subseteq Nat \ {0}
    /\ {MaxAssistantTurns, MaxUserTurns, ConfiguredModelLen} \subseteq Nat
    /\ IsFiniteSet(Servers) /\ Servers # {}
    /\ Callers = Conversations \X Calls
    /\ Prompts \subseteq [Conversations -> Nat \ {0}]

VARIABLES
    batch,       \* number of the batch
    outcome,     \* of generate_sequences for it
    prompt,      \* of each conversation: the number of its prompt's tokens
    status,      \* of each conversation
    mask,        \* response_mask
    assistant_turns, user_turns,
    load,        \* weighted_serveres: the count of each server
    recent,      \* request_id_to_server: its keys, least recent first,
    server,      \* and the server of each request
    tool,        \* of each call
    answer,      \* what became of each call
    instances    \* calls whose tool instance exists

turns   == <<mask, assistant_turns, user_turns>>
manager == <<load, recent, server>>
tools   == <<tool, answer, instances>>
vars == <<limiter, prompt, batch, outcome, status, turns, manager, tools>>

Statuses == {"idle", "ready", "generating", "calling", "done", "raised",
             "returned"}
Answers == {"none", "waiting", "executing", "text", "exception", "raised"}
Tools == {"search", "sandbox"}

Batch == {c \in Conversations : (c - 1) \div BatchSize + 1 = batch}
CallsOf(c) == {c} \X Calls
MaxModelLen == IF ConfiguredModelLen # 0 THEN ConfiguredModelLen
               ELSE PromptLength + ResponseLength

AgentTypeOK ==
    /\ LimiterTypeOK
    /\ prompt \in Prompts
    /\ batch \in 0 .. NBatches
    /\ outcome \in {"running", "returned", "raised"}
    /\ status \in [Conversations -> Statuses]
    /\ \A c \in Conversations :
           /\ mask[c] \in Seq({0, 1})
           /\ Len(mask[c]) < MaxModelLen \/ Len(mask[c]) < ResponseLength
    /\ assistant_turns \in [Conversations -> 0 .. ResponseLength]
    /\ user_turns \in [Conversations -> 0 .. ResponseLength]
    /\ load \in [Servers -> 0 .. Cardinality(Conversations) * ResponseLength]
    /\ recent \in Seq(Conversations) /\ Len(recent) <= CacheSize
    /\ server \in [Conversations -> Servers]
    /\ tool \in [Callers -> Tools \cup {"none"}]
    /\ answer \in [Callers -> Answers]
    /\ instances \subseteq Callers

(* The value of a local variable of tasks that do not run.                  *)
None(v) == [c \in Conversations |-> v]
NoTurns ==
    /\ mask' = None(<<>>)
    /\ assistant_turns' = None(0)
    /\ user_turns' = None(0)

Init ==
    /\ LimiterInit
    /\ prompt \in Prompts
    /\ batch = 0
    /\ outcome = "returned"
    /\ status = None("idle")
    /\ mask = None(<<>>)
    /\ assistant_turns = None(0)
    /\ user_turns = None(0)
    /\ load = [s \in Servers |-> 0]
    /\ recent = <<>>
    /\ server = [c \in Conversations |-> CHOOSE s \in Servers : TRUE]
    /\ tool = [x \in Callers |-> "none"]
    /\ answer = [x \in Callers |-> "none"]
    /\ instances = {}

-----------------------------------------------------------------------------
(* generate_sequences starts a task for each conversation of the batch.     *)
StartBatch ==
    /\ outcome = "returned"
    /\ batch < NBatches
    /\ batch' = batch + 1
    /\ outcome' = "running"
    /\ status' = [c \in Conversations |-> IF c \in Batch' THEN "ready"
                                          ELSE status[c]]
    /\ UNCHANGED <<limiter, turns, manager, tools>>

(* _postprocess pads a prompt to prompt_length and leaves a longer one as   *)
(* it is; prompts of unequal lengths do not make a tensor.                  *)
Padded(c) == IF prompt[c] > PromptLength THEN prompt[c] ELSE PromptLength
PromptsStack == \A c, d \in Batch : Padded(c) = Padded(d)

(* asyncio.gather: every task's output, the task itself being gone, or the  *)
(* first exception at once; the other tasks then go on.                     *)
GatherOutputs ==
    /\ outcome = "running"
    /\ \A c \in Batch : status[c] = "done"
    /\ PromptsStack
    /\ outcome' = "returned"
    /\ status' = [c \in Conversations |-> IF c \in Batch THEN "returned"
                                          ELSE status[c]]
    /\ NoTurns
    /\ UNCHANGED <<limiter, batch, manager, tools>>

PostprocessRaises ==
    /\ outcome = "running"
    /\ \A c \in Batch : status[c] = "done"
    /\ ~PromptsStack
    /\ outcome' = "raised"
    /\ UNCHANGED <<limiter, batch, status, turns, manager, tools>>

GatherException ==
    /\ outcome = "running"
    /\ \E c \in Batch : status[c] = "raised"
    /\ outcome' = "raised"
    /\ UNCHANGED <<limiter, batch, status, turns, manager, tools>>

-----------------------------------------------------------------------------
(* _choose_server.                                                          *)
IsCached(c) == \E i \in DOMAIN recent : recent[i] = c
Position(c) == CHOOSE i \in DOMAIN recent : recent[i] = c
Touch(c) == Append(RemoveAt(recent, Position(c)), c)

InsertOnly(c) == Append(recent, c)
EvictMostRecent(c) ==
    Append(IF Len(recent) < CacheSize THEN recent
           ELSE SubSeq(recent, 1, CacheSize - 1), c)
Insert(c) ==
    Append(IF Len(recent) < CacheSize THEN recent ELSE Tail(recent), c)

AnyServer == Servers
LeastLoaded == {s \in Servers : \A t \in Servers : load[s] <= load[t]}

ChooseServer(c) ==
    \/ /\ IsCached(c)
       /\ recent' = Touch(c)
       /\ UNCHANGED <<load, server>>
    \/ /\ ~IsCached(c)
       /\ \E s \in LeastLoaded :
              /\ load' = [load EXCEPT ![s] = @ + 1]
              /\ server' = [server EXCEPT ![c] = s]
       /\ recent' = Insert(c)

(* The first statement of the loop, until it waits for the server.          *)
AskServer(c) ==
    /\ status[c] = "ready"
    /\ ChooseServer(c)
    /\ status' = [status EXCEPT ![c] = "generating"]
    /\ UNCHANGED <<limiter, batch, outcome, turns, tools>>

(* The server generates until a token that stops it or the model's length.  *)
Room(c) == MaxModelLen - prompt[c] - Len(mask[c])
Generation(c, n) == n <= Room(c)

(* Its max_tokens is below 1, which SamplingParams refuses: run raises.     *)
Refuse(c) ==
    /\ status[c] = "generating"
    /\ Room(c) <= 0
    /\ status' = [status EXCEPT ![c] = "raised"]
    /\ UNCHANGED <<limiter, batch, outcome, turns, manager, tools>>

Ones(n) == [i \in 1 .. n |-> 1]
Zeros(n) == [i \in 1 .. n |-> 0]

(* The response is long enough, or there were turns enough.                 *)
MustStop(c) ==
    \/ Len(mask'[c]) >= ResponseLength
    \/ MaxAssistantTurns # 0 /\ assistant_turns'[c] >= MaxAssistantTurns
    \/ MaxUserTurns # 0 /\ user_turns[c] >= MaxUserTurns

(* _call_tool until it waits: a call whose name or arguments are malformed  *)
(* answers with an exception, and a search without a list of queries with a *)
(* text, its instance released.                                             *)
AnswersAtOnce(t) == IF t = "search" THEN {"exception", "text"} ELSE {"exception"}
CallTools(c) ==
    \E called \in (SUBSET CallsOf(c)) \ {{}} :
        /\ \E t \in [called -> Tools] :
               /\ \E a \in [called -> {"waiting", "exception", "text"}] :
                      /\ \A x \in called :
                             a[x] # "waiting" => a[x] \in AnswersAtOnce(t[x])
                      /\ tool' = [x \in Callers |->
                                      IF x \in called /\ a[x] = "waiting"
                                      THEN t[x] ELSE tool[x]]
                      /\ answer' = [x \in Callers |-> IF x \in called THEN a[x]
                                                      ELSE answer[x]]
        /\ instances' = instances \cup {x \in called : answer'[x] = "waiting"}

(* The server answers: the response grows, and the conversation ends or     *)
(* calls tools.                                                             *)
Respond(c) ==
    /\ status[c] = "generating"
    /\ \E n \in 1 .. MaxGenerated :
           /\ Generation(c, n)
           /\ mask' = [mask EXCEPT ![c] = @ \o Ones(n)]
    /\ assistant_turns' = [assistant_turns EXCEPT ![c] = @ + 1]
    /\ \/ /\ status' = [status EXCEPT ![c] = "done"]
          /\ UNCHANGED tools
       \/ /\ ~MustStop(c)
          /\ CallTools(c)
          /\ status' = [status EXCEPT ![c] = "calling"]
    /\ UNCHANGED <<limiter, batch, outcome, user_turns, manager>>

-----------------------------------------------------------------------------
(* The pool of a tool runs the call on one of its threads.                  *)
Pool(t) == {x \in Callers : answer[x] = "executing" /\ tool[x] = t}

Execute(x) ==
    /\ answer[x] = "waiting"
    /\ Cardinality(Pool(tool[x])) < NumWorkers
    /\ SendAcquire(x)
    /\ answer' = [answer EXCEPT ![x] = "executing"]
    /\ UNCHANGED <<batch, outcome, status, turns, manager, tool, instances>>

(* The call's instance is released as it answers.                           *)
LeakOnException(x, a) ==
    /\ answer' = [answer EXCEPT ![x] = a]
    /\ instances' = IF a = "text" THEN instances \ {x} ELSE instances
    /\ tool' = [tool EXCEPT ![x] = "none"]
AnswerCall(x, a) ==
    /\ answer' = [answer EXCEPT ![x] = a]
    /\ instances' = instances \ {x}
    /\ tool' = [tool EXCEPT ![x] = "none"]

(* The function returns a text, or raises: the pool logs that and returns   *)
(* None.  The search tool fails to unpack it and answers with a text; for   *)
(* the sandbox _call_tool takes its length, and raises.                     *)
FunctionReturns(x) ==
    /\ SendRelease(x)
    /\ AnswerCall(x, "text")
    /\ UNCHANGED <<batch, outcome, status, turns, manager>>

FunctionRaises(x) ==
    /\ SendRelease(x)
    /\ AnswerCall(x, IF tool[x] = "search" THEN "text" ELSE "raised")
    /\ UNCHANGED <<batch, outcome, status, turns, manager>>

(* The limiter is dead: the pool raises, which the search tool answers with *)
(* a text and _call_tool with the exception.                                *)
ExecuteFails(x) ==
    /\ \/ FailAcquire(x)
       \/ ~alive /\ answer[x] = "waiting" /\ UNCHANGED limiter
    /\ AnswerCall(x, IF tool[x] = "search" THEN "text" ELSE "exception")
    /\ UNCHANGED <<batch, outcome, status, turns, manager>>

(* The tools have answered: a conversation with an exception among the      *)
(* answers ends, and one that would have no room to generate.               *)
EndWithTool(c, n) == Len(mask[c]) + n > ResponseLength
HasNoRoom(c, n) == Len(mask[c]) + n >= ResponseLength

GatherAnswers(c) ==
    /\ status[c] = "calling"
    /\ \A x \in CallsOf(c) : answer[x] \in {"none", "text", "exception"}
    /\ answer' = [x \in Callers |-> IF x \in CallsOf(c) THEN "none"
                                    ELSE answer[x]]
    /\ \/ /\ \E x \in CallsOf(c) : answer[x] = "exception"
          /\ status' = [status EXCEPT ![c] = "done"]
          /\ UNCHANGED turns
       \/ /\ \A x \in CallsOf(c) : answer[x] # "exception"
          /\ \E n \in 1 .. MaxToolTokens :
                 \/ /\ HasNoRoom(c, n)
                    /\ status' = [status EXCEPT ![c] = "done"]
                    /\ UNCHANGED turns
                 \/ /\ ~HasNoRoom(c, n)
                    /\ mask' = [mask EXCEPT ![c] = @ \o Zeros(n)]
                    /\ user_turns' = [user_turns EXCEPT ![c] = @ + 1]
                    /\ status' = [status EXCEPT ![c] = "ready"]
                    /\ UNCHANGED assistant_turns
    /\ UNCHANGED <<limiter, batch, outcome, manager, tool, instances>>

(* One of the calls raises: so does run, and the other calls go on.         *)
RaiseFromTool(c) ==
    /\ status[c] = "calling"
    /\ \E x \in CallsOf(c) : answer[x] = "raised"
    /\ status' = [status EXCEPT ![c] = "raised"]
    /\ UNCHANGED <<limiter, batch, outcome, turns, manager, tools>>

-----------------------------------------------------------------------------
Converse(c) ==
    \/ AskServer(c) \/ Respond(c) \/ Refuse(c)
    \/ GatherAnswers(c) \/ RaiseFromTool(c)
Call(x) == Execute(x) \/ FunctionReturns(x) \/ FunctionRaises(x) \/ ExecuteFails(x)
Limit == ActorStep /\ UNCHANGED <<batch, outcome, status, turns, manager, tools>>

Progress ==
    /\ \/ StartBatch
       \/ GatherOutputs
       \/ PostprocessRaises
       \/ GatherException
       \/ \E c \in Conversations : Converse(c)
       \/ \E x \in Callers : Call(x)
       \/ Limit
    /\ UNCHANGED prompt

LoseLimiter ==
    LimiterDies /\ UNCHANGED <<prompt, batch, outcome, status, turns, manager, tools>>

Next == Progress \/ LoseLimiter

(* The servers answer, functions return or time out, and the event loop and *)
(* the actors take what is there.                                           *)
Spec == Init /\ [][Next]_vars /\ WF_vars(Progress)

-----------------------------------------------------------------------------
(* _postprocess is given the first ResponseLength tokens.                   *)
Output(c) == SubSeq(mask[c], 1, IF Len(mask[c]) < ResponseLength
                                THEN Len(mask[c]) ELSE ResponseLength)

(* However a conversation ends, its output ends with a token of the model,  *)
(* which carries the reward, and after one turn more of the assistant than  *)
(* of the tools.                                                            *)
ModelHasTheLastWord ==
    \A c \in Conversations :
        status[c] = "done" =>
            /\ Output(c)[Len(Output(c))] = 1
            /\ assistant_turns[c] = user_turns[c] + 1

(* No conversation with a prompt that leaves room for a full response is    *)
(* refused, whatever tools answer: it asks for at least one token.  Nothing *)
(* keeps longer prompts out; Refuse ends their batches.                     *)
RoomToGenerate ==
    \A c \in Conversations :
        /\ status[c] = "generating"
        /\ prompt[c] + ResponseLength <= MaxModelLen
        => Room(c) > 0

(* When a batch is returned none of its calls executes or holds a token,    *)
(* and every instance created for it is released.                           *)
NothingIsLeft ==
    outcome = "returned" =>
        /\ Executing = {}
        /\ instances = {}

(* A conversation stays with its server from turn to turn, if the mapping   *)
(* holds a batch.                                                           *)
StaysWithServer ==
    [][BatchSize <= CacheSize =>
           \A c \in Conversations :
               server'[c] # server[c] => assistant_turns[c] = 0]_vars

(* The count never shrinks; still each server has its share of every batch, *)
(* though conversations take as many turns as they like.                    *)
Started == {c \in Batch : status[c] \notin {"idle", "ready"}
                          \/ assistant_turns[c] > 0}
EachServerHasItsShare ==
    (BatchSize <= CacheSize /\ BatchSize % Cardinality(Servers) = 0) =>
        \A s \in Servers :
            Cardinality({c \in Started : server[c] = s})
                <= BatchSize \div Cardinality(Servers)

(* Every batch is returned or raises, with the limiter dead or alive, and   *)
(* the tokens of its calls come back, those of orphans too.                 *)
BatchesEnd ==
    <>[](/\ outcome = "raised" \/ (outcome = "returned" /\ batch = NBatches)
         /\ alive => permits = RateLimit)

(* base_tool.py: a tool's response is a str, so that a failing tool is for  *)
(* the model to read and the batch goes on.                                 *)
BatchSurvives == outcome # "raised"

=============================================================================
