--------------------------- MODULE AgentLoop_proofs ---------------------------
(***************************************************************************)
(* Proofs about the agent loop and the rate limiter under it, for every    *)
(* number of conversations, servers, calls and tokens.                     *)
(*                                                                         *)
(* The first part is about the limiter alone: it conserves its tokens and  *)
(* so respects its rate, in every order in which the actor receives the    *)
(* acquire and release calls, and after its death.  The second shows that  *)
(* the agent loop uses the limiter as its specification says.  The third   *)
(* gives the inductive invariant of the loop itself.                       *)
(***************************************************************************)
EXTENDS AgentLoop, FiniteSetTheorems, FunctionTheorems, SequenceTheorems, TLAPS

(* The queue of a living actor holds calls that wait, each of them once: a  *)
(* token is never given to a call that already has one.                     *)
QueueIsWaiting ==
    /\ ~alive => acquires = <<>>
    /\ \A i \in 1 .. Len(acquires) : stage[acquires[i]] = "queued"
    /\ \A i, j \in 1 .. Len(acquires) : acquires[i] = acquires[j] => i = j

LimiterInv ==
    /\ LimiterTypeOK
    /\ QueueIsWaiting
    /\ TokensAreConserved
    /\ RateIsRespected

(* One more call runs, or one fewer.                                        *)
LEMMA RunningIsFinite == IsFiniteSet(Running) /\ Cardinality(Running) \in Nat
PROOF
  <1>1. Running \subseteq Callers
    BY DEF Running
  <1> QED BY <1>1, LimiterAssumption, FS_Subset, FS_CardinalityType

(* A call that gets its token runs.                                         *)
LEMMA OneMoreRuns ==
  ASSUME LimiterTypeOK, NEW c \in Callers, stage[c] # "running",
         stage' = [stage EXCEPT ![c] = "running"]
  PROVE  Cardinality(Running') = Cardinality(Running) + 1
PROOF
  <1>1. Running' = Running \cup {c} /\ c \notin Running
    BY DEF LimiterTypeOK, Running
  <1> QED BY <1>1, RunningIsFinite, FS_AddElement

(* One that has finished does not.                                          *)
LEMMA OneFewerRuns ==
  ASSUME LimiterTypeOK, NEW c \in Callers, stage[c] = "running",
         stage' = [stage EXCEPT ![c] = "idle"]
  PROVE  Cardinality(Running') = Cardinality(Running) - 1
PROOF
  <1>1. Running' = Running \ {c} /\ c \in Running
    BY DEF LimiterTypeOK, Running
  <1> QED BY <1>1, RunningIsFinite, FS_RemoveElement

(* No other step of a call changes who runs.                                *)
LEMMA SameRun ==
  ASSUME LimiterTypeOK, NEW c \in Callers, NEW s \in {"idle", "queued"},
         stage[c] # "running", stage' = [stage EXCEPT ![c] = s]
  PROVE  Running' = Running
  BY DEF LimiterTypeOK, Running

(* The actor serves a call that waits for it.                               *)
LEMMA HeadIsWaiting ==
  ASSUME LimiterTypeOK, QueueIsWaiting, acquires # <<>>
  PROVE  Head(acquires) \in Callers /\ stage[Head(acquires)] = "queued"
  BY DEF LimiterTypeOK, QueueIsWaiting

-----------------------------------------------------------------------------
(* No call is made at first, and all tokens are free.                       *)
LEMMA LimiterInitial == LimiterInit => LimiterInv
PROOF
  <1> SUFFICES ASSUME LimiterInit PROVE LimiterInv
    OBVIOUS
  <1>1. LimiterTypeOK
    BY LimiterAssumption DEF LimiterInit, LimiterTypeOK, Stages
  <1>2. QueueIsWaiting
    BY DEF LimiterInit, QueueIsWaiting
  <1>3. Running = {}
    BY DEF LimiterInit, Running
  <1>4. Cardinality(Running) = 0
    BY <1>3, FS_EmptySet
  <1> QED
    BY <1>1, <1>2, <1>4, LimiterAssumption
       DEF LimiterInv, LimiterInit, TokensAreConserved, RateIsRespected

(* A call joins the queue once.                                             *)
LEMMA SendAcquireKeeps ==
  ASSUME LimiterInv, NEW c \in Callers, SendAcquire(c)
  PROVE  LimiterInv'
PROOF
  <1>1. LimiterTypeOK /\ QueueIsWaiting
    BY DEF LimiterInv
  <1>2. LimiterTypeOK'
    BY <1>1 DEF SendAcquire, LimiterTypeOK, Stages
  <1>3. QueueIsWaiting'
    <2>1. \A i \in 1 .. Len(acquires) : acquires[i] # c
      BY <1>1 DEF SendAcquire, QueueIsWaiting
    <2>2. /\ acquires' = Append(acquires, c) /\ alive'
          /\ stage' = [stage EXCEPT ![c] = "queued"]
      BY DEF SendAcquire
    <2>3. /\ Len(acquires') = Len(acquires) + 1
          /\ acquires'[Len(acquires) + 1] = c
          /\ \A i \in 1 .. Len(acquires) : acquires'[i] = acquires[i]
      BY <1>1, <2>2 DEF LimiterTypeOK
    <2>4. Len(acquires) \in Nat
          /\ \A i \in 1 .. Len(acquires) : acquires[i] \in Callers
      BY <1>1 DEF LimiterTypeOK
    <2> QED BY <1>1, <2>1, <2>2, <2>3, <2>4 DEF QueueIsWaiting, LimiterTypeOK
  <1>4. Running' = Running
    BY <1>1, SameRun DEF SendAcquire
  <1>5. permits' = permits /\ releases' = releases /\ alive' = alive
    BY DEF SendAcquire
  <1> QED
    BY <1>2, <1>3, <1>4, <1>5
       DEF LimiterInv, TokensAreConserved, RateIsRespected

(* The actor gives a free token to the head of the queue.                   *)
LEMMA TakeTokenKeeps ==
  ASSUME LimiterInv, TakeToken
  PROVE  LimiterInv'
PROOF
  <1> DEFINE c == Head(acquires)
  <1>1. LimiterTypeOK /\ QueueIsWaiting /\ TokensAreConserved
    BY DEF LimiterInv
  <1>2. /\ alive /\ alive' /\ acquires # <<>> /\ permits > 0
        /\ permits' = permits - 1 /\ releases' = releases
        /\ stage' = [stage EXCEPT ![c] = "running"]
        /\ acquires' = Tail(acquires)
    BY DEF TakeToken
  <1>3. c \in Callers /\ stage[c] = "queued"
    BY <1>1, <1>2, HeadIsWaiting
  <1>4. LimiterTypeOK'
    BY <1>1, <1>2, <1>3 DEF LimiterTypeOK, Stages
  <1>5. QueueIsWaiting'
    <2>1. /\ Len(acquires') = Len(acquires) - 1
          /\ \A i \in 1 .. Len(acquires') : acquires'[i] = acquires[i + 1]
          /\ Len(acquires) \in Nat \ {0}
          /\ acquires[1] = c
      BY <1>1, <1>2 DEF LimiterTypeOK
    <2>2. \A i \in 1 .. Len(acquires') :
              acquires'[i] \in Callers /\ acquires'[i] # c
      BY <1>1, <2>1 DEF LimiterTypeOK, QueueIsWaiting
    <2>3. \A i \in 1 .. Len(acquires') : stage'[acquires'[i]] = "queued"
      BY <1>1, <1>2, <2>1, <2>2 DEF LimiterTypeOK, QueueIsWaiting
    <2>4. \A i, j \in 1 .. Len(acquires') :
              acquires'[i] = acquires'[j] => i = j
      BY <1>1, <2>1 DEF QueueIsWaiting
    <2> QED BY <1>2, <2>3, <2>4 DEF QueueIsWaiting
  <1>6. Cardinality(Running') = Cardinality(Running) + 1
    BY <1>1, <1>2, <1>3, OneMoreRuns
  <1>7. TokensAreConserved' /\ RateIsRespected'
    BY <1>1, <1>2, <1>6, RunningIsFinite, LimiterAssumption
       DEF LimiterTypeOK, TokensAreConserved, RateIsRespected
  <1> QED BY <1>4, <1>5, <1>7 DEF LimiterInv

(* A call that has run sends its token back.                                *)
LEMMA SendReleaseKeeps ==
  ASSUME LimiterInv, NEW c \in Callers, SendRelease(c)
  PROVE  LimiterInv'
PROOF
  <1>1. LimiterTypeOK /\ QueueIsWaiting /\ TokensAreConserved /\ RateIsRespected
    BY DEF LimiterInv
  <1>2. /\ stage[c] = "running" /\ stage' = [stage EXCEPT ![c] = "idle"]
        /\ releases' = releases + 1
        /\ permits' = permits /\ acquires' = acquires /\ alive' = alive
    BY DEF SendRelease
  <1>3. LimiterTypeOK'
    BY <1>1, <1>2 DEF LimiterTypeOK, Stages
  <1>4. QueueIsWaiting'
    BY <1>1, <1>2 DEF LimiterTypeOK, QueueIsWaiting
  <1>5. Cardinality(Running') = Cardinality(Running) - 1
    BY <1>1, <1>2, OneFewerRuns
  <1>6. RateIsRespected'
    BY <1>1, <1>5, RunningIsFinite, LimiterAssumption DEF RateIsRespected
  <1>7. TokensAreConserved'
    <2>1. CASE alive
      BY <1>1, <1>2, <1>5, <2>1, RunningIsFinite
         DEF LimiterTypeOK, TokensAreConserved
    <2>2. CASE ~alive
      BY <1>2, <2>2 DEF TokensAreConserved
    <2> QED BY <2>1, <2>2
  <1> QED BY <1>3, <1>4, <1>6, <1>7 DEF LimiterInv

(* A call that fails has no token.                                          *)
LEMMA FailAcquireKeeps ==
  ASSUME LimiterInv, NEW c \in Callers, FailAcquire(c)
  PROVE  LimiterInv'
PROOF
  <1>1. LimiterTypeOK /\ QueueIsWaiting
    BY DEF LimiterInv
  <1>2. LimiterTypeOK'
    BY <1>1 DEF FailAcquire, LimiterTypeOK, Stages
  <1>3. QueueIsWaiting'
    BY <1>1 DEF FailAcquire, QueueIsWaiting
  <1>4. Running' = Running
    BY <1>1, SameRun DEF FailAcquire
  <1> QED
    BY <1>2, <1>3, <1>4
       DEF FailAcquire, LimiterInv, TokensAreConserved, RateIsRespected

(* Returning a token, and the death of the actor, change no call.           *)
LEMMA OthersKeep ==
  ASSUME LimiterInv, ReturnToken \/ LimiterDies \/ UNCHANGED limiter
  PROVE  LimiterInv'
PROOF
  <1>1. LimiterTypeOK /\ QueueIsWaiting
    BY DEF LimiterInv
  <1>2. Running' = Running
    BY DEF ReturnToken, LimiterDies, limiter, Running
  <1>3. LimiterTypeOK'
    <2>1. CASE ReturnToken
      BY <1>1, <2>1 DEF ReturnToken, LimiterTypeOK
    <2>2. CASE LimiterDies
      <3>1. acquires' \in Seq(Callers)
        <4>1. <<>> \in Seq(Callers)
          OBVIOUS
        <4> QED BY <2>2, <4>1 DEF LimiterDies
      <3>2. alive' \in BOOLEAN
        BY <2>2 DEF LimiterDies
      <3> QED BY <1>1, <2>2, <3>1, <3>2 DEF LimiterDies, LimiterTypeOK
    <2>3. CASE UNCHANGED limiter
      BY <1>1, <2>3 DEF limiter, LimiterTypeOK
    <2> QED BY <2>1, <2>2, <2>3
  <1>4. QueueIsWaiting'
    BY <1>1 DEF ReturnToken, LimiterDies, limiter, QueueIsWaiting
  <1>5. TokensAreConserved' /\ RateIsRespected'
    BY <1>1, <1>2, RunningIsFinite
       DEF ReturnToken, LimiterDies, limiter, LimiterTypeOK, LimiterInv,
           TokensAreConserved, RateIsRespected
  <1> QED BY <1>3, <1>4, <1>5 DEF LimiterInv

(* The steps together.                                                      *)
LEMMA LimiterStep == LimiterInv /\ [LimiterNext]_limiter => LimiterInv'
  BY SendAcquireKeeps, TakeTokenKeeps, SendReleaseKeeps, FailAcquireKeeps,
     OthersKeep
     DEF LimiterNext, ActorStep

(* The tokens are conserved.                                                *)
THEOREM Conserved == LimiterSpec => []TokensAreConserved
PROOF
  <1>1. LimiterInv => TokensAreConserved
    BY DEF LimiterInv
  <1> QED BY LimiterInitial, LimiterStep, <1>1, PTL DEF LimiterSpec

(* The rate is respected, also by calls that outlive the actor.             *)
THEOREM RateRespected == LimiterSpec => []RateIsRespected
PROOF
  <1>1. LimiterInv => RateIsRespected
    BY DEF LimiterInv
  <1> QED BY LimiterInitial, LimiterStep, <1>1, PTL DEF LimiterSpec

-----------------------------------------------------------------------------
(* The calls of the conversations use the limiter as callers do: whatever   *)
(* the loop does is a step of the limiter, or leaves it alone.              *)
LEMMA StepOfLimiter == [Next]_vars => [LimiterNext]_limiter
PROOF
  <1> SUFFICES ASSUME [Next]_vars PROVE [LimiterNext]_limiter
    OBVIOUS
  <1>1. CASE UNCHANGED vars
    BY <1>1 DEF vars
  <1>2. CASE StartBatch \/ GatherOutputs \/ PostprocessRaises \/ GatherException
    BY <1>2 DEF StartBatch, GatherOutputs, PostprocessRaises, GatherException
  <1>3. ASSUME NEW c \in Conversations, Converse(c)
        PROVE  UNCHANGED limiter
    BY <1>3
       DEF Converse, AskServer, Respond, Refuse, GatherAnswers, RaiseFromTool
  <1>4. ASSUME NEW x \in Callers, Call(x)
        PROVE  [LimiterNext]_limiter
    BY <1>4
       DEF Call, Execute, FunctionReturns, FunctionRaises, ExecuteFails,
           LimiterNext
  <1>5. CASE Limit \/ LoseLimiter
    BY <1>5 DEF Limit, LoseLimiter, LimiterNext
  <1> QED BY <1>1, <1>2, <1>3, <1>4, <1>5 DEF Next, Progress

(* AgentLoop implements LimiterSpec.                                        *)
THEOREM LoopUsesLimiter == Spec => LimiterSpec
PROOF
  <1>1. Init => LimiterInit
    BY DEF Init
  <1> QED BY <1>1, StepOfLimiter, PTL DEF Spec, LimiterSpec

(* However conversations interleave, tools fail and orphans of a batch that *)
(* raised go on, the tokens are conserved and the rate respected.           *)
THEOREM LoopConserves == Spec => []TokensAreConserved
  BY LoopUsesLimiter, Conserved, PTL

(* No more calls of the loop run at once than the limiter was made for.     *)
THEOREM LoopRespectsRate == Spec => []RateIsRespected
  BY LoopUsesLimiter, RateRespected, PTL

-----------------------------------------------------------------------------
(* The inductive invariant of the loop.                                     *)
LoopTypeOK ==
    /\ prompt \in Prompts
    /\ batch \in 0 .. NBatches
    /\ outcome \in {"running", "returned", "raised"}
    /\ status \in [Conversations -> Statuses]
    /\ mask \in [Conversations -> Seq({0, 1})]
    /\ assistant_turns \in [Conversations -> Nat]
    /\ user_turns \in [Conversations -> Nat]
    /\ load \in [Servers -> Nat]
    /\ recent \in Seq(Conversations) /\ Len(recent) <= CacheSize
    /\ server \in [Conversations -> Servers]
    /\ tool \in [Callers -> Tools \cup {"none"}]
    /\ answer \in [Callers -> Answers]
    /\ instances \subseteq Callers

(* Tasks exist for the conversations of the current batch alone, until it   *)
(* is returned.                                                             *)
BatchOf(c) == (c - 1) \div BatchSize + 1
BatchesInOrder ==
    \A c \in Conversations :
        /\ BatchOf(c) > batch => status[c] = "idle"
        /\ BatchOf(c) < batch => status[c] = "returned"
        /\ BatchOf(c) = batch =>
               (outcome = "returned" <=> status[c] \in {"idle", "returned"})
        /\ BatchOf(c) = batch => status[c] # "idle"

(* The assistant has had as many turns as the tools before it is asked, and *)
(* one more after, when the response ends with its token; a response that   *)
(* goes on is shorter than allowed, and no other exceeds the model's length *)
(* with its prompt.                                                         *)
LastOf(c) == IF Len(mask[c]) < ResponseLength THEN Len(mask[c])
             ELSE ResponseLength
TurnsAlternate ==
    \A c \in Conversations :
        /\ status[c] \in {"idle", "returned"} =>
               mask[c] = <<>> /\ assistant_turns[c] = 0 /\ user_turns[c] = 0
        /\ status[c] \in {"ready", "generating"} =>
               assistant_turns[c] = user_turns[c]
        /\ status[c] \in {"calling", "done"} =>
               /\ assistant_turns[c] = user_turns[c] + 1
               /\ Len(mask[c]) > 0
               /\ mask[c][LastOf(c)] = 1
        /\ status[c] \in {"ready", "generating", "calling"} =>
               Len(mask[c]) < ResponseLength
        /\ user_turns[c] <= assistant_turns[c]
        /\ assistant_turns[c] <= LastOf(c)
        /\ \/ Len(mask[c]) + prompt[c] <= MaxModelLen
           \/ Len(mask[c]) < ResponseLength

(* A call executes exactly while a thread runs it, has an instance until it *)
(* answers, and belongs to a conversation that waits for it, or that raised *)
(* and does not wait.                                                       *)
CallsAreAwaited ==
    /\ \A x \in Callers : answer[x] = "executing" <=> stage[x] # "idle"
    /\ \A x \in Callers :
           x \in instances <=> answer[x] \in {"waiting", "executing"}
    /\ \A c \in Conversations :
           status[c] \notin {"calling", "raised"} =>
               \A x \in CallsOf(c) : answer[x] = "none"

-----------------------------------------------------------------------------
(* Conversations, batches and calls.                                        *)
LEMMA Sizes ==
  /\ BatchSize \in Nat \ {0} /\ NBatches \in Nat \ {0} /\ CacheSize \in Nat \ {0}
  /\ PromptLength \in Nat \ {0} /\ ResponseLength \in Nat \ {0}
  /\ MaxGenerated \in Nat \ {0} /\ MaxToolTokens \in Nat \ {0}
  /\ MaxModelLen \in Nat
  BY AgentLoopAssumption DEF MaxModelLen

(* Every prompt has a length, whatever it is.                               *)
LEMMA PromptsAre ==
  ASSUME LoopTypeOK
  PROVE  \A c \in Conversations : prompt[c] \in Nat \ {0}
  BY AgentLoopAssumption DEF LoopTypeOK

(* Batches are counted from 1.                                              *)
LEMMA BatchOfType == \A c \in Conversations : c \in Nat \ {0} /\ BatchOf(c) \in Nat \ {0}
PROOF
  <1> SUFFICES ASSUME NEW c \in Conversations
               PROVE  c \in Nat \ {0} /\ BatchOf(c) \in Nat \ {0}
    OBVIOUS
  <1>1. c - 1 \in Nat /\ c \in Nat \ {0}
    BY Sizes DEF Conversations
  <1>2. (c - 1) \div BatchSize \in Nat
    BY <1>1, Sizes
  <1> QED BY <1>1, <1>2 DEF BatchOf

(* The conversations of the current batch.                                  *)
LEMMA BatchIs == /\ Batch = {c \in Conversations : BatchOf(c) = batch}
                 /\ Batch' = {c \in Conversations : BatchOf(c) = batch'}
  BY DEF Batch, BatchOf

(* Every call is of one conversation.                                       *)
LEMMA CallsOfConversations ==
  /\ \A c \in Conversations : CallsOf(c) \subseteq Callers
  /\ \A c, d \in Conversations : c # d => CallsOf(c) \cap CallsOf(d) = {}
  /\ \A x \in Callers : \E c \in Conversations : x \in CallsOf(c)
PROOF
  <1>1. Callers = Conversations \X Calls
    BY AgentLoopAssumption
  <1> QED BY <1>1 DEF CallsOf

(* A mask of generated tokens is as long as they are many.                  *)
LEMMA OnesAre == \A n \in Nat : /\ Ones(n) \in Seq({0, 1}) /\ Len(Ones(n)) = n
                                /\ \A i \in 1 .. n : Ones(n)[i] = 1
  BY DEF Ones
(* So is one of tokens that tools answered.                                 *)
LEMMA ZerosAre == \A n \in Nat : Zeros(n) \in Seq({0, 1}) /\ Len(Zeros(n)) = n
  BY DEF Zeros

(* Removing an element of a sequence closes the gap.                        *)
LEMMA RemoveAtIs ==
  ASSUME NEW S, NEW s \in Seq(S), NEW i \in 1 .. Len(s)
  PROVE  /\ RemoveAt(s, i) \in Seq(S)
         /\ Len(RemoveAt(s, i)) = Len(s) - 1
         /\ \A j \in 1 .. i - 1 : RemoveAt(s, i)[j] = s[j]
         /\ \A j \in i .. Len(s) - 1 : RemoveAt(s, i)[j] = s[j + 1]
PROOF
  <1> DEFINE l == SubSeq(s, 1, i - 1)
             r == SubSeq(s, i + 1, Len(s))
  <1>1. Len(s) \in Nat
    OBVIOUS
  <1>2. /\ l \in Seq(S) /\ Len(l) = i - 1
        /\ \A j \in 1 .. i - 1 : l[j] = s[j]
    <2>1. \A k \in 1 .. i - 1 : s[k] \in S
      OBVIOUS
    <2>2. Len(l) = i - 1 /\ l \in Seq(S)
      BY <1>1, <2>1, SubSeqProperties
    <2>3. \A j \in 1 .. i - 1 : l[j] = s[j]
      OBVIOUS
    <2> QED BY <2>2, <2>3
  <1>3. /\ r \in Seq(S) /\ Len(r) = Len(s) - i
        /\ \A j \in 1 .. Len(s) - i : r[j] = s[i + j]
    <2>1. \A k \in i + 1 .. Len(s) : s[k] \in S
      OBVIOUS
    <2>2. Len(r) = Len(s) - i /\ r \in Seq(S)
      BY <1>1, <2>1, SubSeqProperties
    <2>3. \A j \in 1 .. Len(s) - i : r[j] = s[i + j]
      BY <1>1
    <2> QED BY <2>2, <2>3
  <1> HIDE DEF l, r
  <1>4. l \o r \in Seq(S) /\ Len(l \o r) = Len(s) - 1
    <2>1. l \o r \in Seq(S) /\ Len(l \o r) = Len(l) + Len(r)
      BY <1>2, <1>3, ConcatProperties
    <2> QED BY <2>1, <1>1, <1>2, <1>3
  <1>5. \A k \in 1 .. Len(l) + Len(r) :
            (l \o r)[k] = IF k <= Len(l) THEN l[k] ELSE r[k - Len(l)]
    BY <1>2, <1>3, ConcatProperties
  <1>6. \A j \in 1 .. i - 1 : (l \o r)[j] = s[j]
    BY <1>1, <1>2, <1>3, <1>5
  <1>7. ASSUME NEW j \in i .. Len(s) - 1
        PROVE  (l \o r)[j] = s[j + 1]
    <2>1. (l \o r)[j] = r[j - (i - 1)]
      BY <1>1, <1>2, <1>3, <1>5
    <2>2. j - (i - 1) \in 1 .. Len(s) - i /\ i + (j - (i - 1)) = j + 1
      BY <1>1
    <2>3. \A m \in 1 .. Len(s) - i : r[m] = s[i + m]
      BY <1>3
    <2>4. r[j - (i - 1)] = s[i + (j - (i - 1))]
      BY <2>2, <2>3
    <2> QED BY <2>1, <2>2, <2>4
  <1> QED
    BY <1>4, <1>6, <1>7 DEF RemoveAt, l, r

(* _choose_server moves a conversation to the end of the mapping, or adds   *)
(* it there, the first one being dropped when there is no room.             *)
LEMMA TouchIs ==
  ASSUME LoopTypeOK, NEW c \in Conversations, IsCached(c)
  PROVE  \E i \in 1 .. Len(recent) :
             /\ recent[i] = c
             /\ Touch(c) \in Seq(Conversations)
             /\ Len(Touch(c)) = Len(recent)
             /\ Touch(c)[Len(recent)] = c
             /\ \A j \in 1 .. i - 1 : Touch(c)[j] = recent[j]
             /\ \A j \in i .. Len(recent) - 1 : Touch(c)[j] = recent[j + 1]
PROOF
  <1> DEFINE i == Position(c)
             r == RemoveAt(recent, i)
  <1>1. recent \in Seq(Conversations) /\ Len(recent) \in Nat
        /\ DOMAIN recent = 1 .. Len(recent)
    BY DEF LoopTypeOK
  <1>2. i \in 1 .. Len(recent) /\ recent[i] = c
    BY <1>1 DEF IsCached, Position
  <1>3. Touch(c) = Append(r, c)
    BY DEF Touch
  <1> HIDE DEF i
  <1>4. /\ r \in Seq(Conversations) /\ Len(r) = Len(recent) - 1
        /\ \A j \in 1 .. i - 1 : r[j] = recent[j]
        /\ \A j \in i .. Len(recent) - 1 : r[j] = recent[j + 1]
    BY <1>1, <1>2, RemoveAtIs
  <1> HIDE DEF r
  <1>5. /\ Touch(c) \in Seq(Conversations) /\ Len(Touch(c)) = Len(r) + 1
        /\ \A j \in 1 .. Len(r) : Touch(c)[j] = r[j]
        /\ Touch(c)[Len(r) + 1] = c
    BY <1>3, <1>4, AppendProperties
  <1> QED BY <1>1, <1>2, <1>4, <1>5

(* What is asked for becomes the last entry of the mapping; the first one   *)
(* leaves if the mapping is full.                                           *)
LEMMA InsertIs ==
  ASSUME LoopTypeOK, NEW c \in Conversations
  PROVE  \E k \in {0, 1} :
             /\ k = 0 => Len(recent) < CacheSize
             /\ k = 1 => Len(recent) = CacheSize
             /\ Insert(c) \in Seq(Conversations)
             /\ Len(Insert(c)) = Len(recent) + 1 - k
             /\ Insert(c)[Len(recent) + 1 - k] = c
             /\ \A j \in 1 .. Len(recent) - k : Insert(c)[j] = recent[j + k]
PROOF
  <1>1. recent \in Seq(Conversations) /\ Len(recent) \in Nat
        /\ Len(recent) <= CacheSize
    BY DEF LoopTypeOK
  <1>2. CASE Len(recent) < CacheSize
    <2>1. Insert(c) = Append(recent, c)
      BY <1>2 DEF Insert
    <2>2. /\ Insert(c) \in Seq(Conversations) /\ Len(Insert(c)) = Len(recent) + 1
          /\ \A j \in 1 .. Len(recent) : Insert(c)[j] = recent[j]
          /\ Insert(c)[Len(recent) + 1] = c
      BY <1>1, <2>1, AppendProperties
    <2> WITNESS 0 \in {0, 1}
    <2> QED BY <1>1, <1>2, <2>2
  <1>3. CASE Len(recent) >= CacheSize
    <2> DEFINE t == Tail(recent)
    <2>1. Insert(c) = Append(t, c) /\ recent # <<>>
      BY <1>1, <1>3, Sizes DEF Insert
    <2>2. /\ t \in Seq(Conversations) /\ Len(t) = Len(recent) - 1
          /\ \A j \in 1 .. Len(t) : t[j] = recent[j + 1]
      BY <1>1, <2>1, HeadTailProperties
    <2> HIDE DEF t
    <2>3. /\ Insert(c) \in Seq(Conversations) /\ Len(Insert(c)) = Len(t) + 1
          /\ \A j \in 1 .. Len(t) : Insert(c)[j] = t[j]
          /\ Insert(c)[Len(t) + 1] = c
      BY <2>1, <2>2, AppendProperties
    <2> WITNESS 1 \in {0, 1}
    <2> QED BY <1>1, <1>3, <2>2, <2>3, Sizes
  <1> QED BY <1>1, <1>2, <1>3, Sizes

-----------------------------------------------------------------------------
(* The types.                                                               *)
LEMMA AskTypes ==
  ASSUME LoopTypeOK, NEW c \in Conversations, AskServer(c), UNCHANGED prompt
  PROVE  LoopTypeOK'
PROOF
  <1>1. status' \in [Conversations -> Statuses]
    BY DEF AskServer, LoopTypeOK, Statuses
  <1>2. /\ load' \in [Servers -> Nat] /\ server' \in [Conversations -> Servers]
        /\ recent' \in Seq(Conversations) /\ Len(recent') <= CacheSize
    <2>1. CASE IsCached(c)
      <3>1. recent' = Touch(c) /\ UNCHANGED <<load, server>>
        BY <2>1 DEF AskServer, ChooseServer
      <3> QED BY <2>1, <3>1, TouchIs DEF LoopTypeOK
    <2>2. CASE ~IsCached(c)
      <3>1. PICK s \in Servers :
                /\ load' = [load EXCEPT ![s] = @ + 1]
                /\ server' = [server EXCEPT ![c] = s]
                /\ recent' = Insert(c)
        BY <2>2 DEF AskServer, ChooseServer, LeastLoaded
      <3>2. Insert(c) \in Seq(Conversations) /\ Len(Insert(c)) <= CacheSize
        <4>1. Len(recent) \in Nat /\ Len(recent) <= CacheSize
          BY DEF LoopTypeOK
        <4> QED BY <4>1, InsertIs, Sizes
      <3> QED BY <3>1, <3>2 DEF LoopTypeOK
    <2> QED BY <2>1, <2>2
  <1> QED BY <1>1, <1>2 DEF AskServer, LoopTypeOK, turns, tools

(* A response lengthens the mask within its limit.                          *)
LEMMA RespondTypes ==
  ASSUME LoopTypeOK, NEW c \in Conversations, Respond(c), UNCHANGED prompt
  PROVE  LoopTypeOK'
PROOF
  <1>1. PICK n \in 1 .. MaxGenerated : mask' = [mask EXCEPT ![c] = @ \o Ones(n)]
    BY DEF Respond
  <1>2. mask' \in [Conversations -> Seq({0, 1})]
    <2>1. n \in Nat
      BY Sizes
    <2>2. mask[c] \in Seq({0, 1}) /\ Ones(n) \in Seq({0, 1})
      BY <2>1, OnesAre DEF LoopTypeOK
    <2>3. mask[c] \o Ones(n) \in Seq({0, 1})
      BY <2>2, ConcatProperties
    <2> QED BY <1>1, <2>3 DEF LoopTypeOK
  <1>3. status' \in [Conversations -> Statuses]
    BY DEF Respond, LoopTypeOK, Statuses
  <1>4. assistant_turns' \in [Conversations -> Nat]
    BY DEF Respond, LoopTypeOK
  <1>5. /\ tool' \in [Callers -> Tools \cup {"none"}]
        /\ answer' \in [Callers -> Answers] /\ instances' \subseteq Callers
    <2>1. CASE UNCHANGED tools
      BY <2>1 DEF tools, LoopTypeOK
    <2>2. CASE CallTools(c)
      <3>1. PICK called \in SUBSET CallsOf(c) :
                \E t \in [called -> Tools],
                   a \in [called -> {"waiting", "exception", "text"}] :
                    /\ tool' = [x \in Callers |->
                                    IF x \in called /\ a[x] = "waiting"
                                    THEN t[x] ELSE tool[x]]
                    /\ answer' = [x \in Callers |-> IF x \in called THEN a[x]
                                                    ELSE answer[x]]
                    /\ instances' = instances
                                      \cup {x \in called : answer'[x] = "waiting"}
        BY <2>2 DEF CallTools
      <3>2. called \subseteq Callers
        BY CallsOfConversations
      <3> QED BY <3>1, <3>2 DEF LoopTypeOK, Answers
    <2> QED BY <2>1, <2>2 DEF Respond
  <1> QED BY <1>2, <1>3, <1>4, <1>5 DEF Respond, LoopTypeOK, manager

(* Answers lengthen the mask, or end the conversation.                      *)
LEMMA GatherTypes ==
  ASSUME LoopTypeOK, NEW c \in Conversations, GatherAnswers(c), UNCHANGED prompt
  PROVE  LoopTypeOK'
PROOF
  <1>1. status' \in [Conversations -> Statuses]
    BY DEF GatherAnswers, LoopTypeOK, Statuses
  <1>2. answer' \in [Callers -> Answers]
    BY DEF GatherAnswers, LoopTypeOK, Answers
  <1>3. /\ mask' \in [Conversations -> Seq({0, 1})]
        /\ user_turns' \in [Conversations -> Nat]
        /\ assistant_turns' = assistant_turns
    <2>1. CASE UNCHANGED turns
      BY <2>1 DEF turns, LoopTypeOK
    <2>2. CASE ~UNCHANGED turns
      <3>1. PICK n \in 1 .. MaxToolTokens :
                /\ mask' = [mask EXCEPT ![c] = @ \o Zeros(n)]
                /\ user_turns' = [user_turns EXCEPT ![c] = @ + 1]
                /\ UNCHANGED assistant_turns
        BY <2>2 DEF GatherAnswers
      <3>2. n \in Nat
        BY Sizes
      <3>3. mask[c] \in Seq({0, 1}) /\ Zeros(n) \in Seq({0, 1})
        BY <3>2, ZerosAre DEF LoopTypeOK
      <3>4. mask[c] \o Zeros(n) \in Seq({0, 1})
        BY <3>3, ConcatProperties
      <3> QED BY <3>1, <3>4 DEF LoopTypeOK
    <2> QED BY <2>1, <2>2
  <1> QED BY <1>1, <1>2, <1>3 DEF GatherAnswers, LoopTypeOK, manager

(* A call changes only its own stage and answer, and the limiter.           *)
LEMMA CallTypes ==
  ASSUME LoopTypeOK, NEW x \in Callers, Call(x), UNCHANGED prompt
  PROVE  LoopTypeOK'
PROOF
  <1>1. UNCHANGED <<batch, outcome, status, turns, manager>>
    BY DEF Call, Execute, FunctionReturns, FunctionRaises, ExecuteFails
  <1>2. /\ tool' \in [Callers -> Tools \cup {"none"}]
        /\ answer' \in [Callers -> Answers] /\ instances' \subseteq Callers
    <2>1. CASE Execute(x)
      BY <2>1 DEF Execute, LoopTypeOK, Answers
    <2>2. ASSUME NEW a \in Answers, AnswerCall(x, a)
          PROVE  /\ tool' \in [Callers -> Tools \cup {"none"}]
                 /\ answer' \in [Callers -> Answers] /\ instances' \subseteq Callers
      BY <2>2 DEF AnswerCall, LoopTypeOK
    <2>3. "text" \in Answers /\ "raised" \in Answers /\ "exception" \in Answers
      BY DEF Answers
    <2> QED BY <2>1, <2>2, <2>3
            DEF Call, FunctionReturns, FunctionRaises, ExecuteFails
  <1> QED BY <1>1, <1>2 DEF turns, manager, LoopTypeOK

(* Every step keeps the types.                                              *)
LEMMA TypesKept ==
  ASSUME LoopTypeOK, [Next]_vars
  PROVE  LoopTypeOK'
PROOF
  <1>0. prompt' = prompt
    BY DEF Next, Progress, LoseLimiter, vars
  <1>1. CASE UNCHANGED vars
    BY <1>0, <1>1 DEF vars, turns, manager, tools, LoopTypeOK
  <1>2. CASE StartBatch
    <2>1. batch' \in 0 .. NBatches
      BY <1>2, Sizes DEF StartBatch, LoopTypeOK
    <2>2. status' \in [Conversations -> Statuses]
      BY <1>2 DEF StartBatch, LoopTypeOK, Statuses
    <2> QED BY <1>0, <1>2, <2>1, <2>2 DEF StartBatch, LoopTypeOK, turns, manager, tools
  <1>3. CASE GatherOutputs
    <2>1. status' \in [Conversations -> Statuses]
      BY <1>3 DEF GatherOutputs, LoopTypeOK, Statuses
    <2>2. /\ mask' \in [Conversations -> Seq({0, 1})]
          /\ assistant_turns' \in [Conversations -> Nat]
          /\ user_turns' \in [Conversations -> Nat]
      <3>1. <<>> \in Seq({0, 1})
        OBVIOUS
      <3> QED BY <1>3, <3>1 DEF GatherOutputs, NoTurns, None
    <2> QED BY <1>0, <1>3, <2>1, <2>2 DEF GatherOutputs, LoopTypeOK, manager, tools
  <1>4. CASE PostprocessRaises \/ GatherException
    BY <1>0, <1>4 DEF PostprocessRaises, GatherException, LoopTypeOK, turns, manager,
                tools
  <1>5. ASSUME NEW c \in Conversations, Refuse(c) \/ RaiseFromTool(c)
        PROVE  LoopTypeOK'
    BY <1>0, <1>5
       DEF Refuse, RaiseFromTool, LoopTypeOK, Statuses, turns, manager, tools
  <1>6. CASE Limit \/ LoseLimiter
    BY <1>0, <1>6 DEF Limit, LoseLimiter, LoopTypeOK, turns, manager, tools
  <1> QED
    BY <1>0, <1>1, <1>2, <1>3, <1>4, <1>5, <1>6, AskTypes, RespondTypes, GatherTypes,
       CallTypes
       DEF Next, Progress, Converse

-----------------------------------------------------------------------------
(* Tasks exist for the current batch alone.                                 *)
LEMMA BatchesKept ==
  ASSUME LoopTypeOK, BatchesInOrder, [Next]_vars
  PROVE  BatchesInOrder'
PROOF
  <1> USE BatchOfType DEF LoopTypeOK
  <1>1. CASE UNCHANGED <<batch, outcome, status>>
    BY <1>1 DEF BatchesInOrder, BatchOf
  <1>2. ASSUME NEW c \in Conversations, NEW v \in Statuses \ {"idle", "returned"},
               status[c] \notin {"idle", "returned"},
               status' = [status EXCEPT ![c] = v], UNCHANGED <<batch, outcome>>
        PROVE  BatchesInOrder'
    BY <1>2 DEF BatchesInOrder, BatchOf, Statuses
  <1>3. CASE StartBatch
    <2>1. /\ outcome = "returned" /\ outcome' = "running" /\ batch' = batch + 1
          /\ status' = [c \in Conversations |-> IF BatchOf(c) = batch + 1
                                                THEN "ready" ELSE status[c]]
      BY <1>3, BatchIs DEF StartBatch
    <2>2. SUFFICES ASSUME NEW c \in Conversations
                   PROVE  /\ BatchOf(c) > batch' => status'[c] = "idle"
                          /\ BatchOf(c) < batch' => status'[c] = "returned"
                          /\ BatchOf(c) = batch' => status'[c] = "ready"
      BY <2>1 DEF BatchesInOrder, BatchOf
    <2>3. BatchOf(c) \in Nat /\ batch \in Nat
      OBVIOUS
    <2> QED BY <2>1, <2>3 DEF BatchesInOrder
  <1>4. CASE GatherOutputs
    <2>1. /\ outcome = "running" /\ outcome' = "returned" /\ batch' = batch
          /\ status' = [c \in Conversations |-> IF BatchOf(c) = batch
                                                THEN "returned" ELSE status[c]]
      BY <1>4, BatchIs DEF GatherOutputs
    <2>2. SUFFICES ASSUME NEW c \in Conversations
                   PROVE  /\ BatchOf(c) > batch' => status'[c] = "idle"
                          /\ BatchOf(c) < batch' => status'[c] = "returned"
                          /\ BatchOf(c) = batch' => status'[c] = "returned"
      BY <2>1 DEF BatchesInOrder, BatchOf
    <2> QED BY <2>1 DEF BatchesInOrder
  <1>5. CASE PostprocessRaises \/ GatherException
    BY <1>5 DEF PostprocessRaises, GatherException, BatchesInOrder, BatchOf
  <1>6. ASSUME NEW c \in Conversations, Converse(c)
        PROVE  BatchesInOrder'
    <2>1. \E v \in Statuses \ {"idle", "returned"} :
              status' = [status EXCEPT ![c] = v]
      BY <1>6
         DEF Converse, AskServer, Respond, Refuse, GatherAnswers, RaiseFromTool,
             Statuses
    <2>2. status[c] \notin {"idle", "returned"} /\ UNCHANGED <<batch, outcome>>
      BY <1>6
         DEF Converse, AskServer, Respond, Refuse, GatherAnswers, RaiseFromTool
    <2> QED BY <1>2, <2>1, <2>2
  <1>7. ASSUME NEW x \in Callers, Call(x)
        PROVE  UNCHANGED <<batch, outcome, status>>
    BY <1>7 DEF Call, Execute, FunctionReturns, FunctionRaises, ExecuteFails
  <1>8. CASE Limit \/ LoseLimiter \/ UNCHANGED vars
    BY <1>1, <1>8 DEF Limit, LoseLimiter, vars
  <1> QED BY <1>1, <1>3, <1>4, <1>5, <1>6, <1>7, <1>8 DEF Next, Progress

-----------------------------------------------------------------------------
(* The turns.  Only the conversation that steps changes its own.            *)
TurnsOf(c) ==
    /\ status[c] \in {"idle", "returned"} =>
           mask[c] = <<>> /\ assistant_turns[c] = 0 /\ user_turns[c] = 0
    /\ status[c] \in {"ready", "generating"} =>
           assistant_turns[c] = user_turns[c]
    /\ status[c] \in {"calling", "done"} =>
           /\ assistant_turns[c] = user_turns[c] + 1
           /\ Len(mask[c]) > 0
           /\ mask[c][LastOf(c)] = 1
    /\ status[c] \in {"ready", "generating", "calling"} =>
           Len(mask[c]) < ResponseLength
    /\ user_turns[c] <= assistant_turns[c]
    /\ assistant_turns[c] <= LastOf(c)
    /\ \/ Len(mask[c]) + prompt[c] <= MaxModelLen
       \/ Len(mask[c]) < ResponseLength

(* Turns concern one conversation at a time.                                *)
LEMMA TurnsSplit == /\ TurnsAlternate <=> \A c \in Conversations : TurnsOf(c)
                    /\ TurnsAlternate' <=> \A c \in Conversations : TurnsOf(c)'
  BY DEF TurnsAlternate, TurnsOf, LastOf

(* A response is the model's turn, which ends the conversation at a limit.  *)
LEMMA RespondTurns ==
  ASSUME LoopTypeOK, NEW c \in Conversations, TurnsOf(c), Respond(c),
         UNCHANGED prompt
  PROVE  TurnsOf(c)'
PROOF
  <1>1. PICK n \in 1 .. MaxGenerated :
            n <= Room(c) /\ mask' = [mask EXCEPT ![c] = @ \o Ones(n)]
    BY DEF Respond, Generation
  <1>2. n \in Nat \ {0} /\ prompt[c] \in Nat \ {0} /\ MaxModelLen \in Nat
        /\ ResponseLength \in Nat \ {0}
    BY Sizes, PromptsAre
  <1> DEFINE m == mask[c]
  <1>3. m \in Seq({0, 1}) /\ Len(m) \in Nat
    BY DEF LoopTypeOK
  <1>4. mask'[c] = m \o Ones(n)
    BY <1>1 DEF LoopTypeOK
  <1> HIDE DEF m
  <1>5. Len(mask'[c]) = Len(m) + n
        /\ \A i \in Len(m) + 1 .. Len(m) + n : mask'[c][i] = 1
    <2>1. Ones(n) \in Seq({0, 1}) /\ Len(Ones(n)) = n
          /\ \A i \in 1 .. n : Ones(n)[i] = 1
      BY <1>2, OnesAre
    <2> DEFINE o == Ones(n)
    <2>2. mask'[c] = m \o o /\ o \in Seq({0, 1}) /\ Len(o) = n
      BY <1>4, <2>1
    <2> HIDE DEF o
    <2>3. /\ Len(m \o o) = Len(m) + Len(o)
          /\ \A i \in 1 .. Len(m) + Len(o) :
                 (m \o o)[i] = IF i <= Len(m) THEN m[i] ELSE o[i - Len(m)]
      BY <1>3, <2>2, ConcatProperties
    <2>4. \A i \in 1 .. n : o[i] = 1
      BY <2>1 DEF o
    <2>5. ASSUME NEW i \in Len(m) + 1 .. Len(m) + n
          PROVE  (m \o o)[i] = 1
      <3>1. i \in 1 .. Len(m) + Len(o) /\ ~(i <= Len(m)) /\ i - Len(m) \in 1 .. n
        BY <1>2, <1>3, <2>2
      <3>2. (m \o o)[i] = o[i - Len(m)]
        BY <2>3, <3>1
      <3> QED BY <2>4, <3>1, <3>2
    <2> QED BY <2>2, <2>3, <2>5
  <1>6. /\ assistant_turns'[c] = assistant_turns[c] + 1
        /\ user_turns'[c] = user_turns[c]
        /\ assistant_turns[c] \in Nat /\ user_turns[c] \in Nat
        /\ status[c] = "generating"
        /\ \/ status'[c] = "done"
           \/ status'[c] = "calling" /\ ~(Len(mask'[c]) >= ResponseLength)
    BY DEF Respond, LoopTypeOK, MustStop
  <1>7. Len(m) < ResponseLength /\ assistant_turns[c] = user_turns[c]
        /\ assistant_turns[c] <= Len(m)
    BY <1>6, <1>3, <1>2 DEF TurnsOf, LastOf, m
  <1>8. LastOf(c)' \in Len(m) + 1 .. Len(m) + n
    BY <1>2, <1>3, <1>5, <1>7 DEF LastOf
  <1>9. mask'[c][LastOf(c)'] = 1
    BY <1>5, <1>8
  <1>10. Len(mask'[c]) + prompt'[c] <= MaxModelLen
    <2>1. prompt' = prompt
      OBVIOUS
    <2> QED BY <1>1, <1>2, <1>3, <1>5, <2>1 DEF Room, m
  <1>11. assistant_turns'[c] <= LastOf(c)'
    BY <1>3, <1>2, <1>6, <1>7, <1>8
  <1> QED
    BY <1>2, <1>3, <1>5, <1>6, <1>7, <1>9, <1>10, <1>11 DEF TurnsOf

(* The answers are the user's turn, followed by another response.           *)
LEMMA GatherTurns ==
  ASSUME LoopTypeOK, NEW c \in Conversations, TurnsOf(c), GatherAnswers(c),
         UNCHANGED prompt
  PROVE  TurnsOf(c)'
PROOF
  <1>1. CASE UNCHANGED turns
    <2>1. status[c] = "calling" /\ status' = [status EXCEPT ![c] = "done"]
      <3>1. \A n \in 1 .. MaxToolTokens :
                ~ user_turns' = [user_turns EXCEPT ![c] = @ + 1]
        BY <1>1 DEF turns, LoopTypeOK
      <3> QED BY <3>1 DEF GatherAnswers
    <2> QED BY <1>1, <2>1 DEF turns, LoopTypeOK, TurnsOf, LastOf
  <1>2. CASE ~UNCHANGED turns
    <2>1. PICK n \in 1 .. MaxToolTokens :
              /\ ~HasNoRoom(c, n)
              /\ mask' = [mask EXCEPT ![c] = @ \o Zeros(n)]
              /\ user_turns' = [user_turns EXCEPT ![c] = @ + 1]
              /\ status' = [status EXCEPT ![c] = "ready"]
              /\ UNCHANGED assistant_turns
      BY <1>2 DEF GatherAnswers
    <2>2. n \in Nat \ {0} /\ ResponseLength \in Nat \ {0}
      BY Sizes
    <2>3. mask[c] \in Seq({0, 1}) /\ Len(mask[c]) \in Nat
          /\ Zeros(n) \in Seq({0, 1}) /\ Len(Zeros(n)) = n
      BY <2>2, ZerosAre DEF LoopTypeOK
    <2>4. Len(mask'[c]) = Len(mask[c]) + n
      <3> DEFINE m == mask[c]
                 z == Zeros(n)
      <3>1. mask'[c] = m \o z
        BY <2>1 DEF LoopTypeOK
      <3>2. m \in Seq({0, 1}) /\ z \in Seq({0, 1}) /\ Len(z) = n
        BY <2>3
      <3> HIDE DEF z, m
      <3>3. Len(m \o z) = Len(m) + Len(z)
        BY <3>2, ConcatProperties
      <3> QED BY <3>1, <3>2, <3>3 DEF m
    <2>5. Len(mask[c]) + n < ResponseLength
      BY <2>1, <2>2, <2>3 DEF HasNoRoom
    <2>6. /\ status[c] = "calling" /\ status'[c] = "ready"
          /\ user_turns'[c] = user_turns[c] + 1
          /\ assistant_turns'[c] = assistant_turns[c]
          /\ assistant_turns[c] \in Nat
      BY <2>1 DEF GatherAnswers, LoopTypeOK
    <2>7. assistant_turns[c] = user_turns[c] + 1
          /\ assistant_turns[c] <= Len(mask[c])
      BY <2>3, <2>5, <2>2, <2>6 DEF TurnsOf, LastOf
    <2>8. LastOf(c)' = Len(mask'[c])
      BY <2>4, <2>5 DEF LastOf
    <2>9. Len(mask'[c]) < ResponseLength
      BY <2>4, <2>5
    <2> QED
      BY <2>2, <2>3, <2>4, <2>6, <2>7, <2>8, <2>9 DEF TurnsOf
  <1> QED BY <1>1, <1>2

(* Every step keeps the turns of every conversation.                        *)
LEMMA TurnsKept ==
  ASSUME LoopTypeOK, BatchesInOrder, TurnsAlternate, [Next]_vars
  PROVE  TurnsAlternate'
PROOF
  <1>1. \A c \in Conversations : TurnsOf(c)
    BY TurnsSplit
  <1>2. SUFFICES ASSUME NEW c \in Conversations PROVE TurnsOf(c)'
    BY TurnsSplit
  <1>11. prompt' = prompt
    BY DEF Next, Progress, LoseLimiter, vars
  <1>3. CASE /\ status'[c] = status[c] /\ mask'[c] = mask[c]
             /\ assistant_turns'[c] = assistant_turns[c]
             /\ user_turns'[c] = user_turns[c]
    BY <1>1, <1>3, <1>11 DEF TurnsOf, LastOf
  <1>4. ASSUME NEW d \in Conversations, Converse(d), d # c
        PROVE  /\ status'[c] = status[c] /\ mask'[c] = mask[c]
               /\ assistant_turns'[c] = assistant_turns[c]
               /\ user_turns'[c] = user_turns[c]
    BY <1>4
       DEF Converse, AskServer, Respond, Refuse, GatherAnswers, RaiseFromTool,
           turns, LoopTypeOK
  <1>5. CASE AskServer(c) \/ Refuse(c) \/ RaiseFromTool(c)
    BY <1>1, <1>5, <1>11
       DEF AskServer, Refuse, RaiseFromTool, turns, TurnsOf, LastOf, LoopTypeOK
  <1>6. CASE Converse(c)
    BY <1>1, <1>5, <1>6, <1>11, RespondTurns, GatherTurns DEF Converse
  <1>7. CASE StartBatch
    <2>1. UNCHANGED turns
      BY <1>7 DEF StartBatch
    <2>2. TurnsOf(c)
      BY <1>1
    <2>3. CASE c \in Batch'
      <3>1. status[c] = "idle"
        <4>1. BatchOf(c) > batch
          BY <1>7, <2>3, BatchIs DEF StartBatch, LoopTypeOK
        <4> QED BY <4>1 DEF BatchesInOrder
      <3>2. mask[c] = <<>> /\ assistant_turns[c] = 0 /\ user_turns[c] = 0
        BY <2>2, <3>1 DEF TurnsOf
      <3>3. status'[c] = "ready"
        BY <1>7, <2>3 DEF StartBatch
      <3>4. Len(mask[c]) = 0
        BY <3>2
      <3>5. UNCHANGED <<mask, assistant_turns, user_turns>>
        BY <2>1 DEF turns
      <3> QED BY <2>2, <3>2, <3>3, <3>4, <3>5, Sizes DEF TurnsOf, LastOf
    <2>4. CASE c \notin Batch'
      BY <1>3, <1>7, <2>1, <2>4 DEF StartBatch, turns
    <2> QED BY <2>3, <2>4
  <1>8. CASE GatherOutputs
    <2>1. /\ mask'[c] = <<>> /\ assistant_turns'[c] = 0 /\ user_turns'[c] = 0
          /\ Len(mask'[c]) = 0
      BY <1>8 DEF GatherOutputs, NoTurns, None
    <2>2. status'[c] \in {"idle", "returned"}
      <3>1. BatchesInOrder'
        BY BatchesKept
      <3>2. outcome' = "returned"
        BY <1>8 DEF GatherOutputs
      <3>3. batch' \in Nat /\ BatchOf(c) \in Nat
        BY BatchOfType, TypesKept DEF LoopTypeOK
      <3> QED BY <3>1, <3>2, <3>3 DEF BatchesInOrder, BatchOf
    <2>3. ResponseLength \in Nat \ {0}
      BY Sizes
    <2> QED BY <2>1, <2>2, <2>3 DEF TurnsOf, LastOf
  <1>9. ASSUME NEW x \in Callers, Call(x)
        PROVE  UNCHANGED <<status, turns>>
    BY <1>9 DEF Call, Execute, FunctionReturns, FunctionRaises, ExecuteFails
  <1>10. CASE \/ PostprocessRaises \/ GatherException \/ Limit
              \/ LoseLimiter \/ UNCHANGED vars
    BY <1>3, <1>10
       DEF PostprocessRaises, GatherException, Limit, LoseLimiter, vars, turns
  <1> QED
    BY <1>3, <1>4, <1>6, <1>7, <1>8, <1>9, <1>10 DEF Next, Progress, turns

-----------------------------------------------------------------------------
(* The calls.                                                               *)
LEMMA RespondCalls ==
  ASSUME LoopTypeOK, LimiterTypeOK, CallsAreAwaited,
         NEW c \in Conversations, Respond(c)
  PROVE  CallsAreAwaited'
PROOF
  <1>1. \A x \in CallsOf(c) : answer[x] = "none"
    BY DEF Respond, CallsAreAwaited
  <1>2. stage' = stage /\ \A d \in Conversations \ {c} : status'[d] = status[d]
    BY DEF Respond, limiter, LoopTypeOK
  <1>3. CASE UNCHANGED tools
    BY <1>1, <1>2, <1>3 DEF tools, CallsAreAwaited, CallsOf
  <1>4. CASE CallTools(c) /\ status' = [status EXCEPT ![c] = "calling"]
    <2>1. PICK called \in SUBSET CallsOf(c) :
              \E a \in [called -> {"waiting", "exception", "text"}] :
                  /\ answer' = [x \in Callers |-> IF x \in called THEN a[x]
                                                  ELSE answer[x]]
                  /\ instances' = instances
                                    \cup {x \in called : answer'[x] = "waiting"}
      BY <1>4 DEF CallTools
    <2>2. /\ \A x \in Callers \ called :
                 /\ answer'[x] = answer[x]
                 /\ x \in instances' <=> x \in instances
          /\ \A x \in called :
                 /\ answer'[x] \in {"waiting", "exception", "text"}
                 /\ x \in instances' <=> x \in instances \/ answer'[x] = "waiting"
          /\ called \subseteq Callers
      BY <2>1, CallsOfConversations
    <2>3. \A x \in called : answer[x] = "none"
      BY <1>1
    <2>4. status'[c] = "calling"
      BY <1>4 DEF LoopTypeOK
    <2>5. \A x \in Callers : answer'[x] = "executing" <=> stage'[x] # "idle"
      BY <1>2, <2>2, <2>3 DEF CallsAreAwaited
    <2>6. \A x \in Callers :
              x \in instances' <=> answer'[x] \in {"waiting", "executing"}
      BY <2>2, <2>3 DEF CallsAreAwaited
    <2>7. ASSUME NEW d \in Conversations, status'[d] \notin {"calling", "raised"},
                 NEW x \in CallsOf(d)
          PROVE  answer'[x] = "none"
      <3>1. d # c /\ status[d] = status'[d]
        BY <1>2, <2>4, <2>7
      <3>2. x \notin called /\ x \in Callers
        BY <3>1, CallsOfConversations
      <3> QED BY <2>2, <2>7, <3>1, <3>2 DEF CallsAreAwaited
    <2> QED BY <2>5, <2>6, <2>7 DEF CallsAreAwaited, CallsOf
  <1> QED BY <1>3, <1>4 DEF Respond

(* All calls have returned when the answers are gathered, and are           *)
(* forgotten.                                                               *)
LEMMA GatherCalls ==
  ASSUME LoopTypeOK, LimiterTypeOK, CallsAreAwaited,
         NEW c \in Conversations, GatherAnswers(c)
  PROVE  CallsAreAwaited'
PROOF
  <1>1. /\ \A x \in CallsOf(c) : answer[x] \in {"none", "text", "exception"}
        /\ answer' = [x \in Callers |-> IF x \in CallsOf(c) THEN "none"
                                        ELSE answer[x]]
        /\ stage' = stage /\ instances' = instances
    BY DEF GatherAnswers, limiter
  <1>2. \A d \in Conversations \ {c} : status'[d] = status[d]
    BY DEF GatherAnswers, LoopTypeOK
  <1>3. /\ \A x \in CallsOf(c) : x \in Callers /\ answer'[x] = "none"
        /\ \A x \in Callers \ CallsOf(c) : answer'[x] = answer[x]
    BY <1>1, CallsOfConversations
  <1>4. \A x \in Callers : answer'[x] = "executing" <=> stage'[x] # "idle"
    BY <1>1, <1>3 DEF CallsAreAwaited
  <1>5. \A x \in Callers :
            x \in instances' <=> answer'[x] \in {"waiting", "executing"}
    BY <1>1, <1>3 DEF CallsAreAwaited
  <1>6. ASSUME NEW d \in Conversations, status'[d] \notin {"calling", "raised"},
               NEW x \in CallsOf(d)
        PROVE  answer'[x] = "none"
    BY <1>2, <1>3, <1>6, CallsOfConversations DEF CallsAreAwaited
  <1> QED BY <1>4, <1>5, <1>6 DEF CallsAreAwaited, CallsOf

(* A call executes from its request to its release.                         *)
LEMMA CallCalls ==
  ASSUME LoopTypeOK, LimiterTypeOK, CallsAreAwaited, NEW x \in Callers, Call(x)
  PROVE  CallsAreAwaited'
PROOF
  <1>1. status' = status /\ answer[x] # "none"
    BY DEF Call, Execute, FunctionReturns, FunctionRaises, ExecuteFails,
           SendRelease, FailAcquire, CallsAreAwaited
  <1>2. /\ \A y \in Callers \ {x} : /\ answer'[y] = answer[y]
                                    /\ stage'[y] = stage[y]
                                    /\ y \in instances' <=> y \in instances
        /\ answer'[x] = "executing" <=> stage'[x] # "idle"
        /\ x \in instances' <=> answer'[x] \in {"waiting", "executing"}
    <2>1. CASE Execute(x)
      BY <2>1
         DEF Execute, SendAcquire, CallsAreAwaited, LoopTypeOK, LimiterTypeOK
    <2>2. ASSUME NEW a \in {"text", "raised", "exception"}, AnswerCall(x, a)
          PROVE  /\ \A y \in Callers \ {x} :
                        /\ answer'[y] = answer[y]
                        /\ y \in instances' <=> y \in instances
                 /\ answer'[x] = a /\ x \notin instances'
      BY <2>2 DEF AnswerCall, LoopTypeOK
    <2>3. CASE SendRelease(x) \/ FailAcquire(x)
      <3>1. \A y \in Callers \ {x} : stage'[y] = stage[y]
        BY <2>3 DEF SendRelease, FailAcquire, LimiterTypeOK
      <3>2. stage'[x] = "idle"
        BY <2>3 DEF SendRelease, FailAcquire, LimiterTypeOK
      <3>3. PICK a \in {"text", "raised", "exception"} :
                Execute(x) \/ AnswerCall(x, a)
        BY DEF Call, FunctionReturns, FunctionRaises, ExecuteFails
      <3> QED BY <2>1, <2>2, <3>1, <3>2, <3>3
    <2>4. CASE answer[x] = "waiting" /\ UNCHANGED limiter /\ ~Execute(x)
      <3>1. stage' = stage /\ stage[x] = "idle"
        BY <2>4 DEF limiter, CallsAreAwaited
      <3>2. PICK a \in {"text", "raised", "exception"} : AnswerCall(x, a)
        BY <2>4 DEF Call, FunctionReturns, FunctionRaises, ExecuteFails
      <3> QED BY <2>2, <3>1, <3>2
    <2> QED BY <2>1, <2>3, <2>4
            DEF Call, FunctionReturns, FunctionRaises, ExecuteFails
  <1>3. ASSUME NEW d \in Conversations, status'[d] \notin {"calling", "raised"},
               NEW y \in CallsOf(d)
        PROVE  answer'[y] = "none"
    <2>1. y \in Callers /\ answer[y] = "none"
      BY <1>1, <1>3, CallsOfConversations DEF CallsAreAwaited
    <2> QED BY <1>1, <1>2, <2>1
  <1> QED BY <1>2, <1>3 DEF CallsAreAwaited, CallsOf

(* Every step keeps what is said of calls.                                  *)
LEMMA CallsKept ==
  ASSUME LoopTypeOK, LimiterInv, BatchesInOrder, CallsAreAwaited, [Next]_vars
  PROVE  CallsAreAwaited'
PROOF
  <1>1. LimiterTypeOK /\ QueueIsWaiting
    BY DEF LimiterInv
  <1>2. CASE /\ UNCHANGED tools
             /\ \A x \in Callers : stage[x] = "idle" <=> stage'[x] = "idle"
             /\ \A c \in Conversations :
                    /\ status'[c] \notin {"calling", "raised"}
                    /\ status'[c] # status[c]
                    => status[c] \notin {"calling", "raised"}
    BY <1>2 DEF CallsAreAwaited, CallsOf, tools
  <1>3. CASE StartBatch
    <2>1. \A c \in Conversations : status'[c] # status[c] => status[c] = "idle"
      <3>1. \A c \in Batch' : status[c] = "idle"
        BY <1>3, BatchIs, BatchOfType DEF StartBatch, BatchesInOrder, LoopTypeOK
      <3> QED BY <1>3, <3>1 DEF StartBatch
    <2> QED BY <1>2, <1>3, <2>1 DEF StartBatch, limiter
  <1>4. CASE GatherOutputs
    <2>1. \A c \in Conversations : status'[c] # status[c] => status[c] = "done"
      BY <1>4 DEF GatherOutputs
    <2> QED BY <1>2, <1>4, <2>1 DEF GatherOutputs, limiter
  <1>5. ASSUME NEW c \in Conversations,
               AskServer(c) \/ Refuse(c) \/ RaiseFromTool(c)
        PROVE  CallsAreAwaited'
    BY <1>2, <1>5 DEF AskServer, Refuse, RaiseFromTool, limiter, LoopTypeOK
  <1>6. CASE Limit \/ LoseLimiter
    <2>1. \A x \in Callers : stage[x] = "idle" <=> stage'[x] = "idle"
      <3>1. CASE TakeToken
        <4>1. /\ Head(acquires) \in Callers /\ stage[Head(acquires)] = "queued"
              /\ stage' = [stage EXCEPT ![Head(acquires)] = "running"]
          BY <1>1, <3>1, HeadIsWaiting DEF TakeToken
        <4> QED BY <1>1, <4>1 DEF LimiterTypeOK
      <3>2. CASE ReturnToken \/ LimiterDies
        BY <3>2 DEF ReturnToken, LimiterDies
      <3> QED BY <1>6, <3>1, <3>2 DEF Limit, LoseLimiter, ActorStep
    <2> QED BY <1>2, <1>6, <2>1 DEF Limit, LoseLimiter
  <1>7. CASE PostprocessRaises \/ GatherException \/ UNCHANGED vars
    BY <1>2, <1>7 DEF PostprocessRaises, GatherException, vars, limiter
  <1> QED
    BY <1>1, <1>3, <1>4, <1>5, <1>6, <1>7, RespondCalls, GatherCalls, CallCalls
       DEF Next, Progress, Converse

-----------------------------------------------------------------------------
(* Counting what is dealt to servers.                                       *)
Fibre(f, S, t) == {c \in S : f[c] = t}

(* What is dealt to one server is part of what is dealt.                    *)
LEMMA FibresAreFinite ==
  ASSUME NEW S, IsFiniteSet(S), NEW f, NEW t
  PROVE  /\ IsFiniteSet(Fibre(f, S, t))
         /\ Cardinality(Fibre(f, S, t)) \in 0 .. Cardinality(S)
         /\ Cardinality(S) \in Nat
PROOF
  <1>1. Fibre(f, S, t) \in SUBSET S
    BY DEF Fibre
  <1> QED BY <1>1, FS_Subset, FS_CardinalityType

(* A set is as large as its fibres together: numbering each fibre numbers   *)
(* the set.                                                                 *)
Numbered(f, S, T) ==
    {p \in T \X (1 .. Cardinality(S)) : p[2] <= Cardinality(Fibre(f, S, p[1]))}

(* The counts of the servers add up to what was dealt.                      *)
LEMMA FibresCount ==
  ASSUME NEW S, IsFiniteSet(S), NEW T, IsFiniteSet(T), NEW f,
         \A c \in S : f[c] \in T
  PROVE  IsFiniteSet(Numbered(f, S, T))
         /\ Cardinality(Numbered(f, S, T)) = Cardinality(S)
PROOF
  <1> DEFINE F(t) == Fibre(f, S, t)
             n(t) == Cardinality(F(t))
             g == [t \in T |-> CHOOSE b : b \in Bijection(1 .. n(t), F(t))]
             D == Numbered(f, S, T)
             h == [p \in D |-> g[p[1]][p[2]]]
  <1>1. \A t \in T : n(t) \in 0 .. Cardinality(S) /\ Cardinality(S) \in Nat
    BY FibresAreFinite
  <1>2. ASSUME NEW t \in T
        PROVE  g[t] \in Bijection(1 .. n(t), F(t))
    <2>1. Bijection(1 .. n(t), F(t)) # {}
      BY FibresAreFinite, FS_CardinalityType DEF ExistsBijection
    <2>2. g[t] = CHOOSE b : b \in Bijection(1 .. n(t), F(t))
      OBVIOUS
    <2> QED BY <2>1, <2>2
  <1>3. ASSUME NEW t \in T
        PROVE  /\ \A i \in 1 .. n(t) : g[t][i] \in F(t)
               /\ \A i, j \in 1 .. n(t) : g[t][i] = g[t][j] => i = j
               /\ \A c \in F(t) : \E i \in 1 .. n(t) : g[t][i] = c
    <2> DEFINE b == g[t]
               N == 1 .. n(t)
               G == F(t)
    <2>1. b \in Bijection(N, G)
      BY <1>2
    <2> HIDE DEF b, N, G
    <2>2. /\ b \in [N -> G]
          /\ \A i, j \in N : b[i] = b[j] => i = j
          /\ \A c \in G : \E i \in N : b[i] = c
      BY <2>1, Fun_BijectionProperties
    <2>3. /\ \A i \in N : b[i] \in G
          /\ \A i, j \in N : b[i] = b[j] => i = j
          /\ \A c \in G : \E i \in N : b[i] = c
      BY <2>2
    <2> HIDE DEF n, F, g
    <2> QED BY <2>3 DEF b, N, G
  <1>4. \A t \in T : \A i : <<t, i>> \in D <=> i \in 1 .. n(t)
    BY <1>1 DEF Numbered
  <1>5. \A p \in D : p = <<p[1], p[2]>> /\ p[1] \in T /\ p[2] \in 1 .. n(p[1])
    BY <1>1 DEF Numbered
  <1>6. \A t \in T : \A c \in F(t) : c \in S /\ f[c] = t
    BY DEF Fibre
  <1>7. \A c \in S : c \in F(f[c])
    BY DEF Fibre
  <1> HIDE DEF n, F, g, D
  <1>8. h \in [D -> S]
    BY <1>3, <1>5, <1>6
  <1>9. ASSUME NEW p \in D, NEW q \in D, h[p] = h[q]
        PROVE  p = q
    <2>1. g[p[1]][p[2]] = g[q[1]][q[2]]
      BY <1>9
    <2>2. p[1] = q[1]
      BY <2>1, <1>3, <1>5, <1>6
    <2>3. p[2] = q[2]
      BY <2>1, <2>2, <1>3, <1>5
    <2> QED BY <2>2, <2>3, <1>5
  <1>10. ASSUME NEW c \in S
         PROVE  \E p \in D : h[p] = c
    <2>1. PICK i \in 1 .. n(f[c]) : g[f[c]][i] = c
      BY <1>3, <1>7
    <2>2. <<f[c], i>> \in D
      BY <2>1, <1>4
    <2> QED BY <2>1, <2>2
  <1> HIDE DEF h
  <1>11. IsFiniteSet(D)
    <2>1. Cardinality(S) \in Nat
      BY FS_CardinalityType
    <2>2. IsFiniteSet(1 .. Cardinality(S))
      BY <2>1, FS_Interval
    <2>3. IsFiniteSet(T \X (1 .. Cardinality(S)))
      BY <2>2, FS_Product
    <2>4. D \subseteq T \X (1 .. Cardinality(S))
      BY DEF D, Numbered
    <2> QED BY <2>3, <2>4, FS_Subset
  <1>12. h \in Bijection(D, S)
    BY <1>8, <1>9, <1>10, Fun_IsBij
  <1>13. Cardinality(S) = Cardinality(D)
    BY <1>11, <1>12, FS_Bijection DEF ExistsBijection
  <1> QED BY <1>11, <1>13 DEF D

(* Fibres that differ by at most one have their share, no more and, when    *)
(* everything is dealt out, no less.                                        *)
LEMMA EvenShares ==
  ASSUME NEW S, IsFiniteSet(S), NEW T, IsFiniteSet(T), NEW f,
         \A c \in S : f[c] \in T, NEW k \in Nat,
         \A s, t \in T : Cardinality(Fibre(f, S, s))
                             <= Cardinality(Fibre(f, S, t)) + 1
  PROVE  /\ Cardinality(S) <= Cardinality(T) * k
                => \A t \in T : Cardinality(Fibre(f, S, t)) <= k
         /\ Cardinality(S) = Cardinality(T) * k
                => \A t \in T : Cardinality(Fibre(f, S, t)) = k
PROOF
  <1> DEFINE n(t) == Cardinality(Fibre(f, S, t))
             D == Numbered(f, S, T)
             B == T \X (1 .. k)
  <1>1. /\ IsFiniteSet(B) /\ Cardinality(B) = Cardinality(T) * k
        /\ IsFiniteSet(D) /\ Cardinality(D) = Cardinality(S)
        /\ Cardinality(S) \in Nat /\ Cardinality(B) \in Nat
    <2>1. IsFiniteSet(1 .. k) /\ Cardinality(1 .. k) = k
      BY FS_Interval
    <2>2. IsFiniteSet(B) /\ Cardinality(B) = Cardinality(T) * k
      BY <2>1, FS_Product
    <2>3. IsFiniteSet(D) /\ Cardinality(D) = Cardinality(S)
      BY FibresCount
    <2> QED BY <2>2, <2>3, FS_CardinalityType
  <1>2. \A t \in T : n(t) \in 0 .. Cardinality(S)
    BY FibresAreFinite
  <1>3. \A t \in T : \A i : <<t, i>> \in D <=> i \in 1 .. n(t)
    BY <1>1, <1>2 DEF Numbered
  <1>4. \A t \in T : \A i : <<t, i>> \in B <=> i \in 1 .. k
    OBVIOUS
  <1>5. /\ \A p \in D : p = <<p[1], p[2]>> /\ p[1] \in T
        /\ \A p \in B : p = <<p[1], p[2]>> /\ p[1] \in T
    BY DEF Numbered
  <1>6. \A s, t \in T : n(s) <= n(t) + 1
    OBVIOUS
  <1> HIDE DEF n, D, B
  <1>7. ASSUME Cardinality(S) <= Cardinality(T) * k, NEW t \in T, n(t) > k
        PROVE  FALSE
    <2> DEFINE p == <<t, k + 1>>
    <2>1. B \cup {p} \subseteq D
      <3>1. \A s \in T : n(s) \in Nat /\ n(s) >= k
        BY <1>1, <1>2, <1>6, <1>7
      <3>2. ASSUME NEW s \in T, NEW i \in 1 .. k
            PROVE  <<s, i>> \in D
        <4>1. i \in 1 .. n(s)
          BY <3>1
        <4> QED BY <4>1, <1>3
      <3>3. p \in D
        BY <1>1, <1>2, <1>3, <1>7
      <3> QED BY <3>2, <3>3, <1>4, <1>5
    <2>2. p \notin B
      BY <1>4
    <2> HIDE DEF p
    <2>3. IsFiniteSet(B \cup {p}) /\ Cardinality(B \cup {p}) = Cardinality(B) + 1
      BY <2>2, <1>1, FS_AddElement
    <2>4. Cardinality(B \cup {p}) <= Cardinality(D)
      BY <2>1, <1>1, FS_Subset
    <2> QED BY <1>1, <1>7, <2>3, <2>4
  <1>8. ASSUME Cardinality(S) = Cardinality(T) * k, NEW t \in T, n(t) < k
        PROVE  FALSE
    <2> DEFINE p == <<t, k>>
    <2>1. Cardinality(S) <= Cardinality(T) * k
      BY <1>1, <1>8
    <2>2. \A s \in T : n(s) \in Nat /\ n(s) <= k
      BY <2>1, <1>1, <1>2, <1>7
    <2>3. D \subseteq B \ {p}
      <3>1. ASSUME NEW s \in T, NEW i \in 1 .. n(s)
            PROVE  <<s, i>> \in B
        <4>1. i \in 1 .. k
          BY <2>2
        <4> QED BY <4>1, <1>4
      <3>2. p \notin D
        BY <1>2, <1>3, <1>8
      <3> QED BY <3>1, <3>2, <1>3, <1>5
    <2>4. p \in B
      BY <1>2, <1>4, <1>8
    <2> HIDE DEF p
    <2>5. IsFiniteSet(B \ {p}) /\ Cardinality(B \ {p}) = Cardinality(B) - 1
      BY <2>4, <1>1, FS_RemoveElement
    <2>6. Cardinality(D) <= Cardinality(B \ {p})
      BY <2>3, <2>5, FS_Subset
    <2> QED BY <1>1, <1>8, <2>5, <2>6
  <1>9. \A t \in T : n(t) \in Nat
    BY <1>1, <1>2
  <1>10. /\ Cardinality(S) <= Cardinality(T) * k => \A t \in T : n(t) <= k
         /\ Cardinality(S) = Cardinality(T) * k => \A t \in T : n(t) = k
    <2>1. Cardinality(S) = Cardinality(T) * k
          => Cardinality(S) <= Cardinality(T) * k
      BY <1>1
    <2> QED BY <2>1, <1>7, <1>8, <1>9
  <1> QED BY <1>10 DEF n

(* A batch has BatchSize conversations.                                     *)
LEMMA BatchCardinality ==
  ASSUME batch \in 1 .. NBatches
  PROVE  IsFiniteSet(Batch) /\ Cardinality(Batch) = BatchSize
PROOF
  <1> DEFINE b == BatchSize
             q == batch - 1
  <1>1. b \in Nat \ {0} /\ q \in Nat /\ NBatches \in Nat /\ q + 1 <= NBatches
    BY Sizes
  <1>2. b * (q + 1) = b * q + b /\ b * q \in Nat
    BY <1>1
  <1>3. (q + 1) * b <= NBatches * b
    BY <1>1
  <1>4. ASSUME NEW a \in Nat
        PROVE  a \div b = q <=> b * q <= a /\ a < b * q + b
    <2>1. a \div b \in Nat /\ b * (a \div b) <= a /\ a < b * (a \div b) + b
      BY <1>1
    <2> DEFINE d == a \div b
    <2> HIDE DEF d
    <2>2. ASSUME b * q <= a, a < b * q + b
          PROVE  d = q
      <3>1. d \in Nat /\ b * d <= a /\ a < b * d + b
        BY <2>1 DEF d
      <3>2. b * d < b * (q + 1) /\ b * q < b * (d + 1)
        BY <1>1, <1>2, <2>2, <3>1
      <3>3. d < q + 1 /\ q < d + 1
        BY <1>1, <3>1, <3>2
      <3> QED BY <1>1, <3>1, <3>3
    <2> QED BY <2>1, <2>2 DEF d
  <1>5. Batch = b * q + 1 .. b * q + b
    <2>1. \A c \in Conversations : c - 1 \in Nat
      BY BatchOfType
    <2>2. \A c \in Conversations :
              (c - 1) \div b + 1 = batch <=> (c - 1) \div b = q
      BY <1>1, <2>1
    <2>3. b * q + b <= NBatches * BatchSize
      BY <1>1, <1>2, <1>3
    <2>4. \A c \in b * q + 1 .. b * q + b : c \in Conversations
      BY <1>1, <1>2, <2>3, Sizes DEF Conversations
    <2>5. \A c \in Conversations :
              (c - 1) \div b = q <=> b * q <= c - 1 /\ c - 1 < b * q + b
      BY <1>4, <2>1
    <2>6. \A c \in Conversations : c \in Batch <=> c \in b * q + 1 .. b * q + b
      BY <1>1, <1>2, <2>2, <2>5, BatchOfType DEF Batch
    <2> QED BY <2>4, <2>6 DEF Batch
  <1>6. Cardinality(b * q + 1 .. b * q + b) = b
        /\ IsFiniteSet(b * q + 1 .. b * q + b)
    BY <1>1, <1>2, FS_Interval
  <1> QED BY <1>5, <1>6

-----------------------------------------------------------------------------
(* The load.  Each increment of a count is the first request of a turn that *)
(* no other increment was for, in any batch.  A conversation that raised    *)
(* may have asked once more than it had answers.                            *)
Asks(c) ==
    CASE status[c] = "idle" -> 0
      [] status[c] = "returned" -> ResponseLength
      [] status[c] \in {"generating", "raised"} -> assistant_turns[c] + 1
      [] OTHER -> assistant_turns[c]
Asked == {p \in Conversations \X (1 .. ResponseLength) : p[2] <= Asks(p[1])}

LoadIsAskedFor == \A s \in Servers : load[s] <= Cardinality(Asked)

(* The requests made are at most one for each token of each conversation.   *)
LEMMA AskedIsFinite ==
  ASSUME NEW A \in SUBSET (Conversations \X (1 .. ResponseLength))
  PROVE  /\ IsFiniteSet(A)
         /\ Cardinality(A) \in Nat
         /\ Cardinality(A) <= Cardinality(Conversations) * ResponseLength
PROOF
  <1> DEFINE P == Conversations \X (1 .. ResponseLength)
             r == ResponseLength
  <1>1. NBatches * BatchSize \in Nat /\ r \in Nat \ {0}
    BY Sizes
  <1>2. IsFiniteSet(Conversations)
    BY <1>1, FS_Interval DEF Conversations
  <1>3. IsFiniteSet(1 .. r) /\ Cardinality(1 .. r) = r
    BY <1>1, FS_Interval
  <1>4. IsFiniteSet(P) /\ Cardinality(P) = Cardinality(Conversations) * r
    BY <1>2, <1>3, FS_Product
  <1>5. A \in SUBSET P
    OBVIOUS
  <1> HIDE DEF P
  <1> QED BY <1>4, <1>5, FS_Subset, FS_CardinalityType DEF r

(* What was asked for stays asked for.                                      *)
LEMMA AsksGrow ==
  ASSUME LoopTypeOK, BatchesInOrder, TurnsAlternate, [Next]_vars,
         NEW c \in Conversations
  PROVE  \A i \in 1 .. ResponseLength : i <= Asks(c) => i <= Asks(c)'
PROOF
  <1>1. TurnsOf(c) /\ assistant_turns[c] \in Nat /\ ResponseLength \in Nat
        /\ assistant_turns[c] <= ResponseLength
    <2>1. TurnsOf(c) /\ Len(mask[c]) \in Nat
      BY TurnsSplit DEF LoopTypeOK
    <2> QED BY <2>1, Sizes DEF TurnsOf, LoopTypeOK, LastOf
  <1>2. CASE status'[c] = status[c] /\ assistant_turns'[c] = assistant_turns[c]
    BY <1>2 DEF Asks
  <1>3. ASSUME NEW d \in Conversations, Converse(d), d # c
        PROVE  status'[c] = status[c] /\ assistant_turns'[c] = assistant_turns[c]
    BY <1>3
       DEF Converse, AskServer, Respond, Refuse, GatherAnswers, RaiseFromTool,
           turns, LoopTypeOK
  <1>4. CASE AskServer(c)
    <2>1. /\ status[c] = "ready" /\ status'[c] = "generating"
          /\ assistant_turns'[c] = assistant_turns[c]
      BY <1>4 DEF AskServer, turns, LoopTypeOK
    <2> QED BY <1>1, <2>1 DEF Asks
  <1>5. CASE Respond(c)
    <2>1. /\ status[c] = "generating" /\ status'[c] \in {"done", "calling"}
          /\ assistant_turns'[c] = assistant_turns[c] + 1
      BY <1>5 DEF Respond, LoopTypeOK
    <2> QED BY <1>1, <2>1 DEF Asks
  <1>6. CASE GatherAnswers(c) \/ RaiseFromTool(c)
    <2>1. /\ status[c] = "calling" /\ status'[c] \in {"done", "ready", "raised"}
          /\ assistant_turns'[c] = assistant_turns[c]
      BY <1>6 DEF GatherAnswers, RaiseFromTool, turns, LoopTypeOK
    <2> QED BY <1>1, <2>1 DEF Asks
  <1>11. CASE Refuse(c)
    <2>1. /\ status[c] = "generating" /\ status'[c] = "raised"
          /\ assistant_turns'[c] = assistant_turns[c]
      BY <1>11 DEF Refuse, turns, LoopTypeOK
    <2> QED BY <1>1, <2>1 DEF Asks
  <1>7. CASE StartBatch
    <2>1. CASE c \in Batch'
      <3>1. status[c] = "idle"
        BY <1>7, <2>1, BatchIs, BatchOfType
           DEF StartBatch, BatchesInOrder, LoopTypeOK
      <3> QED BY <3>1 DEF Asks
    <2>2. CASE c \notin Batch'
      BY <1>2, <1>7, <2>2 DEF StartBatch, turns
    <2> QED BY <2>1, <2>2
  <1>8. CASE GatherOutputs
    <2>1. CASE c \in Batch
      <3>1. status'[c] = "returned"
        BY <1>8, <2>1 DEF GatherOutputs
      <3> QED BY <3>1, Sizes DEF Asks
    <2>2. CASE c \notin Batch
      <3>1. status[c] \in {"idle", "returned"} /\ status'[c] = status[c]
        BY <1>8, <2>2, BatchIs, BatchOfType
           DEF GatherOutputs, BatchesInOrder, LoopTypeOK
      <3> QED BY <3>1 DEF Asks
    <2> QED BY <2>1, <2>2
  <1>9. ASSUME NEW x \in Callers, Call(x)
        PROVE  UNCHANGED <<status, turns>>
    BY <1>9 DEF Call, Execute, FunctionReturns, FunctionRaises, ExecuteFails
  <1>10. CASE \/ PostprocessRaises \/ GatherException \/ Limit
              \/ LoseLimiter \/ UNCHANGED vars
    BY <1>2, <1>10
       DEF PostprocessRaises, GatherException, Limit, LoseLimiter, vars, turns
  <1> QED
    BY <1>2, <1>3, <1>4, <1>5, <1>6, <1>7, <1>8, <1>9, <1>10, <1>11
       DEF Next, Progress, Converse, turns

(* A server's count rises by a request that was not made before.            *)
LEMMA LoadKept ==
  ASSUME LoopTypeOK, BatchesInOrder, TurnsAlternate, LoadIsAskedFor, [Next]_vars
  PROVE  LoadIsAskedFor'
PROOF
  <1>1. Asked \subseteq Asked'
    BY AsksGrow DEF Asked
  <1>2. /\ IsFiniteSet(Asked') /\ Cardinality(Asked') \in Nat
        /\ IsFiniteSet(Asked) /\ Cardinality(Asked) \in Nat
    BY AskedIsFinite DEF Asked
  <1>3. Cardinality(Asked) <= Cardinality(Asked')
    BY <1>1, <1>2, FS_Subset
  <1>4. CASE load' = load
    BY <1>2, <1>3, <1>4 DEF LoadIsAskedFor, LoopTypeOK
  <1>5. ASSUME NEW c \in Conversations, AskServer(c)
        PROVE  LoadIsAskedFor'
    <2> DEFINE p == <<c, assistant_turns[c] + 1>>
    <2>1. /\ status[c] = "ready" /\ status'[c] = "generating"
          /\ assistant_turns'[c] = assistant_turns[c]
          /\ assistant_turns[c] \in Nat
      BY <1>5 DEF AskServer, turns, LoopTypeOK
    <2>2. assistant_turns[c] + 1 \in 1 .. ResponseLength
      <3>1. TurnsOf(c) /\ Len(mask[c]) \in Nat
        BY TurnsSplit DEF LoopTypeOK
      <3> QED BY <2>1, <3>1, Sizes DEF TurnsOf, LastOf
    <2>3. p \in Asked' /\ p \notin Asked
      BY <2>1, <2>2 DEF Asked, Asks
    <2> HIDE DEF p
    <2>4. Asked \cup {p} \subseteq Asked'
      BY <1>1, <2>3
    <2>5. Cardinality(Asked \cup {p}) = Cardinality(Asked) + 1
      BY <1>2, <2>3, FS_AddElement
    <2>6. Cardinality(Asked) + 1 <= Cardinality(Asked')
      BY <1>2, <2>4, <2>5, FS_Subset
    <2>7. \A s \in Servers : load[s] \in Nat /\ load'[s] \in {load[s], load[s] + 1}
      BY <1>5 DEF AskServer, ChooseServer, LoopTypeOK
    <2> QED BY <1>2, <2>6, <2>7 DEF LoadIsAskedFor
  <1>6. ASSUME NEW c \in Conversations, Converse(c), ~AskServer(c)
        PROVE  load' = load
    BY <1>6 DEF Converse, Respond, Refuse, GatherAnswers, RaiseFromTool, manager
  <1>7. ASSUME NEW x \in Callers, Call(x)
        PROVE  load' = load
    BY <1>7 DEF Call, Execute, FunctionReturns, FunctionRaises, ExecuteFails,
                manager
  <1>8. CASE \/ StartBatch \/ GatherOutputs \/ PostprocessRaises
             \/ GatherException \/ Limit \/ LoseLimiter \/ UNCHANGED vars
    BY <1>4, <1>8 DEF StartBatch, GatherOutputs, PostprocessRaises,
                      GatherException, Limit, LoseLimiter, vars, manager
  <1> QED BY <1>4, <1>5, <1>6, <1>7, <1>8 DEF Next, Progress

-----------------------------------------------------------------------------
(* The mapping.  Its conversations are those that have asked, the current   *)
(* batch's last; and it holds all of those if it can hold a batch.          *)
RecentInOrder ==
    /\ \A i \in DOMAIN recent :
           BatchOf(recent[i]) < batch \/ recent[i] \in Started
    /\ \A i, j \in DOMAIN recent :
           i < j => /\ BatchOf(recent[i]) <= BatchOf(recent[j])
                    /\ recent[i] # recent[j]
    /\ BatchSize <= CacheSize => \A c \in Started : IsCached(c)

(* A conversation starts with its first request and nothing undoes that.    *)
LEMMA StartedKept ==
  ASSUME LoopTypeOK, BatchesInOrder, TurnsAlternate, [Next]_vars,
         ~StartBatch, \A c \in Conversations : ~AskServer(c)
  PROVE  Started' = Started /\ UNCHANGED <<batch, manager>>
PROOF
  <1>1. UNCHANGED <<batch, manager>>
    BY DEF Next, Progress, Converse, Call, Limit, LoseLimiter, GatherOutputs,
           PostprocessRaises, GatherException, Respond, Refuse, GatherAnswers,
           RaiseFromTool, Execute,
           FunctionReturns, FunctionRaises, ExecuteFails, vars
  <1> DEFINE Has(c) == status[c] \notin {"idle", "ready"} \/ assistant_turns[c] > 0
  <1>2. SUFFICES ASSUME NEW c \in Conversations, BatchOf(c) = batch
                 PROVE  Has(c)' <=> Has(c)
    BY <1>1, BatchIs DEF Started
  <1>3. CASE status'[c] = status[c] /\ assistant_turns'[c] = assistant_turns[c]
    BY <1>3
  <1>4. ASSUME NEW d \in Conversations, Converse(d), d # c
        PROVE  status'[c] = status[c] /\ assistant_turns'[c] = assistant_turns[c]
    BY <1>4
       DEF Converse, AskServer, Respond, Refuse, GatherAnswers, RaiseFromTool,
           turns, LoopTypeOK
  <1>5. CASE Respond(c) \/ Refuse(c)
    <2>1. status[c] = "generating" /\ status'[c] \in {"done", "calling", "raised"}
      BY <1>5 DEF Respond, Refuse, LoopTypeOK
    <2> QED BY <2>1
  <1>6. CASE GatherAnswers(c) \/ RaiseFromTool(c)
    <2>1. /\ status[c] = "calling" /\ status'[c] \in {"done", "ready", "raised"}
          /\ assistant_turns'[c] = assistant_turns[c]
      BY <1>6 DEF GatherAnswers, RaiseFromTool, turns, LoopTypeOK
    <2>2. assistant_turns[c] > 0
      BY <2>1, TurnsSplit DEF TurnsOf, LoopTypeOK
    <2> QED BY <2>1, <2>2
  <1>7. CASE GatherOutputs
    <2>1. status[c] = "done" /\ status'[c] = "returned"
      BY <1>2, <1>7, BatchIs DEF GatherOutputs
    <2> QED BY <2>1
  <1>8. ASSUME NEW x \in Callers, Call(x)
        PROVE  UNCHANGED <<status, turns>>
    BY <1>8 DEF Call, Execute, FunctionReturns, FunctionRaises, ExecuteFails
  <1>9. CASE \/ PostprocessRaises \/ GatherException \/ Limit
              \/ LoseLimiter \/ UNCHANGED vars
    BY <1>3, <1>9
       DEF PostprocessRaises, GatherException, Limit, LoseLimiter, vars, turns
  <1>10. CASE Converse(c)
    BY <1>5, <1>6, <1>10 DEF Converse
  <1> HIDE DEF Has
  <1> QED
    BY <1>3, <1>4, <1>7, <1>8, <1>9, <1>10 DEF Next, Progress, turns, Has

(* A conversation starts with its first request.                            *)
LEMMA StartedByAsking ==
  ASSUME LoopTypeOK, BatchesInOrder, NEW c \in Conversations, AskServer(c)
  PROVE  Started' = Started \cup {c} /\ BatchOf(c) = batch /\ batch' = batch
PROOF
  <1>1. /\ status[c] = "ready" /\ status'[c] = "generating" /\ batch' = batch
        /\ \A d \in Conversations \ {c} : status'[d] = status[d]
        /\ assistant_turns' = assistant_turns
    BY DEF AskServer, LoopTypeOK, turns
  <1>2. BatchOf(c) = batch
    <2>1. BatchOf(c) \in Nat /\ batch \in Nat
      BY BatchOfType, Sizes DEF LoopTypeOK
    <2>2. ~(BatchOf(c) > batch) /\ ~(BatchOf(c) < batch)
      BY <1>1 DEF BatchesInOrder
    <2> QED BY <2>1, <2>2
  <1> QED BY <1>1, <1>2, BatchIs DEF Started

(* A new batch has started nothing.                                         *)
LEMMA NoneStarted ==
  ASSUME LoopTypeOK, BatchesInOrder, TurnsAlternate, StartBatch
  PROVE  Started' = {} /\ UNCHANGED manager /\ batch' = batch + 1
PROOF
  <1>1. ASSUME NEW c \in Batch'
        PROVE  c \in Conversations /\ status'[c] = "ready"
               /\ assistant_turns'[c] = 0
    <2>1. c \in Conversations /\ status[c] = "idle"
      BY <1>1, BatchIs, BatchOfType DEF StartBatch, BatchesInOrder, LoopTypeOK
    <2>2. assistant_turns[c] = 0
      BY <2>1, TurnsSplit DEF TurnsOf
    <2> QED BY <1>1, <2>1, <2>2 DEF StartBatch, turns
  <1> QED BY <1>1 DEF Started, StartBatch

(* A mapping of a whole batch and more has its oldest entry to spare, when  *)
(* a conversation of the batch is not in it.                                *)
LEMMA FirstIsOfOldBatch ==
  ASSUME LoopTypeOK, BatchesInOrder, RecentInOrder, NEW c \in Conversations,
         BatchOf(c) = batch, ~IsCached(c), Len(recent) = CacheSize,
         BatchSize <= CacheSize
  PROVE  recent[1] \notin Started
PROOF
  <1>1. /\ recent \in Seq(Conversations) /\ Len(recent) \in Nat \ {0}
        /\ DOMAIN recent = 1 .. Len(recent)
        /\ \A i \in 1 .. Len(recent) : recent[i] \in Conversations
    BY Sizes DEF LoopTypeOK
  <1>2. SUFFICES ASSUME recent[1] \in Started PROVE FALSE
    OBVIOUS
  <1>3. BatchOf(recent[1]) = batch
    BY <1>2, BatchIs DEF Started
  <1> DEFINE S == 1 .. Len(recent)
             T == Batch \ {c}
             f == [i \in S |-> recent[i]]
  <1>4. \A i \in S : recent[i] \in T
    <2> SUFFICES ASSUME NEW i \in S PROVE recent[i] \in T
      OBVIOUS
    <2>1. recent[i] # c
      BY <1>1 DEF IsCached
    <2>2. BatchOf(recent[i]) >= batch
      <3>1. CASE i = 1
        BY <1>3, <3>1, BatchOfType, <1>1
      <3>2. CASE i > 1
        BY <1>1, <1>3, <3>2 DEF RecentInOrder
      <3> QED BY <1>1, <3>1, <3>2
    <2>3. recent[i] \in Started
      <3>1. BatchOf(recent[i]) < batch \/ recent[i] \in Started
        BY <1>1 DEF RecentInOrder
      <3> QED BY <1>1, <2>2, <3>1, BatchOfType DEF LoopTypeOK
    <2> QED BY <2>1, <2>3 DEF Started
  <1>5. batch \in 1 .. NBatches
    BY BatchOfType DEF LoopTypeOK
  <1>6. IsFiniteSet(T) /\ Cardinality(T) = BatchSize - 1
    <2>1. c \in Batch
      BY BatchIs
    <2> QED BY <1>5, <2>1, BatchCardinality, FS_RemoveElement
  <1>7. IsFiniteSet(S) /\ Cardinality(S) = Len(recent)
    BY <1>1, FS_Interval
  <1>8. Cardinality(T) < Cardinality(S)
    BY <1>6, <1>7, Sizes
  <1>9. f \in [S -> T]
    BY <1>4
  <1> HIDE DEF S, T, f
  <1>10. PICK i, j \in S : i # j /\ f[i] = f[j]
    BY <1>6, <1>7, <1>8, <1>9, FS_PigeonHole
  <1>11. recent[i] = recent[j] /\ i \in DOMAIN recent /\ j \in DOMAIN recent
         /\ i \in Nat /\ j \in Nat
    BY <1>1, <1>10 DEF S, f
  <1> QED BY <1>10, <1>11 DEF RecentInOrder

(* A request moves its conversation to the end of the mapping, of which it  *)
(* is in the last batch.                                                    *)
LEMMA RecentByAsking ==
  ASSUME LoopTypeOK, BatchesInOrder, RecentInOrder,
         NEW c \in Conversations, AskServer(c)
  PROVE  RecentInOrder'
PROOF
  <1>1. Started' = Started \cup {c} /\ BatchOf(c) = batch /\ batch' = batch
    BY StartedByAsking
  <1>2. /\ recent \in Seq(Conversations) /\ Len(recent) \in Nat
        /\ DOMAIN recent = 1 .. Len(recent)
        /\ \A i \in 1 .. Len(recent) : recent[i] \in Conversations
    BY DEF LoopTypeOK
  <1>3. /\ \A d \in Conversations : BatchOf(d) \in Nat
        /\ batch \in Nat
        /\ \A d \in Started : BatchOf(d) = batch
    BY BatchOfType, BatchIs, Sizes DEF LoopTypeOK, Started
  <1>4. /\ \A i \in 1 .. Len(recent) :
               /\ BatchOf(recent[i]) < batch \/ recent[i] \in Started
               /\ BatchOf(recent[i]) <= batch
        /\ \A i, j \in 1 .. Len(recent) :
               i < j => /\ BatchOf(recent[i]) <= BatchOf(recent[j])
                        /\ recent[i] # recent[j]
    <2>1. ASSUME NEW i \in 1 .. Len(recent)
          PROVE  /\ BatchOf(recent[i]) < batch \/ recent[i] \in Started
                 /\ BatchOf(recent[i]) <= batch
      <3>1. BatchOf(recent[i]) < batch \/ recent[i] \in Started
        BY <1>2 DEF RecentInOrder
      <3> QED BY <1>2, <1>3, <3>1
    <2> QED BY <1>2, <2>1 DEF RecentInOrder
  <1> DEFINE Kept(k, g) ==
                 /\ recent' \in Seq(Conversations)
                 /\ Len(recent') = k + 1 /\ recent'[k + 1] = c
                 /\ \A j \in 1 .. k : recent'[j] = recent[g[j]] /\ recent[g[j]] # c
                 /\ \A i, j \in 1 .. k : i < j => g[i] < g[j]
                 /\ BatchSize <= CacheSize => \A d \in Started \ {c} :
                        \E j \in 1 .. k : recent'[j] = d
  <1>5. SUFFICES \E k \in Nat : \E g \in [1 .. k -> 1 .. Len(recent)] : Kept(k, g)
    <2>0. PICK k \in Nat : \E g \in [1 .. k -> 1 .. Len(recent)] : Kept(k, g)
      BY <1>5
    <2> PICK g \in [1 .. k -> 1 .. Len(recent)] : Kept(k, g)
      BY <2>0
    <2> DEFINE n == k + 1
    <2>1. /\ DOMAIN recent' = 1 .. n /\ n \in 1 .. n
          /\ \A j \in 1 .. n : j = n \/ j \in 1 .. k
      OBVIOUS
    <2>2. \A i \in 1 .. n : BatchOf(recent'[i]) < batch \/ recent'[i] \in Started \cup {c}
      BY <1>4, <2>1
    <2>6. \A j \in 1 .. k : /\ g[j] \in 1 .. Len(recent)
                             /\ recent'[j] = recent[g[j]]
                             /\ recent[g[j]] # c
      OBVIOUS
    <2>7. recent'[n] = c /\ \A i, j \in 1 .. k : i < j => g[i] < g[j]
      OBVIOUS
    <2>3. ASSUME NEW i \in 1 .. n, NEW j \in 1 .. n, i < j
          PROVE  BatchOf(recent'[i]) <= BatchOf(recent'[j])
                 /\ recent'[i] # recent'[j]
      <3>1. i \in 1 .. k
        BY <2>3
      <3>2. CASE j = n
        <4>1. recent'[j] = c /\ recent'[i] = recent[g[i]] /\ recent[g[i]] # c
              /\ g[i] \in 1 .. Len(recent)
          BY <2>6, <2>7, <3>1, <3>2
        <4>2. BatchOf(recent[g[i]]) <= batch
          BY <1>4, <4>1
        <4> QED BY <1>1, <4>1, <4>2
      <3>3. CASE j \in 1 .. k
        <4>1. g[i] < g[j] /\ g[i] \in 1 .. Len(recent) /\ g[j] \in 1 .. Len(recent)
          BY <2>3, <2>6, <2>7, <3>1, <3>3
        <4>2. recent'[i] = recent[g[i]] /\ recent'[j] = recent[g[j]]
          BY <2>6, <3>1, <3>3
        <4>3. BatchOf(recent[g[i]]) <= BatchOf(recent[g[j]])
              /\ recent[g[i]] # recent[g[j]]
          BY <1>4, <4>1
        <4> QED BY <4>2, <4>3
      <3> QED BY <2>1, <3>2, <3>3
    <2>4. BatchSize <= CacheSize =>
              \A d \in Started \cup {c} : \E j \in 1 .. n : recent'[j] = d
      <3>1. \A j \in 1 .. k : j \in 1 .. n
        OBVIOUS
      <3> QED BY <2>1, <3>1
    <2> HIDE DEF n, Kept
    <2>5. /\ \A i \in DOMAIN recent' :
                 BatchOf(recent'[i]) < batch' \/ recent'[i] \in Started'
          /\ \A i, j \in DOMAIN recent' :
                 i < j => /\ BatchOf(recent'[i]) <= BatchOf(recent'[j])
                          /\ recent'[i] # recent'[j]
          /\ BatchSize <= CacheSize => \A d \in Started' :
                 \E j \in DOMAIN recent' : recent'[j] = d
      BY <1>1, <2>1, <2>2, <2>3, <2>4
    <2> QED BY <2>5 DEF RecentInOrder, IsCached, BatchOf
  <1>6. CASE IsCached(c)
    <2>1. PICK i \in 1 .. Len(recent) :
              /\ recent[i] = c /\ recent' \in Seq(Conversations)
              /\ Len(recent') = Len(recent) /\ recent'[Len(recent)] = c
              /\ \A j \in 1 .. i - 1 : recent'[j] = recent[j]
              /\ \A j \in i .. Len(recent) - 1 : recent'[j] = recent[j + 1]
      <3>1. recent' = Touch(c)
        BY <1>6 DEF AskServer, ChooseServer
      <3>2. LoopTypeOK
        OBVIOUS
      <3> HIDE DEF Kept
      <3> QED BY <1>6, <3>1, <3>2, TouchIs, SMTT(30)
    <2> DEFINE k == Len(recent) - 1
               g == [j \in 1 .. k |-> IF j < i THEN j ELSE j + 1]
    <2>2. k \in Nat /\ g \in [1 .. k -> 1 .. Len(recent)]
      BY <1>2
    <2>3. ASSUME NEW j \in 1 .. k
          PROVE  recent'[j] = recent[g[j]] /\ recent[g[j]] # c
      <3>1. CASE j < i
        BY <1>2, <1>4, <2>1, <3>1
      <3>2. CASE ~(j < i)
        BY <1>2, <1>4, <2>1, <3>2
      <3> QED BY <3>1, <3>2
    <2>4. \A l, j \in 1 .. k : l < j => g[l] < g[j]
      BY <1>2
    <2>5. ASSUME BatchSize <= CacheSize, NEW d \in Started \ {c}
          PROVE  \E j \in 1 .. k : recent'[j] = d
      <3>1. PICK l \in 1 .. Len(recent) : recent[l] = d
        BY <1>2, <2>5 DEF RecentInOrder, IsCached
      <3>2. l # i
        BY <2>1, <2>5, <3>1
      <3>3. CASE l < i
        <4>1. l \in 1 .. k /\ l \in 1 .. i - 1
          BY <1>2, <3>3
        <4> QED BY <2>1, <3>1, <4>1
      <3>4. CASE l > i
        <4>1. l - 1 \in 1 .. k /\ l - 1 \in i .. Len(recent) - 1 /\ (l - 1) + 1 = l
          BY <1>2, <3>4
        <4>2. recent'[l - 1] = recent[(l - 1) + 1]
          BY <2>1, <4>1
        <4> QED BY <3>1, <4>1, <4>2
      <3> QED BY <1>2, <3>2, <3>3, <3>4
    <2>6. Kept(k, g)
      <3> HIDE DEF g
      <3> QED BY <1>2, <2>1, <2>2, <2>3, <2>4, <2>5
    <2> HIDE DEF g, k, Kept
    <2> QED BY <2>2, <2>6
  <1>7. CASE ~IsCached(c)
    <2>1. PICK m \in {0, 1} :
              /\ m = 0 => Len(recent) < CacheSize
              /\ m = 1 => Len(recent) = CacheSize
              /\ recent' \in Seq(Conversations)
              /\ Len(recent') = Len(recent) + 1 - m
              /\ recent'[Len(recent) + 1 - m] = c
              /\ \A j \in 1 .. Len(recent) - m : recent'[j] = recent[j + m]
      BY <1>7, InsertIs DEF AskServer, ChooseServer
    <2> DEFINE k == Len(recent) - m
               g == [j \in 1 .. k |-> j + m]
    <2>2. k \in Nat /\ g \in [1 .. k -> 1 .. Len(recent)]
          /\ (m = 1 => Len(recent) = CacheSize)
      <3>1. Len(recent) <= CacheSize /\ CacheSize \in Nat \ {0}
        BY Sizes DEF LoopTypeOK
      <3>2. m = 1 => Len(recent) = CacheSize
        BY <1>2, <2>1, <3>1
      <3>4. k \in Nat
        <4>1. CASE m = 0
          BY <1>2, <4>1
        <4>2. CASE m = 1
          BY <1>2, <3>1, <3>2, <4>2
        <4> QED BY <4>1, <4>2
      <3>3. \A j \in 1 .. k : j + m \in 1 .. Len(recent)
        BY <1>2
      <3> QED BY <2>1, <3>2, <3>3, <3>4
    <2>3. ASSUME NEW j \in 1 .. k
          PROVE  recent'[j] = recent[g[j]] /\ recent[g[j]] # c
      <3>1. recent'[j] = recent[j + m] /\ j + m \in 1 .. Len(recent)
        BY <1>2, <2>1
      <3> QED BY <1>2, <1>7, <3>1 DEF IsCached
    <2>4. \A l, j \in 1 .. k : l < j => g[l] < g[j]
      BY <1>2
    <2>5. ASSUME BatchSize <= CacheSize, NEW d \in Started \ {c}
          PROVE  \E j \in 1 .. k : recent'[j] = d
      <3>1. PICK l \in 1 .. Len(recent) : recent[l] = d
        BY <1>2, <2>5 DEF RecentInOrder, IsCached
      <3>2. m = 1 => l # 1
        BY <1>1, <1>7, <2>2, <2>5, <3>1, FirstIsOfOldBatch
      <3>3. l - m \in 1 .. k /\ (l - m) + m = l
        BY <1>2, <3>2
      <3>4. recent'[l - m] = recent[(l - m) + m]
        BY <2>1, <3>3
      <3> QED BY <3>1, <3>3, <3>4
    <2>6. Len(recent') = k + 1 /\ recent'[k + 1] = c
      <3>1. k + 1 = Len(recent) + 1 - m
        BY <1>2
      <3> QED BY <2>1, <3>1
    <2>7. Kept(k, g)
      <3> HIDE DEF g, k
      <3> QED BY <2>1, <2>2, <2>3, <2>4, <2>5, <2>6
    <2> HIDE DEF g, k, Kept
    <2> QED BY <2>2, <2>7
  <1> QED BY <1>6, <1>7

(* Every step keeps the order of the mapping.                               *)
LEMMA RecentKept ==
  ASSUME LoopTypeOK, BatchesInOrder, TurnsAlternate, RecentInOrder, [Next]_vars
  PROVE  RecentInOrder'
PROOF
  <1>1. CASE StartBatch
    <2>1. Started' = {} /\ recent' = recent /\ batch' = batch + 1
      BY <1>1, NoneStarted DEF manager
    <2>2. \A i \in DOMAIN recent : BatchOf(recent[i]) < batch + 1
      <3>1. \A i \in DOMAIN recent : recent[i] \in Conversations
        BY DEF LoopTypeOK
      <3>2. \A c \in Started : BatchOf(c) = batch
        BY BatchIs DEF Started
      <3>3. batch \in Nat
        BY Sizes DEF LoopTypeOK
      <3> QED BY <3>1, <3>2, <3>3, BatchOfType DEF RecentInOrder
    <2> QED BY <2>1, <2>2 DEF RecentInOrder, BatchOf
  <1>2. CASE ~StartBatch /\ \A c \in Conversations : ~AskServer(c)
    <2>1. Started' = Started /\ batch' = batch /\ recent' = recent
      BY <1>2, StartedKept DEF manager
    <2> QED BY <2>1 DEF RecentInOrder, BatchOf, IsCached
  <1> QED BY <1>1, <1>2, RecentByAsking

-----------------------------------------------------------------------------
(* The shares.  Counts that differ by at most one, and differ as the shares *)
(* of the current batch do: those of whole batches are equal.               *)
FairlyDealt == BatchSize <= CacheSize /\ BatchSize % Cardinality(Servers) = 0
Share(s) == Cardinality(Fibre(server, Started, s))
SharesAreEven ==
    FairlyDealt =>
        \A s, t \in Servers : /\ load[s] <= load[t] + 1
                              /\ load[s] + Share(t) = load[t] + Share(s)

(* At most a batch is started.                                              *)
LEMMA StartedIsFinite ==
  ASSUME LoopTypeOK
  PROVE  /\ IsFiniteSet(Started) /\ Cardinality(Started) \in 0 .. BatchSize
         /\ Started # {} => batch \in 1 .. NBatches
PROOF
  <1>1. Started \in SUBSET Batch
    BY DEF Started
  <1>2. CASE batch = 0
    <2>1. Batch = {}
      BY <1>2, BatchIs, BatchOfType
    <2>2. Started = {}
      BY <1>1, <2>1
    <2> QED BY <2>2, FS_EmptySet, Sizes
  <1>3. CASE batch \in 1 .. NBatches
    <2>1. IsFiniteSet(Batch) /\ Cardinality(Batch) = BatchSize
      BY <1>3, BatchCardinality
    <2>2. /\ IsFiniteSet(Started) /\ Cardinality(Started) <= Cardinality(Batch)
          /\ Cardinality(Started) \in Nat
      BY <1>1, <2>1, FS_Subset, FS_CardinalityType
    <2> QED BY <1>3, <2>1, <2>2, Sizes
  <1> QED BY <1>2, <1>3, Sizes DEF LoopTypeOK

(* There is a server.                                                       *)
LEMMA ServersAre == /\ IsFiniteSet(Servers)
                    /\ Cardinality(Servers) \in Nat \ {0}
PROOF
  <1>1. IsFiniteSet(Servers) /\ Servers # {}
    BY AgentLoopAssumption
  <1>2. Cardinality(Servers) \in Nat /\ Cardinality(Servers) # 0
    BY <1>1, FS_CardinalityType, FS_EmptySet
  <1> QED BY <1>1, <1>2

(* A batch that the servers divide evenly gives each as many.               *)
LEMMA FairShare ==
  ASSUME FairlyDealt
  PROVE  /\ BatchSize \div Cardinality(Servers) \in Nat
         /\ Cardinality(Servers) * (BatchSize \div Cardinality(Servers)) = BatchSize
PROOF
  <1> DEFINE n == Cardinality(Servers)
  <1>1. n \in Nat \ {0} /\ BatchSize \in Nat /\ BatchSize % n = 0
    BY ServersAre, Sizes DEF FairlyDealt
  <1> HIDE DEF n
  <1>2. BatchSize \div n \in Nat /\ n * (BatchSize \div n) = BatchSize
    BY <1>1
  <1> QED BY <1>2 DEF n

(* Shares and counts are numbers.                                           *)
LEMMA ShareTypes ==
  ASSUME LoopTypeOK
  PROVE  \A s \in Servers : Share(s) \in Nat /\ load[s] \in Nat
PROOF
  <1>1. \A s : Share(s) \in 0 .. Cardinality(Started) /\ Cardinality(Started) \in Nat
    BY StartedIsFinite, FibresAreFinite DEF Share
  <1> QED BY <1>1 DEF LoopTypeOK

(* What counting gives at any time, and when all conversations have asked.  *)
LEMMA SharesOfBatch ==
  ASSUME LoopTypeOK, SharesAreEven, FairlyDealt
  PROVE  LET k == BatchSize \div Cardinality(Servers)
         IN  /\ \A s \in Servers : Share(s) <= k
             /\ Cardinality(Started) = BatchSize
                    => \A s \in Servers : Share(s) = k
PROOF
  <1> DEFINE k == BatchSize \div Cardinality(Servers)
             S == Started
             n == Cardinality(Servers)
  <1>1. k \in Nat /\ n * k = BatchSize
    BY FairShare
  <1>2. IsFiniteSet(S) /\ Cardinality(S) \in 0 .. BatchSize
    BY StartedIsFinite
  <1>3. \A c \in S : server[c] \in Servers
    BY DEF Started, Batch, LoopTypeOK
  <1>4. \A s, t \in Servers : Share(s) <= Share(t) + 1
    BY ShareTypes DEF SharesAreEven
  <1>5. \A s, t \in Servers : Cardinality(Fibre(server, S, s))
                                  <= Cardinality(Fibre(server, S, t)) + 1
    BY <1>4 DEF Share
  <1> HIDE DEF S, k
  <1>6. /\ Cardinality(S) <= Cardinality(Servers) * k
               => \A s \in Servers : Cardinality(Fibre(server, S, s)) <= k
        /\ Cardinality(S) = Cardinality(Servers) * k
               => \A s \in Servers : Cardinality(Fibre(server, S, s)) = k
    BY <1>1, <1>2, <1>3, <1>5, ServersAre, EvenShares
  <1>7. Cardinality(S) <= BatchSize
    BY <1>2, Sizes
  <1> QED BY <1>1, <1>6, <1>7 DEF Share, S, k

(* A first request goes to a server with the least count, and a later one   *)
(* changes no count.                                                        *)
LEMMA SharesByAsking ==
  ASSUME LoopTypeOK, BatchesInOrder, RecentInOrder, SharesAreEven, LoopTypeOK',
         NEW c \in Conversations, AskServer(c), FairlyDealt
  PROVE  \A s, t \in Servers : /\ load'[s] <= load'[t] + 1
                               /\ load'[s] + Share(t)' = load'[t] + Share(s)'
PROOF
  <1>1. Started' = Started \cup {c} /\ BatchOf(c) = batch
    BY StartedByAsking
  <1>2. CASE IsCached(c)
    <2>1. UNCHANGED <<load, server>>
      BY <1>2 DEF AskServer, ChooseServer
    <2>2. c \in Started
      BY <1>1, <1>2, Sizes DEF IsCached, RecentInOrder, LoopTypeOK
    <2>3. \A s : Share(s)' = Share(s)
      BY <1>1, <2>1, <2>2 DEF Share, Fibre
    <2> QED BY <2>1, <2>3 DEF SharesAreEven
  <1>3. CASE ~IsCached(c)
    <2>1. PICK r \in LeastLoaded : /\ load' = [load EXCEPT ![r] = @ + 1]
                                   /\ server' = [server EXCEPT ![c] = r]
      BY <1>3 DEF AskServer, ChooseServer
    <2>2. r \in Servers /\ \A t \in Servers : load[r] <= load[t]
      BY DEF LeastLoaded
    <2>3. c \notin Started
      BY <1>3 DEF FairlyDealt, RecentInOrder
    <2>4. server'[c] = r /\ \A d \in Started : server'[d] = server[d]
      BY <2>1, <2>3 DEF LoopTypeOK, Started, Batch
    <2>5. ASSUME NEW s \in Servers, s # r
          PROVE  Share(s)' = Share(s) /\ load'[s] = load[s]
      <3>1. Fibre(server', Started', s) = Fibre(server, Started, s)
        BY <1>1, <2>3, <2>4, <2>5 DEF Fibre
      <3>2. Share(s)' = Cardinality(Fibre(server', Started', s))
        BY DEF Share, Fibre
      <3> QED BY <2>1, <2>5, <3>1, <3>2 DEF Share, LoopTypeOK
    <2>6. Share(r)' = Share(r) + 1 /\ load'[r] = load[r] + 1
      <3>1. Fibre(server', Started', r) = Fibre(server, Started, r) \cup {c}
        BY <1>1, <2>3, <2>4 DEF Fibre
      <3>2. c \notin Fibre(server, Started, r)
        BY <2>3 DEF Fibre
      <3>3. IsFiniteSet(Fibre(server, Started, r))
        BY StartedIsFinite, FibresAreFinite
      <3>4. Cardinality(Fibre(server', Started', r)) = Share(r) + 1
        BY <3>1, <3>2, <3>3, FS_AddElement DEF Share
      <3>5. Share(r)' = Cardinality(Fibre(server', Started', r))
        BY DEF Share, Fibre
      <3> QED BY <2>1, <2>2, <3>4, <3>5 DEF LoopTypeOK
    <2>7. \A s \in Servers : Share(s) \in Nat /\ load[s] \in Nat
      BY ShareTypes
    <2>8. ASSUME NEW s \in Servers, NEW t \in Servers
          PROVE  /\ load'[s] <= load'[t] + 1
                 /\ load'[s] + Share(t)' = load'[t] + Share(s)'
      <3>1. load[s] <= load[t] + 1 /\ load[s] + Share(t) = load[t] + Share(s)
        BY DEF SharesAreEven
      <3>2. load[r] <= load[t] /\ load[r] <= load[s]
        BY <2>2
      <3> HIDE DEF Share
      <3>3. CASE s = r /\ t = r
        BY <3>3, <2>6, <2>7
      <3>4. CASE s = r /\ t # r
        BY <3>1, <3>2, <3>4, <2>5, <2>6, <2>7
      <3>5. CASE s # r /\ t = r
        BY <3>1, <3>2, <3>5, <2>5, <2>6, <2>7
      <3>6. CASE s # r /\ t # r
        BY <3>1, <3>6, <2>5
      <3> QED BY <3>3, <3>4, <3>5, <3>6
    <2> QED BY <2>8
  <1> QED BY <1>2, <1>3

(* Every step keeps the shares even.                                        *)
LEMMA SharesKept ==
  ASSUME LoopTypeOK, BatchesInOrder, TurnsAlternate, RecentInOrder,
         SharesAreEven, [Next]_vars
  PROVE  SharesAreEven'
PROOF
  <1> SUFFICES ASSUME FairlyDealt
               PROVE  \A s, t \in Servers :
                          /\ load'[s] <= load'[t] + 1
                          /\ load'[s] + Share(t)' = load'[t] + Share(s)'
    BY DEF SharesAreEven, FairlyDealt
  <1>1. \A s \in Servers : Share(s) \in Nat /\ load[s] \in Nat
    BY ShareTypes
  <1>2. \A s, t \in Servers : /\ load[s] <= load[t] + 1
                              /\ load[s] + Share(t) = load[t] + Share(s)
    BY DEF SharesAreEven
  <1>3. CASE StartBatch
    <2>1. Started' = {} /\ load' = load
      BY <1>3, NoneStarted DEF manager
    <2>2. \A s \in Servers : Share(s)' = 0
      BY <2>1, FS_EmptySet DEF Share, Fibre
    <2>3. Started = Batch
      <3>1. \A c \in Batch : status[c] \in {"idle", "returned"} /\ status[c] # "idle"
        BY <1>3, BatchIs DEF StartBatch, BatchesInOrder
      <3> QED BY <3>1 DEF Started
    <2>4. \A s, t \in Servers : Share(s) = Share(t)
      <3>1. CASE Started = {}
        BY <3>1, FS_EmptySet DEF Share, Fibre
      <3>2. CASE Started # {}
        <4>1. Cardinality(Started) = BatchSize
          BY <2>3, <3>2, StartedIsFinite, BatchCardinality
        <4> QED BY <4>1, SharesOfBatch
      <3> QED BY <3>1, <3>2
    <2> HIDE DEF Share
    <2> QED BY <1>1, <1>2, <2>1, <2>2, <2>4
  <1>4. CASE ~StartBatch /\ \A c \in Conversations : ~AskServer(c)
    <2>1. Started' = Started /\ UNCHANGED <<load, server>>
      BY <1>4, StartedKept DEF manager
    <2>2. \A s : Share(s)' = Share(s)
      BY <2>1 DEF Share, Fibre
    <2> QED BY <1>2, <2>1, <2>2
  <1>5. LoopTypeOK'
    BY TypesKept
  <1> QED BY <1>3, <1>4, <1>5, SharesByAsking

-----------------------------------------------------------------------------
LoopInv ==
    /\ LimiterInv
    /\ LoopTypeOK
    /\ BatchesInOrder
    /\ TurnsAlternate
    /\ CallsAreAwaited
    /\ LoadIsAskedFor
    /\ RecentInOrder
    /\ SharesAreEven

(* Nothing has been asked for at first.                                     *)
LEMMA LoopInitial == Init => LoopInv
PROOF
  <1> SUFFICES ASSUME Init PROVE LoopInv
    OBVIOUS
  <1>1. LimiterInv
    BY LimiterInitial DEF Init
  <1>2. LoopTypeOK
    <2>1. <<>> \in Seq({0, 1}) /\ <<>> \in Seq(Conversations) /\ Len(<<>>) = 0
      OBVIOUS
    <2>2. (CHOOSE s \in Servers : TRUE) \in Servers
      BY AgentLoopAssumption
    <2> QED BY <2>1, <2>2, Sizes
            DEF Init, LoopTypeOK, None, Statuses, Answers
  <1>3. BatchesInOrder
    BY BatchOfType DEF Init, BatchesInOrder, None
  <1>4. TurnsAlternate
    <2>1. Len(<<>>) = 0
      OBVIOUS
    <2> QED BY <2>1, Sizes DEF Init, None, TurnsAlternate, LastOf
  <1>5. CallsAreAwaited
    BY CallsOfConversations
       DEF Init, None, CallsAreAwaited, LimiterInit
  <1>6. LoadIsAskedFor
    BY AskedIsFinite DEF Init, LoadIsAskedFor, Asked
  <1>7. Started = {}
    BY DEF Init, None, Started, Batch
  <1>8. RecentInOrder
    <2>1. DOMAIN recent = {}
      BY DEF Init
    <2> QED BY <1>7, <2>1 DEF RecentInOrder
  <1>9. SharesAreEven
    <2>1. \A s : Share(s) = 0
      BY <1>7, FS_EmptySet DEF Share, Fibre
    <2> QED BY <2>1 DEF Init, SharesAreEven
  <1> QED BY <1>1, <1>2, <1>3, <1>4, <1>5, <1>6, <1>8, <1>9 DEF LoopInv

(* The parts together.                                                      *)
LEMMA LoopStep == LoopInv /\ [Next]_vars => LoopInv'
  BY StepOfLimiter, LimiterStep, TypesKept, BatchesKept, TurnsKept, CallsKept,
     LoadKept, RecentKept, SharesKept DEF LoopInv

(* The invariant of the agent loop holds for any numbers of servers,        *)
(* conversations and batches, and any lengths.                              *)
THEOREM LoopInvariant == Spec => []LoopInv
  BY LoopInitial, LoopStep, PTL DEF Spec

(* The types hold with the bounds on turns, masks and counts that the run   *)
(* checks.                                                                  *)
THEOREM AgentTypes == Spec => []AgentTypeOK
PROOF
  <1>1. LoopInv => AgentTypeOK
    <2> SUFFICES ASSUME LoopInv PROVE AgentTypeOK
      OBVIOUS
    <2>1. LoopTypeOK /\ LimiterTypeOK /\ LoadIsAskedFor
      BY DEF LoopInv, LimiterInv
    <2>2. ASSUME NEW c \in Conversations
          PROVE  /\ mask[c] \in Seq({0, 1})
                 /\ Len(mask[c]) < MaxModelLen \/ Len(mask[c]) < ResponseLength
                 /\ assistant_turns[c] \in 0 .. ResponseLength
                 /\ user_turns[c] \in 0 .. ResponseLength
      <3>1. TurnsOf(c)
        BY TurnsSplit DEF LoopInv
      <3>2. /\ mask[c] \in Seq({0, 1}) /\ Len(mask[c]) \in Nat
            /\ assistant_turns[c] \in Nat /\ user_turns[c] \in Nat
            /\ status[c] \in Statuses
        BY <2>1 DEF LoopTypeOK
      <3>3. LastOf(c) <= ResponseLength /\ LastOf(c) \in Nat
        BY <3>2, Sizes DEF LastOf
      <3>4. assistant_turns[c] <= LastOf(c) /\ user_turns[c] <= assistant_turns[c]
        BY <3>1, <3>2 DEF TurnsOf, Statuses
      <3>5. /\ \/ Len(mask[c]) + prompt[c] <= MaxModelLen
               \/ Len(mask[c]) < ResponseLength
            /\ prompt[c] \in Nat \ {0}
            /\ MaxModelLen \in Nat /\ ResponseLength \in Nat
        BY <2>1, <3>1, Sizes, PromptsAre DEF TurnsOf
      <3> QED BY <3>2, <3>3, <3>4, <3>5
    <2>3. load \in [Servers -> 0 .. Cardinality(Conversations) * ResponseLength]
      <3> DEFINE m == Cardinality(Conversations) * ResponseLength
                 a == Cardinality(Asked)
      <3>1. a <= m /\ a \in Nat
        BY AskedIsFinite DEF Asked
      <3>2. m \in Int
        <4>1. NBatches * BatchSize \in Nat /\ ResponseLength \in Nat
          BY Sizes
        <4>2. Cardinality(Conversations) \in Nat
          BY <4>1, FS_Interval, FS_CardinalityType DEF Conversations
        <4> QED BY <4>1, <4>2
      <3>3. \A s \in Servers : load[s] \in Nat /\ load[s] <= a
        BY <2>1 DEF LoopTypeOK, LoadIsAskedFor
      <3> HIDE DEF m, a
      <3>4. \A s \in Servers : load[s] \in 0 .. m
        BY <3>1, <3>2, <3>3
      <3> QED BY <2>1, <3>4 DEF LoopTypeOK, m
    <2>4. /\ assistant_turns \in [Conversations -> 0 .. ResponseLength]
          /\ user_turns \in [Conversations -> 0 .. ResponseLength]
      BY <2>1, <2>2 DEF LoopTypeOK
    <2> QED BY <2>1, <2>2, <2>3, <2>4 DEF AgentTypeOK, LoopTypeOK
  <1> QED BY <1>1, LoopInvariant, PTL

(* The reward of a conversation falls on a token of the model.              *)
THEOREM ModelEnds == Spec => []ModelHasTheLastWord
PROOF
  <1>1. LoopInv => ModelHasTheLastWord
    <2> SUFFICES ASSUME LoopInv, NEW c \in Conversations, status[c] = "done"
                 PROVE  /\ Output(c)[Len(Output(c))] = 1
                        /\ assistant_turns[c] = user_turns[c] + 1
      BY DEF ModelHasTheLastWord
    <2>1. /\ assistant_turns[c] = user_turns[c] + 1
          /\ Len(mask[c]) > 0 /\ mask[c][LastOf(c)] = 1
      BY DEF LoopInv, TurnsAlternate
    <2> DEFINE m == mask[c]
               n == LastOf(c)
    <2>2. m \in Seq({0, 1}) /\ Len(m) \in Nat /\ n \in 1 .. Len(m)
      BY <2>1, Sizes DEF LoopInv, LoopTypeOK, LastOf
    <2>3. Output(c) = SubSeq(m, 1, n)
      BY DEF Output, LastOf
    <2> HIDE DEF m, n
    <2>4. \A i \in 1 .. n : m[i] \in {0, 1}
      BY <2>2
    <2>5. Len(SubSeq(m, 1, n)) = n /\ SubSeq(m, 1, n)[n] = m[n]
      BY <2>2, <2>4, SubSeqProperties
    <2> QED BY <2>1, <2>3, <2>5 DEF m, n
  <1> QED BY <1>1, LoopInvariant, PTL

(* Whatever tools answer, and whatever the model's length is configured to, *)
(* a conversation whose prompt leaves room for a full response is never     *)
(* refused.                                                                 *)
THEOREM RoomIsLeft == Spec => []RoomToGenerate
PROOF
  <1>1. LoopInv => RoomToGenerate
    <2> SUFFICES ASSUME LoopInv, NEW c \in Conversations,
                        status[c] = "generating",
                        prompt[c] + ResponseLength <= MaxModelLen
                 PROVE  Room(c) > 0
      BY DEF RoomToGenerate
    <2>1. Len(mask[c]) \in Nat /\ Len(mask[c]) < ResponseLength
      BY DEF LoopInv, LoopTypeOK, TurnsAlternate
    <2>2. prompt[c] \in Nat
      BY PromptsAre DEF LoopInv
    <2> QED BY <2>1, <2>2, Sizes DEF Room
  <1> QED BY <1>1, LoopInvariant, PTL

(* A returned batch leaves no call, no token and no instance behind.        *)
THEOREM AllIsReleased == Spec => []NothingIsLeft
PROOF
  <1>1. LoopInv => NothingIsLeft
    <2> SUFFICES ASSUME LoopInv, outcome = "returned"
                 PROVE  Executing = {} /\ instances = {}
      BY DEF NothingIsLeft
    <2>1. \A c \in Conversations : status[c] \in {"idle", "returned"}
      BY BatchOfType, Sizes DEF LoopInv, BatchesInOrder, LoopTypeOK
    <2>2. \A x \in Callers : answer[x] = "none"
      BY <2>1, CallsOfConversations DEF LoopInv, CallsAreAwaited
    <2> QED BY <2>2 DEF LoopInv, CallsAreAwaited, LoopTypeOK, Executing
  <1> QED BY <1>1, LoopInvariant, PTL

(* No server is given more than its share of a batch.                       *)
THEOREM SharesAreKept == Spec => []EachServerHasItsShare
PROOF
  <1>1. LoopInv => EachServerHasItsShare
    BY SharesOfBatch
       DEF LoopInv, EachServerHasItsShare, FairlyDealt, Share, Fibre
  <1> QED BY <1>1, LoopInvariant, PTL

(* A conversation that has had a turn keeps its server.                     *)
THEOREM ServerStays == Spec => StaysWithServer
PROOF
  <1> DEFINE Stays == BatchSize <= CacheSize =>
                          \A c \in Conversations :
                              server'[c] # server[c] => assistant_turns[c] = 0
  <1>1. LoopInv /\ [Next]_vars => [Stays]_vars
    <2> SUFFICES ASSUME LoopInv, [Next]_vars, BatchSize <= CacheSize,
                        NEW c \in Conversations, server'[c] # server[c]
                 PROVE  assistant_turns[c] = 0
      OBVIOUS
    <2>1. /\ LoopTypeOK /\ BatchesInOrder /\ TurnsAlternate /\ RecentInOrder
      BY DEF LoopInv
    <2>2. ~StartBatch
      BY <2>1, NoneStarted DEF manager
    <2>3. PICK d \in Conversations : AskServer(d)
      BY <2>1, <2>2, StartedKept DEF manager
    <2>4. d = c /\ ~IsCached(c) /\ status[c] = "ready"
      BY <2>1, <2>3 DEF AskServer, ChooseServer, LoopTypeOK
    <2>5. c \notin Started /\ c \in Batch
      BY <2>1, <2>3, <2>4, StartedByAsking, BatchIs DEF RecentInOrder
    <2>6. ~(assistant_turns[c] > 0) /\ assistant_turns[c] \in Nat
      BY <2>1, <2>5 DEF Started, LoopTypeOK
    <2> QED BY <2>6
  <1> HIDE DEF Stays
  <1>2. [][Stays]_vars => StaysWithServer
    BY DEF Stays, StaysWithServer
  <1> QED BY <1>1, <1>2, LoopInvariant, PTL DEF Spec

===============================================================================
