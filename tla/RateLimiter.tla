----------------------------- MODULE RateLimiter -----------------------------
(***************************************************************************)
(* verl/tools/search_tool.py and sandbox_fusion_tools.py: the actor        *)
(* TokenBucketWorker, one for all tools of a job because it is created     *)
(* under one name, and the execute method of the workers that call it.     *)
(*                                                                         *)
(* The acquire calls run on a single thread of the actor, in the order     *)
(* they arrive, and the first one blocks it until a token is free; release *)
(* calls run on threads of their own.  execute registers the release       *)
(* before it asks for the token, and never waits for the release.          *)
(***************************************************************************)
EXTENDS Integers, Sequences, FiniteSets

CONSTANTS
    Callers,         \* calls of execute
    RateLimit        \* rate_limit of the tool that created the actor

ASSUME LimiterAssumption ==
    /\ IsFiniteSet(Callers)
    /\ RateLimit \in Nat \ {0}

VARIABLES
    permits,         \* value of _semaphore
    acquires,        \* acquire calls at the actor, in order of arrival
    releases,        \* release calls at the actor, not yet begun
    stage,           \* of each caller
    alive            \* the actor is

limiter == <<permits, acquires, releases, stage, alive>>

(* A call waits for its token, or runs its function.                        *)
Stages == {"idle", "queued", "running"}
Running == {c \in Callers : stage[c] = "running"}
Executing == {c \in Callers : stage[c] # "idle"}

LimiterTypeOK ==
    /\ permits \in Nat
    /\ acquires \in Seq(Callers)
    /\ releases \in Nat
    /\ stage \in [Callers -> Stages]
    /\ alive \in BOOLEAN

LimiterInit ==
    /\ permits = RateLimit
    /\ acquires = <<>>
    /\ releases = 0
    /\ stage = [c \in Callers |-> "idle"]
    /\ alive = TRUE

-----------------------------------------------------------------------------
(* execute: the release is registered and the acquire call sent.            *)
SendAcquire(c) ==
    /\ stage[c] = "idle"
    /\ alive
    /\ acquires' = Append(acquires, c)
    /\ stage' = [stage EXCEPT ![c] = "queued"]
    /\ UNCHANGED <<permits, releases, alive>>

(* acquire: the thread blocks until a token is free, then the call returns. *)
(* current_count, which acquire and release change without a lock, is only  *)
(* read by get_current_count, for reports, and left out.                    *)
TakeTokenAtOnce ==
    /\ alive
    /\ acquires # <<>>
    /\ permits' = IF permits > 0 THEN permits - 1 ELSE permits
    /\ stage' = [stage EXCEPT ![Head(acquires)] = "running"]
    /\ acquires' = Tail(acquires)
    /\ UNCHANGED <<releases, alive>>
TakeToken ==
    /\ alive
    /\ acquires # <<>>
    /\ permits > 0
    /\ permits' = permits - 1
    /\ stage' = [stage EXCEPT ![Head(acquires)] = "running"]
    /\ acquires' = Tail(acquires)
    /\ UNCHANGED <<releases, alive>>

(* The function returns or raises; leaving the ExitStack sends the release, *)
(* which a dead actor never executes.                                       *)
ReleaseIfOneWaits(c) ==
    /\ stage[c] = "running"
    /\ stage' = [stage EXCEPT ![c] = "idle"]
    /\ releases' = IF acquires # <<>> THEN releases + 1 ELSE releases
    /\ UNCHANGED <<permits, acquires, alive>>
SendRelease(c) ==
    /\ stage[c] = "running"
    /\ stage' = [stage EXCEPT ![c] = "idle"]
    /\ releases' = releases + 1
    /\ UNCHANGED <<permits, acquires, alive>>

(* release.                                                                 *)
ReturnToken ==
    /\ alive
    /\ releases > 0
    /\ releases' = releases - 1
    /\ permits' = permits + 1
    /\ UNCHANGED <<acquires, stage, alive>>

(* The actor dies with the process that created it.                         *)
LimiterDies ==
    /\ alive
    /\ alive' = FALSE
    /\ acquires' = <<>>
    /\ UNCHANGED <<permits, releases, stage>>

(* ray.get raises in every call that waits for a dead actor.                *)
FailAcquire(c) ==
    /\ ~alive
    /\ stage[c] = "queued"
    /\ stage' = [stage EXCEPT ![c] = "idle"]
    /\ UNCHANGED <<permits, acquires, releases, alive>>

ActorStep == TakeToken \/ ReturnToken

LimiterNext ==
    \/ \E c \in Callers : SendAcquire(c) \/ SendRelease(c) \/ FailAcquire(c)
    \/ ActorStep
    \/ LimiterDies

LimiterSpec == LimiterInit /\ [][LimiterNext]_limiter

-----------------------------------------------------------------------------
(* No more functions run at a time than there are tokens, whatever tools    *)
(* the calls come from.                                                     *)
RateIsRespected == Cardinality(Running) <= RateLimit

(* Tokens are neither lost nor made: each is in the semaphore, with a call  *)
(* or on its way back.                                                      *)
TokensAreConserved ==
    alive => permits + Cardinality(Running) + releases = RateLimit

=============================================================================
