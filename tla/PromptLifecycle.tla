--------------------------- MODULE PromptLifecycle ---------------------------
(***************************************************************************)
(* What pilot-commit promises about a prompt, whatever the buffer, the     *)
(* rounds and the bookkeeping look like.  Within an epoch a prompt is      *)
(* rolled out at most once for exploration and, if its pilot responses     *)
(* were informative, committed to at most one update; every update uses    *)
(* exactly BatchSize prompts.  Between epochs everything starts over       *)
(* except that prompts, once excluded, are gone.                           *)
(***************************************************************************)
EXTENDS Integers, FiniteSets

CONSTANTS
    Prompts,     \* the dataset
    ChunkSize,   \* prompts rolled out together
    BatchSize    \* prompts used by one update

VARIABLE stage   \* prompt -> where it is in the current epoch

Stages == {"unseen", "rolling", "pooled", "dropped", "staged", "trained",
           "excluded"}

In(s) == {p \in Prompts : stage[p] = s}

(* The prompts of P go to stage s, the others stay.                         *)
Move(P, s) == [p \in Prompts |-> IF p \in P THEN s ELSE stage[p]]

Init == stage = [p \in Prompts |-> "unseen"]

(* Some unseen prompts are rolled out.                                      *)
Explore ==
    \E P \in SUBSET In("unseen") :
        /\ Cardinality(P) = ChunkSize
        /\ stage' = Move(P, "rolling")

(* The prompts being rolled out are judged: informative ones are pooled.    *)
Judge ==
    \E P \in SUBSET In("rolling") :
        stage' = [p \in Prompts |->
                    IF p \in P THEN "pooled"
                    ELSE IF stage[p] = "rolling" THEN "dropped" ELSE stage[p]]

(* Pooled prompts are staged for the next update, never more than it needs. *)
Stage ==
    \E P \in SUBSET In("pooled") :
        /\ Cardinality(In("staged") \cup P) <= BatchSize
        /\ stage' = Move(P, "staged")

(* The staged prompts are trained on; stale pooled prompts may be dropped.  *)
Train ==
    /\ Cardinality(In("staged")) = BatchSize
    /\ \E old \in SUBSET In("pooled") :
        stage' = [p \in Prompts |->
                    IF stage[p] = "staged" THEN "trained"
                    ELSE IF p \in old THEN "dropped" ELSE stage[p]]

(* A new epoch, without the prompts excluded so far and some of those that  *)
(* were judged in the epoch that ends.                                      *)
NewEpoch ==
    /\ In("rolling") = {}
    /\ \E X \in SUBSET (Prompts \ In("unseen")) :
        stage' = [p \in Prompts |->
                    IF p \in X \cup In("excluded") THEN "excluded"
                    ELSE "unseen"]

Next == Explore \/ Judge \/ Stage \/ Train \/ NewEpoch

Spec == Init /\ [][Next]_stage

=============================================================================
