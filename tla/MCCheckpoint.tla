---------------------------- MODULE MCCheckpoint ----------------------------
(***************************************************************************)
(* Instances of Checkpoint for TLC.                                        *)
(***************************************************************************)
EXTENDS Checkpoint

CONSTANTS KeepActor, KeepCritic     \* the two limits of the configuration

ActorAndCritic == <<"actor", "critic">>
KeepLimits == [r \in {"actor", "critic"} |->
                 IF r = "actor" THEN KeepActor ELSE KeepCritic]

=============================================================================
