---------------------------- MODULE MCHybridEngine ----------------------------
(* Instances of HybridEngine for TLC.                                       *)
EXTENDS HybridEngine

(* Async mode with a freed engine, and sync mode with everything but        *)
(* adapters over a dummy base model.                                        *)
MCConfigs ==
    {c \in Configurations :
        /\ c.lora => ~c.async
        /\ c.async => c.free /\ ~c.layered
        /\ c.layered => c.lora
        /\ c.lora /\ c.dummy => c.layered}

(* Adapters over a base model that is sent by the first generation.         *)
MCDummyBase ==
    {c \in Configurations :
        /\ c.lora /\ c.dummy /\ c.free /\ c.tags
        /\ ~c.async /\ ~c.layered}
===============================================================================
