----------------------------- MODULE MCAgentLoop -----------------------------
(***************************************************************************)
(* A small instance of AgentLoop.                                          *)
(***************************************************************************)
EXTENDS AgentLoop

MCCallers == Conversations \X Calls

(* Prompts up to PromptLength.                                              *)
MCShortPrompts == {[c \in Conversations |-> 1 + (c % PromptLength)]}

(* Longer ones: one of the first batch, which then never returns; or both   *)
(* of the last.                                                             *)
MCPrompts ==
    {[c \in Conversations |-> IF c = 1 THEN PromptLength + 1 ELSE 1],
     [c \in Conversations |-> IF c > (NBatches - 1) * BatchSize
                              THEN PromptLength + 1
                              ELSE 1 + (c % PromptLength)]}

=============================================================================
