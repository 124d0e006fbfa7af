------------------------- MODULE MCPilotCommitRestart -------------------------
(***************************************************************************)
(* Instances of PilotCommitRestart for TLC.                                *)
(***************************************************************************)
EXTENDS PilotCommitRestart, TLC

CONSTANT Group     \* some of the prompts

Symmetry == Permutations(Group) \cup Permutations(Prompts \ Group)

=============================================================================
