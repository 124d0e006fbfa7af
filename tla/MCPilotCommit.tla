---------------------------- MODULE MCPilotCommit ----------------------------
(***************************************************************************)
(* Instances of PilotCommit for TLC.                                       *)
(***************************************************************************)
EXTENDS PilotCommitProps, TLC

CONSTANT Group     \* some of the prompts

(* Prompts are interchangeable.  The permutations inside Group and those    *)
(* outside it reduce nearly as well as all of them and are far fewer.       *)
Symmetry == Permutations(Group) \cup Permutations(Prompts \ Group)

=============================================================================
