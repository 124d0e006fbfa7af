----------------------------- MODULE MCBatchCall -----------------------------
(***************************************************************************)
(* BatchCall on all small batches, and the dispatch to megatron workers on *)
(* all small meshes.                                                       *)
(***************************************************************************)
EXTENDS BatchCall

CONSTANTS MaxParallel     \* bound of each dimension of a mesh

ASSUME MCBatchCallAssumption == MaxParallel \in Nat

Meshes == [tp : 1 .. MaxParallel, cp : 1 .. MaxParallel, dp : {Ranks},
           pp : 1 .. MaxParallel]

(* Had the workers been those of a megatron mesh, several to a data rank,   *)
(* the outputs collected would be those of each data rank once, in order.   *)
CollectUndoesDispatch ==
    pc = "done" =>
        \A m \in Meshes :
            CollectMegatron(m, DispatchMegatron(m, output)) = output

=============================================================================
