------------------------------ MODULE BatchCall ------------------------------
(***************************************************************************)
(* A call of the driver to a method of its workers, such as                *)
(* compute_log_prob: the batch is balanced or padded, dealt to the ranks,  *)
(* cut into micro-batches there, and the outputs are put together again.   *)
(* (trainer/ppo/ray_trainer.py, single_controller, workers/actor/dp_actor) *)
(*                                                                         *)
(* A row is named by its position in the batch the driver has at first,    *)
(* and the output of a worker for a row by the row.                        *)
(***************************************************************************)
EXTENDS SeqlenBalancing

CONSTANTS
    Ranks,           \* of the workers
    MaxRows,         \* bound of the rows of a batch
    TokenCounts,     \* numbers of tokens a row may have
    MaxTokenLen,     \* ppo_max_token_len_per_gpu
    MicroBatchSize   \* of the workers without dynamic micro-batches

ASSUME BatchCallAssumption ==
    /\ Ranks \in Nat \ {0}
    /\ {MaxRows, MicroBatchSize} \subseteq Nat \ {0}
    /\ TokenCounts \subseteq Nat \ {0}
    /\ MaxTokenLen \in Nat /\ \A n \in TokenCounts : n <= MaxTokenLen

VARIABLES
    mode,        \* how the batch is made to fit the ranks
    dynamic,     \* use_dynamic_bsz
    length,      \* tokens of each row
    pc,          \* of the driver
    batch,       \* the driver's batch
    padding,     \* rows to remove from the result
    chunk,       \* what each rank was given
    wanted,      \* number of micro-batches each rank would make, 0 for unknown
    micro,       \* positions of each micro-batch each rank has made
    output,      \* of each rank
    result

inputs == <<mode, dynamic, length>>
vars == <<inputs, pc, batch, padding, chunk, wanted, micro, output, result>>

RankIds == 1 .. Ranks
Rows == 1 .. Len(length)
Lengths(rows) == [i \in DOMAIN rows |-> length[rows[i]]]
Unset == [r \in RankIds |-> <<>>]

Modes == {"balance", "pad", "auto_pad"}

Init ==
    /\ mode \in Modes
    /\ dynamic \in BOOLEAN
    /\ length \in UNION {[1 .. n -> TokenCounts] : n \in 1 .. MaxRows}
    /\ mode = "balance" => Len(length) % Ranks = 0
    /\ pc = "prepare"
    /\ batch = [i \in Rows |-> i]
    /\ padding = 0
    /\ chunk = Unset
    /\ wanted = [r \in RankIds |-> 0]
    /\ micro = Unset
    /\ output = Unset
    /\ result = <<>>

-----------------------------------------------------------------------------
Deal(rows) ==
    /\ chunk' = Chunk(rows, Ranks)
    /\ pc' = "workers"
    /\ UNCHANGED <<inputs, wanted, micro, output, result>>

(* _balance_batch reorders the driver's own batch.                          *)
Balance ==
    /\ pc = "prepare"
    /\ mode = "balance"
    /\ batch' = Reorder(batch, FlattenSeq(Partitions(Lengths(batch), Ranks, TRUE)))
    /\ padding' = 0
    /\ Deal(batch')

(* _validate pads a copy.                                                   *)
PadAndDeal ==
    /\ pc = "prepare"
    /\ mode = "pad"
    /\ padding' = PadSize(Len(batch), Ranks)
    /\ UNCHANGED batch
    /\ Deal(Pad(batch, Ranks))

(* _split_args_kwargs_data_proto_with_auto_padding pads the driver's batch. *)
AutoPadAndDeal ==
    /\ pc = "prepare"
    /\ mode = "auto_pad"
    /\ padding' = PadSize(Len(batch), Ranks)
    /\ batch' = PadWithLast(batch, padding')
    /\ Deal(batch')

-----------------------------------------------------------------------------
(* compute_log_prob of one rank.  With dynamic micro-batches the ranks make *)
(* as many as the one that needs most: all_reduce waits for all of them.    *)
Count(r) ==
    /\ pc = "workers"
    /\ dynamic
    /\ wanted[r] = 0
    /\ wanted' = [wanted EXCEPT
                     ![r] = NumMicroBatches(Lengths(chunk[r]), MaxTokenLen)]
    /\ UNCHANGED <<inputs, pc, batch, padding, chunk, micro, output, result>>

AllReduced == \A r \in RankIds : wanted[r] > 0
OwnNumber(r) == wanted[r]
AgreedNumber(r) == Max(Range(wanted))

RestoreNothing(rows, parts) == rows
(* restore_dynamic_batch.                                                   *)
Restore(rows, parts) == Reorder(rows, ReverseIdx(FlattenSeq(parts)))

MakeDynamic(r) ==
    /\ pc = "workers"
    /\ dynamic
    /\ AllReduced
    /\ micro[r] = <<>>
    /\ micro' = [micro EXCEPT
                    ![r] = MicroBatches(Lengths(chunk[r]), AgreedNumber(r))]
    /\ UNCHANGED <<inputs, pc, batch, padding, chunk, wanted, output, result>>

MakeFixed(r) ==
    /\ pc = "workers"
    /\ ~dynamic
    /\ micro[r] = <<>>
    /\ micro' = [micro EXCEPT
                    ![r] = Split([i \in DOMAIN chunk[r] |-> i], MicroBatchSize)]
    /\ UNCHANGED <<inputs, pc, batch, padding, chunk, wanted, output, result>>

(* The outputs of the micro-batches in turn, put back in order.             *)
Compute(r) ==
    /\ pc = "workers"
    /\ micro[r] # <<>>
    /\ output[r] = <<>>
    /\ LET computed == Reorder(chunk[r], FlattenSeq(micro[r]))
       IN  output' = [output EXCEPT
                         ![r] = IF dynamic THEN Restore(computed, micro[r])
                                ELSE computed]
    /\ UNCHANGED <<inputs, pc, batch, padding, chunk, wanted, micro, result>>

-----------------------------------------------------------------------------
(* The outputs of the ranks in turn, without those of the padding.          *)
Collect ==
    /\ pc = "workers"
    /\ \A r \in RankIds : output[r] # <<>>
    /\ result' = Unpad(FlattenSeq(output), padding)
    /\ pc' = "done"
    /\ UNCHANGED <<inputs, batch, padding, chunk, wanted, micro, output>>

Work(r) == Count(r) \/ MakeDynamic(r) \/ MakeFixed(r) \/ Compute(r)

Returned == pc = "done" /\ UNCHANGED vars

Next ==
    \/ Balance
    \/ PadAndDeal
    \/ AutoPadAndDeal
    \/ \E r \in RankIds : Work(r)
    \/ Collect
    \/ Returned

Spec == Init /\ [][Next]_vars

-----------------------------------------------------------------------------
(* The result has one output for each of the rows that the driver began     *)
(* with, in the order that its batch has then, whatever was padded,         *)
(* balanced, cut and sorted meanwhile.                                      *)
ResultFollowsBatch ==
    pc = "done" => result = SubSeq(batch, 1, Len(length))

(* No assertion on the way fails: partitions cover the rows of a rank and   *)
(* none is empty, though a rank may make more than it needs by itself.      *)
AssertionsHold ==
    \A r \in RankIds :
        micro[r] # <<>> => ArePartitions(micro[r], chunk[r], Len(micro[r]))

(* Every rank runs as many forward passes as the others, which are          *)
(* collective and would wait for ever.                                      *)
RanksKeepStep ==
    \A r, s \in RankIds :
        (micro[r] # <<>> /\ micro[s] # <<>>) => Len(micro[r]) = Len(micro[s])

(* A micro-batch may have more tokens than max_token_len, which only        *)
(* divides the total.  Balancing keeps it near: whatever the lengths are,   *)
(* and even if a rank makes more micro-batches than it needs, none goes     *)
(* beyond it by as many tokens as the longest row of the rank has.  The     *)
(* memory of a worker has to be enough for that.                            *)
TokensOf(r, p) == TokensIn(micro[r][p], Lengths(chunk[r]))
MicroBatchesNearlyFit ==
    \A r \in RankIds : \A p \in DOMAIN micro[r] :
        dynamic => \E i \in DOMAIN chunk[r] :
                       TokensOf(r, p) < MaxTokenLen + length[chunk[r][i]]

(* Balancing gives the ranks as many rows each, and no rank more tokens     *)
(* than another by more than one row has than another, when the rows are    *)
(* sorted by length and taken in groups of one row for each rank.           *)
SumOf(r) == TokensIn(chunk[r], length)
GroupSpreads ==
    LET sorted == ByLength(length)
    IN  {length[sorted[g * Ranks]] - length[sorted[(g - 1) * Ranks + 1]] :
             g \in 1 .. Len(length) \div Ranks}
RanksAreBalanced ==
    (mode = "balance" /\ pc # "prepare") =>
        LET spreads == GroupSpreads
        IN  \A r, s \in RankIds :
                /\ Len(chunk[r]) = Len(chunk[s])
                /\ \E d \in spreads : SumOf(r) - SumOf(s) <= d

=============================================================================
