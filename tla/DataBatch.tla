------------------------------ MODULE DataBatch ------------------------------
(***************************************************************************)
(* verl/protocol.py, verl/single_controller/base/decorator.py: what a      *)
(* batch becomes on its way to the workers and back.  A batch (DataProto)  *)
(* is the sequence of its rows; tensors and arrays of a batch always have  *)
(* the same rows, in the same order.                                       *)
(***************************************************************************)
EXTENDS Integers, Sequences, FiniteSets

-----------------------------------------------------------------------------
(* pad_dataproto_to_divisor: the rows again from the first, as many times   *)
(* as it takes.                                                             *)
PadSize(n, d) == IF n % d = 0 THEN 0 ELSE d - (n % d)

Pad(rows, d) ==
    rows \o [i \in 1 .. PadSize(Len(rows), d) |->
                 rows[((i - 1) % Len(rows)) + 1]]

(* unpad_dataproto.                                                         *)
Unpad(rows, p) == SubSeq(rows, 1, Len(rows) - p)

(* DataProto.padding, with the candidate that the dispatch asks for: the    *)
(* last row.                                                                *)
PadWithLast(rows, p) == rows \o [i \in 1 .. p |-> rows[Len(rows)]]

(* DataProto.chunk, for a batch that k divides.                             *)
Chunk(rows, k) ==
    LET size == Len(rows) \div k
    IN  [j \in 1 .. k |-> SubSeq(rows, (j - 1) * size + 1, j * size)]

(* DataProto.split: the last part may be shorter.                           *)
Split(rows, size) ==
    [j \in 1 .. (Len(rows) + size - 1) \div size |->
        SubSeq(rows, (j - 1) * size + 1,
               IF j * size < Len(rows) THEN j * size ELSE Len(rows))]

(* DataProto.reorder, select_idxs: the row at position i is row idx[i].     *)
Reorder(rows, idx) == [i \in DOMAIN idx |-> rows[idx[i]]]

(* get_reverse_idx of verl/utils/seqlen_balancing.py.                       *)
ReverseIdx(idx) ==
    [j \in DOMAIN idx |-> CHOOSE i \in DOMAIN idx : idx[i] = j]

(* The members of a finite set in an order, given as the pairs of which the *)
(* first comes before the second: the k-th has k - 1 before it.             *)
InOrder(S, order) ==
    [k \in 1 .. Cardinality(S) |->
        CHOOSE x \in S : Cardinality({y \in S : <<y, x>> \in order}) = k - 1]
Ascending(S) == InOrder(S, {p \in S \X S : p[1] < p[2]})

PositionPairs(rows) == (DOMAIN rows) \X (DOMAIN rows)

(* DataProto.repeat, interleaved: the copies of a row are neighbours.       *)
Repeat(rows, times) ==
    [i \in 1 .. Len(rows) * times |-> rows[((i - 1) \div times) + 1]]

-----------------------------------------------------------------------------
(* dispatch_megatron_compute and collect_megatron_compute.  The global rank *)
(* counts the tensor ranks first, then the context, data and pipeline ones; *)
(* a mesh m has m.tp of the first, and so on.                               *)
WorldSize(m) == m.tp * m.cp * m.dp * m.pp
TpRank(m, r) == r % m.tp
CpRank(m, r) == (r \div m.tp) % m.cp
DpRank(m, r) == (r \div (m.tp * m.cp)) % m.dp
PpRank(m, r) == r \div (m.tp * m.cp * m.dp)

(* Every rank is given the part of its data rank.                           *)
DispatchMegatron(m, parts) ==
    [r \in 0 .. WorldSize(m) - 1 |-> parts[DpRank(m, r) + 1]]

(* The outputs of one rank for each data rank, in the order of the ranks.   *)
IsCollectedAnyCp(m, r) == TpRank(m, r) = 0 /\ PpRank(m, r) = m.pp - 1
IsCollected(m, r) ==
    TpRank(m, r) = 0 /\ PpRank(m, r) = m.pp - 1 /\ CpRank(m, r) = 0
CollectMegatron(m, outputs) ==
    Reorder(outputs, Ascending({r \in 0 .. WorldSize(m) - 1 : IsCollected(m, r)}))

=============================================================================
