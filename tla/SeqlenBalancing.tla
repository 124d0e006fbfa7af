--------------------------- MODULE SeqlenBalancing ---------------------------
(***************************************************************************)
(* verl/utils/seqlen_balancing.py: the partitions of the positions of a    *)
(* batch that give each its share of tokens, by the largest differencing   *)
(* method of Karmarkar and Karp.                                           *)
(***************************************************************************)
EXTENDS DataBatch, SequencesExt

(* The classes Set and State: an item is a position and its length, a set   *)
(* has items and their sum, a state is k sets, the largest first.           *)
EmptySet == [sum |-> 0, items |-> <<>>]
SetOf(i, lengths) == [sum |-> lengths[i], items |-> <<i>>]
MergeSets(a, b) == [sum |-> a.sum + b.sum, items |-> a.items \o b.items]

(* Set.__lt__; two sets of the same size that are not empty differ in their *)
(* first items.                                                             *)
LargerSet(a, b) ==
    \/ a.sum > b.sum
    \/ a.sum = b.sum /\ Len(a.items) > Len(b.items)
    \/ /\ a.sum = b.sum /\ Len(a.items) = Len(b.items)
       /\ a.items # <<>> /\ a.items[1] > b.items[1]

(* sorted(self.sets, reverse=True), which leaves equal sets as they are.    *)
(* SubSeq takes all of it: TLC then computes the sorted sets once, and not  *)
(* each time that one of them is looked at.                                 *)
LargestFirst(sets) ==
    {p \in PositionPairs(sets) :
        \/ LargerSet(sets[p[1]], sets[p[2]])
        \/ ~LargerSet(sets[p[2]], sets[p[1]]) /\ p[1] < p[2]}
SortSets(sets) ==
    SubSeq(Reorder(sets, InOrder(DOMAIN sets, LargestFirst(sets))), 1, Len(sets))

StateOf(items, k, lengths) ==
    SortSets([j \in 1 .. k |-> IF j <= Len(items) THEN SetOf(items[j], lengths)
                               ELSE EmptySet])

(* State.merge: the largest of one with the smallest of the other.          *)
MergeAligned(s, t) ==
    SortSets([j \in DOMAIN s |-> MergeSets(s[j], t[j])])
MergeStates(s, t) ==
    SortSets([j \in DOMAIN s |-> MergeSets(s[j], t[Len(t) + 1 - j])])

(* State.__lt__: the heap pops the state of the largest spread, and among   *)
(* those the one with the largest set.                                      *)
Spread(s) == s[1].sum - s[Len(s)].sum
PopsBefore(s, t) ==
    \/ Spread(s) > Spread(t)
    \/ Spread(s) = Spread(t) /\ LargerSet(s[1], t[1])
Popped(heap) == CHOOSE s \in heap : \A t \in heap \ {s} : PopsBefore(s, t)

MergeTwo(heap) ==
    LET first == Popped(heap)
        second == Popped(heap \ {first})
    IN  (heap \ {first, second}) \cup {MergeStates(first, second)}

(* The loop, as long as the heap has more than one state.                   *)
MergeAll(initial) ==
    LET heap[n \in 0 .. Cardinality(initial) - 1] ==
            IF n = 0 THEN initial ELSE MergeTwo(heap[n - 1])
    IN  Popped(heap[Cardinality(initial) - 1])

(* sorted_seqlen_list: positions by length, then by position.               *)
ByLength(lengths) ==
    InOrder(DOMAIN lengths,
            {p \in PositionPairs(lengths) :
                \/ lengths[p[1]] < lengths[p[2]]
                \/ lengths[p[1]] = lengths[p[2]] /\ p[1] < p[2]})

(* With equal_size the first states hold k positions each, otherwise one.   *)
KarmarkarKarp(lengths, k, equal_size) ==
    LET groups == Split(ByLength(lengths), IF equal_size THEN k ELSE 1)
    IN  MergeAll({StateOf(groups[g], k, lengths) : g \in DOMAIN groups})

(* get_seqlen_balanced_partitions: each partition's positions in order.     *)
Partitions(lengths, k, equal_size) ==
    LET sets == KarmarkarKarp(lengths, k, equal_size)
    IN  [p \in 1 .. k |-> Ascending(Range(sets[p].items))]

(* What it asserts.                                                         *)
ArePartitions(parts, lengths, k) ==
    /\ Len(lengths) >= k
    /\ \A p \in 1 .. k : parts[p] # <<>>
    /\ UNION {Range(parts[p]) : p \in 1 .. k} = DOMAIN lengths

(* The sum of what the positions of a set have.                             *)
SumOver(values, positions) ==
    LET sum[i \in 0 .. Len(values)] ==
            IF i = 0 THEN 0
            ELSE IF i \in positions THEN sum[i - 1] + values[i] ELSE sum[i - 1]
    IN  sum[Len(values)]
TokensIn(part, lengths) == SumOver(lengths, Range(part))
SquaresIn(part, lengths) ==
    SumOver([i \in DOMAIN lengths |-> lengths[i] * lengths[i]], Range(part))

-----------------------------------------------------------------------------
(* rearrange_micro_batches.  The number of micro-batches before the ranks   *)
(* have agreed on it.                                                       *)
CeilDiv(a, b) == (a + b - 1) \div b
Smaller(a, b) == IF a < b THEN a ELSE b

NumMicroBatches(lengths, max_token_len) ==
    Smaller(Len(lengths),
            CeilDiv(SumOver(lengths, DOMAIN lengths), max_token_len))

(* The positions of each, the one with the largest workload first.          *)
MinOrZero(part) == IF part = <<>> THEN 0 ELSE part[1]
MostWorkFirst(parts, lengths) ==
    {p \in PositionPairs(parts) :
        LET a == parts[p[1]]
            b == parts[p[2]]
        IN  \/ SquaresIn(a, lengths) > SquaresIn(b, lengths)
            \/ SquaresIn(a, lengths) = SquaresIn(b, lengths)
              /\ MinOrZero(a) > MinOrZero(b)}
MicroBatches(lengths, num) ==
    LET parts == Partitions(lengths, num, FALSE)
    IN  Reorder(parts, InOrder(DOMAIN parts, MostWorkFirst(parts, lengths)))

=============================================================================
