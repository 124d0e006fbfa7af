------------------------ MODULE SeqlenBalancing_proofs ------------------------
(***************************************************************************)
(* What a batch is, after it was padded and unpadded, reordered and        *)
(* restored, repeated and split, for batches of any rows and any length,   *)
(* and what the partitions are that karmarkar_karp makes of any lengths.   *)
(***************************************************************************)
EXTENDS SeqlenBalancing, FiniteSetTheorems, SequenceTheorems,
        FunctionTheorems, WellFoundedInduction, TLAPS

-----------------------------------------------------------------------------
(* Padding.                                                                 *)
LEMMA PadSizeIsNat ==
  ASSUME NEW n \in Nat, NEW d \in Nat \ {0}
  PROVE  PadSize(n, d) \in 0 .. d - 1
  BY DEF PadSize

(* An empty batch is not padded.                                            *)
LEMMA PaddedRows ==
  ASSUME NEW S, NEW rows \in Seq(S), NEW d \in Nat \ {0}
  PROVE  /\ Pad(rows, d) \in Seq(S)
         /\ Len(Pad(rows, d)) = Len(rows) + PadSize(Len(rows), d)
         /\ \A i \in 1 .. Len(rows) : Pad(rows, d)[i] = rows[i]
PROOF
  <1> DEFINE n == Len(rows)
             p == PadSize(n, d)
             extra == [i \in 1 .. p |-> rows[((i - 1) % n) + 1]]
  <1>1. n \in Nat /\ p \in Nat
    BY PadSizeIsNat
  <1>2. extra \in Seq(S) /\ Len(extra) = p
    <2>1. CASE n = 0
      <3>1. p = 0
        BY <2>1 DEF PadSize
      <3> QED BY <3>1
    <2>2. CASE n > 0
      <3>1. \A i \in 1 .. p : ((i - 1) % n) + 1 \in 1 .. n
        BY <1>1, <2>2
      <3> HIDE DEF n, p
      <3>2. \A i \in 1 .. p : rows[((i - 1) % n) + 1] \in S
        BY <3>1 DEF n
      <3> QED BY <1>1, <3>2
    <2> QED BY <1>1, <2>1, <2>2
  <1>3. Pad(rows, d) = rows \o extra
    BY DEF Pad
  <1>4. p = PadSize(Len(rows), d)
    OBVIOUS
  <1> HIDE DEF extra, p
  <1>5. /\ rows \o extra \in Seq(S)
        /\ Len(rows \o extra) = n + p
        /\ \A i \in 1 .. n : (rows \o extra)[i] = rows[i]
    BY <1>2
  <1> QED BY <1>3, <1>4, <1>5

(* Unpadding by the size of the padding gives the batch back, also when the *)
(* divisor is larger than the batch and the padding repeats it.             *)
THEOREM UnpadUndoesPad ==
  ASSUME NEW S, NEW rows \in Seq(S), NEW d \in Nat \ {0}
  PROVE  Unpad(Pad(rows, d), PadSize(Len(rows), d)) = rows
PROOF
  <1> DEFINE padded == Pad(rows, d)
             p == PadSize(Len(rows), d)
  <1>1. /\ padded \in Seq(S) /\ Len(padded) = Len(rows) + p
        /\ \A i \in 1 .. Len(rows) : padded[i] = rows[i]
    BY PaddedRows
  <1>4. Len(rows) \in Nat /\ p \in Nat
    BY PadSizeIsNat
  <1> HIDE DEF padded, p
  <1>2. Len(padded) - p = Len(rows)
    BY <1>1, <1>4
  <1>3. SubSeq(padded, 1, Len(rows)) = rows
    BY <1>1, <1>4
  <1> QED BY <1>2, <1>3 DEF Unpad, padded, p

(* The padded batch is divided evenly.                                      *)
THEOREM PaddedIsEven ==
  ASSUME NEW S, NEW rows \in Seq(S), NEW d \in Nat \ {0}
  PROVE  Len(Pad(rows, d)) % d = 0
PROOF
  <1> DEFINE n == Len(rows)
  <1>1. n \in Nat /\ Len(Pad(rows, d)) = n + PadSize(n, d)
    BY PaddedRows
  <1>2. CASE n % d = 0
    BY <1>1, <1>2 DEF PadSize
  <1>3. CASE n % d # 0
    <2>1. n = d * (n \div d) + (n % d)
      BY <1>1
    <2>2. n + PadSize(n, d) = d * ((n \div d) + 1)
      BY <1>1, <1>3, <2>1 DEF PadSize
    <2>3. (n \div d) + 1 \in Nat
      BY <1>1
    <2> QED BY <1>1, <2>2, <2>3
  <1> QED BY <1>2, <1>3

-----------------------------------------------------------------------------
Permutes(idx, n) ==
    /\ idx \in [1 .. n -> 1 .. n]
    /\ \A i, j \in 1 .. n : idx[i] = idx[j] => i = j
    /\ \A k \in 1 .. n : \E i \in 1 .. n : idx[i] = k

(* Restoring with get_reverse_idx undoes a reordering: what the workers     *)
(* return for the balanced batch goes back to the rows it was made from.    *)
THEOREM RestoreUndoesReorder ==
  ASSUME NEW S, NEW rows \in Seq(S), NEW idx, Permutes(idx, Len(rows))
  PROVE  Reorder(Reorder(rows, idx), ReverseIdx(idx)) = rows
PROOF
  <1> DEFINE n == Len(rows)
             back == ReverseIdx(idx)
             moved == Reorder(rows, idx)
  <1>1. DOMAIN idx = 1 .. n /\ DOMAIN rows = 1 .. n
    BY DEF Permutes
  <1>2. \A k \in 1 .. n : back[k] \in 1 .. n /\ idx[back[k]] = k
    <2> TAKE k \in 1 .. n
    <2>1. \E i \in DOMAIN idx : idx[i] = k
      BY <1>1 DEF Permutes
    <2> QED BY <1>1, <2>1 DEF ReverseIdx
  <1>3. DOMAIN back = 1 .. n
    BY <1>1 DEF ReverseIdx
  <1>4. \A i \in 1 .. n : moved[i] = rows[idx[i]]
    BY <1>1 DEF Reorder
  <1> HIDE DEF n, back, moved
  <1>5. Reorder(moved, back) = [k \in 1 .. n |-> moved[back[k]]]
    BY <1>3 DEF Reorder
  <1>6. \A k \in 1 .. n : moved[back[k]] = rows[k]
    BY <1>2, <1>4
  <1>7. rows = [k \in 1 .. n |-> rows[k]]
    BY <1>1 DEF n
  <1> QED BY <1>5, <1>6, <1>7 DEF moved, back

-----------------------------------------------------------------------------
(* An interleaved repetition has copy i of row j at its place.              *)
LEMMA CopyOfRow ==
  ASSUME NEW S, NEW rows \in Seq(S), NEW n \in Nat \ {0},
         NEW j \in 1 .. Len(rows), NEW i \in 1 .. n
  PROVE  Repeat(rows, n)[(j - 1) * n + i] = rows[j]
PROOF
  <1> DEFINE k == (j - 1) * n + i
  <1>1. k - 1 = n * (j - 1) + (i - 1) /\ i - 1 \in 0 .. n - 1 /\ j - 1 \in Nat
    OBVIOUS
  <1>2. (k - 1) \div n = j - 1
    BY <1>1
  <1>3. k \in 1 .. Len(rows) * n
    <2>1. (j - 1) * n + n <= Len(rows) * n
      OBVIOUS
    <2>2. (j - 1) * n >= 0
      OBVIOUS
    <2> QED BY <2>1, <2>2
  <1> QED BY <1>2, <1>3 DEF Repeat

(* The trainer repeats its batch, interleaved, for n rollouts of each       *)
(* prompt, and splits by n the rollouts of the prompts that pass, which its *)
(* filter keeps as they stand: there is a part for each prompt, in their    *)
(* order, which has its n rollouts and no other's.                          *)
THEOREM SplitFindsRepeats ==
  ASSUME NEW S, NEW rows \in Seq(S), NEW n \in Nat \ {0}
  PROVE  Split(Repeat(rows, n), n)
             = [j \in 1 .. Len(rows) |-> [i \in 1 .. n |-> rows[j]]]
PROOF
  <1> DEFINE all == Repeat(rows, n)
             l == Len(rows)
             t == l * n
             Part(j) == SubSeq(all, (j - 1) * n + 1,
                               IF j * n < Len(all) THEN j * n ELSE Len(all))
  <1>1. l \in Nat /\ t \in Nat
    OBVIOUS
  <1>2. Len(all) = t /\ DOMAIN all = 1 .. t
    BY <1>1 DEF Repeat
  <1>3. (t + n - 1) \div n = l
    <2>1. t + n - 1 = n * l + (n - 1) /\ n - 1 \in 0 .. n - 1
      BY <1>1
    <2> QED BY <1>1, <2>1
  <1>4. ASSUME NEW j \in 1 .. l
        PROVE  Part(j) = [i \in 1 .. n |-> rows[j]]
    <2> DEFINE a == (j - 1) * n
    <2>1. j * n <= t /\ a \in Nat /\ j * n = a + n
      BY <1>1
    <2>2. Part(j) = SubSeq(all, a + 1, a + n)
      <3> DEFINE b == j * n
      <3>1. (IF b < Len(all) THEN b ELSE Len(all)) = b
        <4>1. b <= t /\ b \in Nat
          BY <2>1
        <4> HIDE DEF b, all, t
        <4> QED BY <1>1, <1>2, <4>1
      <3> HIDE DEF all
      <3> QED BY <2>1, <3>1
    <2>3. \A i \in 1 .. n : all[a + i] = rows[j]
      BY CopyOfRow
    <2> HIDE DEF all, a, t, Part
    <2>4. SubSeq(all, a + 1, a + n) = [i \in 1 .. n |-> all[a + i]]
      BY <2>1
    <2> QED BY <2>2, <2>3, <2>4
  <1>5. Split(all, n) = [j \in 1 .. (t + n - 1) \div n |-> Part(j)]
    BY <1>2 DEF Split
  <1> HIDE DEF all, t, Part
  <1>6. Split(all, n) = [j \in 1 .. l |-> [i \in 1 .. n |-> rows[j]]]
    BY <1>3, <1>4, <1>5
  <1> QED BY <1>6 DEF all

-----------------------------------------------------------------------------
(* Orders.  A strict order of a finite set puts each member in one place.   *)
StrictOrder(S, order) ==
    /\ \A x \in S : <<x, x>> \notin order
    /\ \A x, y \in S : x # y => <<x, y>> \in order \/ <<y, x>> \in order
    /\ \A x, y, z \in S :
           <<x, y>> \in order /\ <<y, z>> \in order => <<x, z>> \in order

(* InOrder names each member of the set once, in the order.                 *)
LEMMA InOrderIsOrdered ==
  ASSUME NEW S, IsFiniteSet(S), NEW order, StrictOrder(S, order)
  PROVE  /\ Cardinality(S) \in Nat
         /\ InOrder(S, order) \in [1 .. Cardinality(S) -> S]
         /\ \A i, j \in 1 .. Cardinality(S) :
                i < j => <<InOrder(S, order)[i], InOrder(S, order)[j]>> \in order
         /\ \A x \in S : \E k \in 1 .. Cardinality(S) : InOrder(S, order)[k] = x
PROOF
  <1> DEFINE Before(x) == {y \in S : <<y, x>> \in order}
             n == Cardinality(S)
             place == [x \in S |-> Cardinality(Before(x)) + 1]
             o == InOrder(S, order)
  <1>0. n \in Nat
    BY FS_CardinalityType
  <1>1. ASSUME NEW x \in S
        PROVE  IsFiniteSet(Before(x)) /\ Cardinality(Before(x)) \in 0 .. n - 1
    <2>1. Before(x) \in SUBSET (S \ {x})
      BY DEF StrictOrder
    <2>2. IsFiniteSet(S \ {x}) /\ Cardinality(S \ {x}) = n - 1
      BY FS_RemoveElement
    <2> HIDE DEF Before
    <2>3. IsFiniteSet(Before(x)) /\ Cardinality(Before(x)) <= n - 1
      BY <2>1, <2>2, FS_Subset
    <2> QED BY <1>0, <2>3, FS_CardinalityType
  <1>c. \A x \in S : Cardinality(Before(x)) \in 0 .. n - 1
    BY <1>1
  <1>2. ASSUME NEW x \in S, NEW y \in S, <<x, y>> \in order
        PROVE  Cardinality(Before(x)) < Cardinality(Before(y))
    <2>1. Before(x) \in SUBSET (Before(y) \ {x}) /\ x \in Before(y)
      BY <1>2 DEF StrictOrder
    <2> HIDE DEF Before, n
    <2>2. IsFiniteSet(Before(y)) /\ Cardinality(Before(y)) \in Nat
          /\ Cardinality(Before(x)) \in Nat
      BY <1>0, <1>1
    <2>3. IsFiniteSet(Before(y) \ {x})
          /\ Cardinality(Before(y) \ {x}) = Cardinality(Before(y)) - 1
      BY <2>1, <2>2, FS_RemoveElement
    <2>4. Cardinality(Before(x)) <= Cardinality(Before(y) \ {x})
      BY <2>1, <2>3, FS_Subset
    <2> QED BY <2>2, <2>3, <2>4
  <1>3. \A x, y \in S : Cardinality(Before(x)) = Cardinality(Before(y)) => x = y
    <2> SUFFICES ASSUME NEW x \in S, NEW y \in S, x # y
                 PROVE  Cardinality(Before(x)) # Cardinality(Before(y))
      OBVIOUS
    <2>1. Cardinality(Before(x)) \in Nat /\ Cardinality(Before(y)) \in Nat
      <3> HIDE DEF Before, n
      <3> QED BY <1>0, <1>1
    <2>2. <<x, y>> \in order \/ <<y, x>> \in order
      BY DEF StrictOrder
    <2> HIDE DEF Before
    <2> QED BY <1>2, <2>1, <2>2
  <1>4. place \in Injection(S, 1 .. n)
    <2> HIDE DEF Before
    <2>1. place \in [S -> 1 .. n]
      BY <1>0, <1>1
    <2>2. \A x, y \in S : place[x] = place[y] => x = y
      BY <1>0, <1>1, <1>3
    <2> QED BY <2>1, <2>2 DEF Injection, IsInjective
  <1>5. place \in Surjection(S, 1 .. n)
    <2>1. IsFiniteSet(1 .. n) /\ Cardinality(1 .. n) = n
      BY <1>0, FS_Interval
    <2> HIDE DEF place
    <2> QED BY <1>4, <2>1, FS_Injection
  <1>6. \A k \in 1 .. n : o[k] \in S /\ Cardinality(Before(o[k])) = k - 1
    <2> TAKE k \in 1 .. n
    <2>3. o[k] = CHOOSE x \in S : Cardinality(Before(x)) = k - 1
      BY DEF InOrder
    <2> HIDE DEF Before
    <2>1. \E x \in S : place[x] = k
      BY <1>5 DEF Surjection
    <2>2. \E x \in S : Cardinality(Before(x)) = k - 1
      BY <1>0, <1>c, <2>1
    <2> HIDE DEF Before, o
    <2> QED BY <2>2, <2>3
  <1>7. o \in [1 .. n -> S]
    BY <1>6 DEF InOrder
  <1>8. \A i, j \in 1 .. n : i < j => <<o[i], o[j]>> \in order
    <2> SUFFICES ASSUME NEW i \in 1 .. n, NEW j \in 1 .. n, i < j
                 PROVE  <<o[i], o[j]>> \in order
      OBVIOUS
    <2>1. /\ o[i] \in S /\ Cardinality(Before(o[i])) = i - 1
          /\ o[j] \in S /\ Cardinality(Before(o[j])) = j - 1
      BY <1>6
    <2> HIDE DEF Before, o
    <2>2. o[i] # o[j]
      BY <1>0, <2>1
    <2>3. ~ (<<o[j], o[i]>> \in order)
      BY <1>0, <1>2, <2>1
    <2> QED BY <2>1, <2>2, <2>3 DEF StrictOrder
  <1>9. \A x \in S : \E k \in 1 .. n : o[k] = x
    <2> TAKE x \in S
    <2> HIDE DEF Before, o
    <2>1. Cardinality(Before(x)) + 1 \in 1 .. n
      BY <1>0, <1>c
    <2>2. /\ o[Cardinality(Before(x)) + 1] \in S
          /\ Cardinality(Before(o[Cardinality(Before(x)) + 1])) = Cardinality(Before(x))
      BY <1>0, <1>c, <1>6, <2>1
    <2> QED BY <1>3, <2>1, <2>2
  <1> QED BY <1>0, <1>7, <1>8, <1>9

-----------------------------------------------------------------------------
(* Loops.                                                                   *)
LEMMA LeastExists ==
  ASSUME NEW S \in SUBSET Nat, S # {}
  PROVE  \E k \in S : \A x \in S : k <= x
PROOF
  <1>1. PICK k \in S : \A x \in S : ~ (<<x, k>> \in OpToRel(<, Nat))
    BY NatLessThanWellFounded, WFMin, Zenon
  <1>2. \A x \in S : ~ (x < k)
    BY <1>1, Zenon DEF OpToRel
  <1> QED BY <1>2

(* What holds at first, and of each number if of the one before it, holds   *)
(* of all up to a bound.                                                    *)
LEMMA UpTo ==
  ASSUME NEW n \in Nat, NEW Good \in SUBSET (0 .. n), 0 \in Good,
         \A i \in 1 .. n : i - 1 \in Good => i \in Good
  PROVE  Good = 0 .. n
PROOF
  <1> DEFINE Bad == (0 .. n) \ Good
  <1> SUFFICES ASSUME Bad # {} PROVE FALSE
    OBVIOUS
  <1>0. Bad \in SUBSET Nat
    OBVIOUS
  <1>1. PICK k \in Bad : \A x \in Bad : k <= x
    <2> HIDE DEF Bad
    <2> QED BY <1>0, LeastExists
  <1>2. k \in 1 .. n /\ k - 1 \in 0 .. n
    BY <1>1
  <1>3. k - 1 \in Good
    BY <1>1, <1>2
  <1> QED BY <1>1, <1>2, <1>3

Iterates(f, V, base, n, step) ==
    /\ f \in [0 .. n -> V]
    /\ f[0] = base
    /\ \A i \in 1 .. n : f[i] = step[<<f[i - 1], i>>]

(* A function that is defined at i by what it is at i - 1 exists.           *)
LEMMA IterationExists ==
  ASSUME NEW V, NEW base \in V, NEW n \in Nat, NEW step \in [V \X (1 .. n) -> V]
  PROVE  \E f : Iterates(f, V, base, n, step)
PROOF
  <1> USE DEF Iterates
  <1> DEFINE Does(f, m) == Iterates(f, V, base, m, step)
             Good == {m \in 0 .. n : \E f : Does(f, m)}
  <1>1. 0 \in Good
    <2>1. Does([i \in 0 .. 0 |-> base], 0)
      OBVIOUS
    <2> HIDE DEF Does
    <2> QED BY <2>1
  <1>2. ASSUME NEW m \in 1 .. n, m - 1 \in Good
        PROVE  m \in Good
    <2>1. PICK f : Does(f, m - 1)
      BY <1>2
    <2> DEFINE g == [i \in 0 .. m |-> IF i = m THEN step[<<f[m - 1], m>>] ELSE f[i]]
    <2>2. f[m - 1] \in V /\ step[<<f[m - 1], m>>] \in V
      BY <2>1
    <2>3. g \in [0 .. m -> V] /\ g[0] = base
      BY <2>1, <2>2
    <2>4. ASSUME NEW i \in 1 .. m
          PROVE  g[i] = step[<<g[i - 1], i>>]
      <3>1. g[i - 1] = f[i - 1]
        OBVIOUS
      <3>2. CASE i = m
        <4>1. g[m] = step[<<f[m - 1], m>>]
          OBVIOUS
        <4> HIDE DEF g
        <4> QED BY <3>1, <3>2, <4>1
      <3>3. CASE i # m
        <4>1. g[i] = f[i] /\ i \in 1 .. m - 1
          BY <3>3
        <4>2. f[i] = step[<<f[i - 1], i>>]
          BY <2>1, <4>1
        <4> HIDE DEF g
        <4> QED BY <3>1, <4>1, <4>2
      <3> QED BY <3>2, <3>3
    <2>5. Does(g, m)
      BY <2>3, <2>4
    <2> HIDE DEF Does, g
    <2> QED BY <2>5
  <1>3. Good = 0 .. n
    <2> HIDE DEF Good
    <2>1. Good \in SUBSET (0 .. n)
      BY DEF Good
    <2> QED BY <1>1, <1>2, <2>1, UpTo
  <1>4. \E f : Does(f, n)
    <2>1. n \in Good
      <3> HIDE DEF Good
      <3> QED BY <1>3
    <2> HIDE DEF Does
    <2> QED BY <2>1
  <1> QED BY <1>4

(* FlattenSeq appends the sequences one after the other.                    *)
FlattensBy(seqs, T, f) ==
    /\ f \in [0 .. Len(seqs) -> Seq(T)]
    /\ f[0] = <<>>
    /\ \A i \in 1 .. Len(seqs) : f[i] = f[i - 1] \o seqs[i]

(* FlattenSeq appends the sequences one at a time.                          *)
LEMMA FlattenSteps ==
  ASSUME NEW T, NEW seqs \in Seq(Seq(T))
  PROVE  \E f : FlattensBy(seqs, T, f) /\ FlattenSeq(seqs) = f[Len(seqs)]
PROOF
  <1> DEFINE n == Len(seqs)
             V == Seq(T)
             step == [p \in V \X (1 .. n) |-> p[1] \o seqs[p[2]]]
             Eq(g) == g = [i \in 1 .. n |-> IF i = 1 THEN seqs[i] ELSE g[i - 1] \o seqs[i]]
  <1>1. n \in Nat /\ \A i \in 1 .. n : seqs[i] \in V
    OBVIOUS
  <1>2. step \in [V \X (1 .. n) -> V] /\ <<>> \in V
    <2>1. \A s \in V, i \in 1 .. n : s \o seqs[i] \in V
      BY <1>1
    <2> QED BY <2>1
  <1>3. PICK f \in [0 .. n -> V] :
            f[0] = <<>> /\ \A i \in 1 .. n : f[i] = step[<<f[i - 1], i>>]
    <2> DEFINE base == <<>>
    <2>1. base \in V
      BY <1>2
    <2> HIDE DEF V, n, step, base
    <2>2. \E f : Iterates(f, V, base, n, step)
      <3>1. n \in Nat /\ step \in [V \X (1 .. n) -> V]
        BY <1>1, <1>2
      <3> QED BY <2>1, <3>1, IterationExists
    <2> QED BY <2>2 DEF Iterates, base
  <1>4. \A i \in 1 .. n : f[i] = f[i - 1] \o seqs[i]
    <2> TAKE i \in 1 .. n
    <2>1. f[i - 1] \in V
      <3> HIDE DEF V, n
      <3> QED BY <1>1
    <2> QED BY <1>3, <2>1
  <1>5. CASE n = 0
    <2>1. seqs = <<>>
      BY <1>5
    <2> QED BY <1>3, <1>4, <1>5, <2>1 DEF FlattenSeq, FlattensBy
  <1>6. CASE n > 0
    <2>1. FlattenSeq(seqs) = (CHOOSE g : Eq(g))[n]
      BY <1>6 DEF FlattenSeq
    <2> DEFINE h == [i \in 1 .. n |-> f[i]]
               g == CHOOSE g : Eq(g)
    <2>2. Eq(h)
      <3>1. f[1] = seqs[1]
        <4>1. 1 \in 1 .. n
          BY <1>1, <1>6
        <4>2. f[1] = f[1 - 1] \o seqs[1] /\ seqs[1] \in Seq(T)
          <5> HIDE DEF n
          <5> QED BY <1>1, <1>4, <4>1
        <4>3. f[1 - 1] = <<>>
          BY <1>3
        <4> QED BY <4>2, <4>3, ConcatEmptySeq
      <3>2. ASSUME NEW i \in 1 .. n
            PROVE  h[i] = IF i = 1 THEN seqs[i] ELSE h[i - 1] \o seqs[i]
        <4>1. CASE i = 1
          BY <3>1, <4>1
        <4>2. CASE i # 1
          <5>1. i - 1 \in 1 .. n
            BY <1>1, <4>2
          <5>2. h[i] = f[i] /\ h[i - 1] = f[i - 1]
            BY <5>1
          <5> HIDE DEF h, n
          <5> QED BY <1>4, <4>2, <5>2
        <4> QED BY <4>1, <4>2
      <3> DEFINE k == [i \in 1 .. n |-> IF i = 1 THEN seqs[i] ELSE h[i - 1] \o seqs[i]]
      <3>3. \A i \in 1 .. n : h[i] = k[i]
        <4> HIDE DEF h
        <4> QED BY <3>2
      <3>4. h = k
        <4>1. h = [i \in 1 .. n |-> h[i]] /\ k = [i \in 1 .. n |-> k[i]]
          OBVIOUS
        <4> HIDE DEF h, k
        <4> QED BY <3>3, <4>1
      <3> QED BY <3>4
    <2>3. Eq(g)
      <3> HIDE DEF Eq
      <3> QED BY <2>2
    <2> DEFINE Good == {0} \cup {i \in 1 .. n : g[i] = f[i]}
    <2>4. ASSUME NEW i \in 1 .. n, i - 1 \in Good
          PROVE  i \in Good
      <3>1. g[i] = IF i = 1 THEN seqs[i] ELSE g[i - 1] \o seqs[i]
        <4> HIDE DEF g
        <4> QED BY <2>3
      <3>2. h[i] = IF i = 1 THEN seqs[i] ELSE h[i - 1] \o seqs[i]
        <4> HIDE DEF h
        <4> QED BY <2>2
      <3>3. i # 1 => g[i - 1] = f[i - 1]
        <4> HIDE DEF g
        <4> QED BY <2>4
      <3> HIDE DEF g
      <3> QED BY <3>1, <3>2, <3>3
    <2>5. Good = 0 .. n
      <3> HIDE DEF g
      <3>1. Good \in SUBSET (0 .. n) /\ 0 \in Good
        BY <1>1
      <3> HIDE DEF Good, n
      <3> QED BY <1>1, <2>4, <3>1, UpTo
    <2>6. g[n] = f[n]
      <3> HIDE DEF g
      <3>1. n \in Good
        <4> HIDE DEF Good, n
        <4> QED BY <1>1, <2>5
      <3> QED BY <1>6, <3>1
    <2> QED BY <1>3, <1>4, <2>1, <2>6 DEF FlattensBy
  <1> QED BY <1>1, <1>5, <1>6

(* A function on 1 .. n is a sequence of length n.                          *)
LEMMA FunctionIsSeq ==
  ASSUME NEW S, NEW n \in Nat, NEW f \in [1 .. n -> S]
  PROVE  f \in Seq(S) /\ Len(f) = n
  OBVIOUS

(* Where each of the sequences begins.                                      *)
Offsets(seqs, off) ==
    /\ off \in [0 .. Len(seqs) -> Nat]
    /\ off[0] = 0
    /\ \A i \in 1 .. Len(seqs) : off[i] = off[i - 1] + Len(seqs[i])

Laid(seqs, off, s, m) ==
    /\ Len(s) = off[m]
    /\ \A i \in 1 .. m : \A j \in 1 .. Len(seqs[i]) :
           off[i - 1] + j \in 1 .. off[m] /\ s[off[i - 1] + j] = seqs[i][j]
    /\ \A p \in 1 .. off[m] :
           \E i \in 1 .. m : \E j \in 1 .. Len(seqs[i]) : p = off[i - 1] + j

(* What FlattenSeq makes has each sequence at its offset.                   *)
LEMMA FlattenIsLaid ==
  ASSUME NEW T, NEW seqs \in Seq(Seq(T)), NEW off, Offsets(seqs, off)
  PROVE  /\ FlattenSeq(seqs) \in Seq(T)
         /\ Laid(seqs, off, FlattenSeq(seqs), Len(seqs))
PROOF
  <1> DEFINE n == Len(seqs)
  <1>1. n \in Nat /\ \A i \in 1 .. n : seqs[i] \in Seq(T) /\ Len(seqs[i]) \in Nat
    OBVIOUS
  <1>2. /\ off \in [0 .. n -> Nat] /\ off[0] = 0
        /\ \A i \in 1 .. n : off[i] = off[i - 1] + Len(seqs[i])
    BY DEF Offsets
  <1>3. PICK f : FlattensBy(seqs, T, f) /\ FlattenSeq(seqs) = f[n]
    BY FlattenSteps
  <1>4. /\ f \in [0 .. n -> Seq(T)] /\ f[0] = <<>>
        /\ \A i \in 1 .. n : f[i] = f[i - 1] \o seqs[i]
    BY <1>3 DEF FlattensBy
  <1> DEFINE Good == {m \in 0 .. n : Laid(seqs, off, f[m], m)}
  <1> HIDE DEF n
  <1>5. 0 \in Good
    <2>1. Len(f[0]) = off[0] /\ 1 .. 0 = {} /\ 1 .. off[0] = {}
      BY <1>2, <1>4
    <2>2. Laid(seqs, off, f[0], 0)
      BY <2>1 DEF Laid
    <2> QED BY <1>1, <2>2
  <1>6. ASSUME NEW m \in 1 .. n, m - 1 \in Good
        PROVE  m \in Good
    <2> DEFINE k == m - 1
               a == off[k]
               s == f[k]
               t == seqs[m]
    <2>1. k \in 0 .. n /\ a \in Nat /\ s \in Seq(T) /\ t \in Seq(T)
          /\ Len(t) \in Nat /\ off[m] = a + Len(t) /\ f[m] = s \o t
      <3>1. k \in 0 .. n
        BY <1>1
      <3>2. s \in Seq(T) /\ a \in Nat
        BY <1>2, <1>4, <3>1
      <3>3. t \in Seq(T) /\ Len(t) \in Nat
        BY <1>1
      <3>4. off[m] = a + Len(t) /\ f[m] = s \o t
        BY <1>2, <1>4
      <3> QED BY <3>1, <3>2, <3>3, <3>4
    <2>2. /\ Len(s) = a
          /\ \A i \in 1 .. k : \A j \in 1 .. Len(seqs[i]) :
                 off[i - 1] + j \in 1 .. a /\ s[off[i - 1] + j] = seqs[i][j]
          /\ \A p \in 1 .. a :
                 \E i \in 1 .. k : \E j \in 1 .. Len(seqs[i]) : p = off[i - 1] + j
      BY <1>6 DEF Laid
    <2> HIDE DEF s, t, a
    <2>3. /\ Len(s \o t) = a + Len(t)
          /\ \A p \in 1 .. a : (s \o t)[p] = s[p]
          /\ \A j \in 1 .. Len(t) : (s \o t)[a + j] = t[j]
      <3>1. /\ Len(s \o t) = Len(s) + Len(t)
            /\ \A p \in 1 .. Len(s) + Len(t) :
                   (s \o t)[p] = IF p <= Len(s) THEN s[p] ELSE t[p - Len(s)]
        BY <2>1, ConcatProperties
      <3>2. Len(s) = a /\ a \in Nat /\ Len(t) \in Nat
        BY <2>1, <2>2
      <3> QED BY <3>1, <3>2
    <2>4. ASSUME NEW i \in 1 .. m, NEW j \in 1 .. Len(seqs[i])
          PROVE  off[i - 1] + j \in 1 .. a + Len(t)
                 /\ (s \o t)[off[i - 1] + j] = seqs[i][j]
      <3>1. CASE i = m
        <4>1. off[i - 1] = a /\ seqs[i] = t
          BY <3>1 DEF a, t
        <4>2. j \in 1 .. Len(t)
          BY ONLY <4>1, j \in 1 .. Len(seqs[i])
        <4>3. a \in Nat /\ Len(t) \in Nat
          BY <2>1
        <4>4. a + j \in 1 .. a + Len(t)
          BY ONLY <4>2, <4>3
        <4>5. (s \o t)[a + j] = t[j]
          BY ONLY <2>3, <4>2
        <4> QED BY ONLY <4>1, <4>4, <4>5
      <3>2. CASE i # m
        <4>1. i \in 1 .. k
          BY <3>2
        <4>2. off[i - 1] + j \in 1 .. a /\ s[off[i - 1] + j] = seqs[i][j]
          BY ONLY <2>2, <4>1, j \in 1 .. Len(seqs[i])
        <4>3. a \in Nat /\ Len(t) \in Nat
          BY <2>1
        <4> DEFINE p == off[i - 1] + j
        <4>4. p \in 1 .. a /\ s[p] = seqs[i][j]
          BY ONLY <4>2
        <4> HIDE DEF p
        <4>5. p \in 1 .. a + Len(t)
          BY ONLY <4>3, <4>4
        <4>6. (s \o t)[p] = s[p]
          BY ONLY <2>3, <4>4
        <4>7. p \in 1 .. a + Len(t) /\ (s \o t)[p] = seqs[i][j]
          BY ONLY <4>4, <4>5, <4>6
        <4> QED BY ONLY <4>7 DEF p
      <3> QED BY <3>1, <3>2
    <2>5. ASSUME NEW p \in 1 .. a + Len(t)
          PROVE  \E i \in 1 .. m : \E j \in 1 .. Len(seqs[i]) : p = off[i - 1] + j
      <3>1. CASE p <= a
        <4>1. p \in 1 .. a
          <5>1. a \in Nat /\ p >= 1 /\ p \in Int
            BY <2>1
          <5> QED BY <3>1, <5>1
        <4>2. PICK i \in 1 .. k : \E j \in 1 .. Len(seqs[i]) : p = off[i - 1] + j
          BY <2>2, <4>1
        <4> QED BY <4>2
      <3>2. CASE p > a
        <4>1. a \in Nat /\ Len(t) \in Nat
          BY <2>1
        <4>2. p - a \in 1 .. Len(t) /\ p = a + (p - a)
          BY ONLY <3>2, <4>1, p \in 1 .. a + Len(t)
        <4>3. p - a \in 1 .. Len(seqs[m]) /\ p = off[m - 1] + (p - a)
          BY ONLY <4>2 DEF a, t, k
        <4> QED BY <4>3
      <3> QED BY <2>1, <3>1, <3>2
    <2>6. Laid(seqs, off, s \o t, m)
      <3> DEFINE w == s \o t
                 e == a + Len(t)
      <3>1. /\ Len(w) = e
            /\ \A i \in 1 .. m : \A j \in 1 .. Len(seqs[i]) :
                   off[i - 1] + j \in 1 .. e /\ w[off[i - 1] + j] = seqs[i][j]
            /\ \A p \in 1 .. e :
                   \E i \in 1 .. m : \E j \in 1 .. Len(seqs[i]) : p = off[i - 1] + j
        BY <2>3, <2>4, <2>5
      <3>2. off[m] = e
        BY <2>1
      <3> HIDE DEF w, e
      <3>3. Laid(seqs, off, w, m)
        BY <3>1, <3>2 DEF Laid
      <3> QED BY <3>3 DEF w
    <2>7. Laid(seqs, off, f[m], m)
      <3>1. f[m] = s \o t
        BY <2>1
      <3> QED BY <2>6, <3>1, Zenon
    <2>8. m \in 0 .. n
      BY <1>1
    <2> QED BY <2>7, <2>8, Zenon
  <1>7. Good = 0 .. n
    <2>1. Good \in SUBSET (0 .. n)
      OBVIOUS
    <2> HIDE DEF Good
    <2> QED BY <1>1, <1>5, <1>6, <2>1, UpTo
  <1>8. n \in Good
    <2> HIDE DEF Good
    <2> QED BY <1>1, <1>7
  <1>9. f[n] \in Seq(T)
    BY <1>1, <1>4
  <1> QED BY <1>3, <1>8, <1>9 DEF n

(* Sequences that are the pieces of rows, cut at the offsets.               *)
AreSlices(seqs, rows, off) ==
    /\ Offsets(seqs, off)
    /\ off[Len(seqs)] = Len(rows)
    /\ \A i \in 1 .. Len(seqs) : \A j \in 1 .. Len(seqs[i]) :
           seqs[i][j] = rows[off[i - 1] + j]

(* Slices of a sequence from end to end, one after the other, are the       *)
(* sequence again.                                                          *)
LEMMA FlattenOfSlices ==
  ASSUME NEW T, NEW rows \in Seq(T), NEW seqs \in Seq(Seq(T)),
         NEW off, AreSlices(seqs, rows, off)
  PROVE  FlattenSeq(seqs) = rows
PROOF
  <1> USE DEF AreSlices
  <1> DEFINE s == FlattenSeq(seqs)
  <1>1. s \in Seq(T) /\ Laid(seqs, off, s, Len(seqs))
    BY FlattenIsLaid
  <1> HIDE DEF s
  <1>2. Len(s) = Len(rows)
    BY <1>1 DEF Laid
  <1>3. ASSUME NEW p \in 1 .. Len(s) PROVE s[p] = rows[p]
    <2>1. PICK i \in 1 .. Len(seqs) : \E j \in 1 .. Len(seqs[i]) : p = off[i - 1] + j
      BY <1>1 DEF Laid
    <2>2. PICK j \in 1 .. Len(seqs[i]) : p = off[i - 1] + j
      BY <2>1
    <2> QED BY <1>1, <2>2 DEF Laid
  <1>4. s = rows
    BY <1>1, <1>2, <1>3, SeqEqual
  <1> QED BY <1>4 DEF s

(* Offsets are the sums of the lengths before.                              *)
LEMMA OffsetsExist ==
  ASSUME NEW T, NEW seqs \in Seq(Seq(T))
  PROVE  \E off : Offsets(seqs, off)
PROOF
  <1> DEFINE n == Len(seqs)
             step == [p \in Nat \X (1 .. n) |-> p[1] + Len(seqs[p[2]])]
  <1>1. n \in Nat /\ \A i \in 1 .. n : Len(seqs[i]) \in Nat
    OBVIOUS
  <1>2. step \in [Nat \X (1 .. n) -> Nat]
    BY <1>1
  <1>3. \E f : Iterates(f, Nat, 0, n, step)
    <2> HIDE DEF n, step
    <2> QED BY <1>1, <1>2, IterationExists
  <1>4. PICK off : Iterates(off, Nat, 0, n, step)
    BY <1>3
  <1>5. off \in [0 .. n -> Nat] /\ off[0] = 0
        /\ \A i \in 1 .. n : off[i] = step[<<off[i - 1], i>>]
    BY <1>4 DEF Iterates
  <1>6. ASSUME NEW i \in 1 .. n PROVE off[i] = off[i - 1] + Len(seqs[i])
    <2>1. off[i - 1] \in Nat
      <3> HIDE DEF n
      <3> QED BY <1>1, <1>5
    <2> QED BY <1>5, <2>1
  <1> QED BY <1>5, <1>6 DEF Offsets

(* Every position is in one of the parts, at one place.                     *)
Distinct(parts) ==
    \A i, j \in 1 .. Len(parts) :
        \A a \in 1 .. Len(parts[i]), b \in 1 .. Len(parts[j]) :
            parts[i][a] = parts[j][b] => i = j /\ a = b
Covers(parts, n) ==
    \A x \in 1 .. n :
        \E i \in 1 .. Len(parts) : \E a \in 1 .. Len(parts[i]) : parts[i][a] = x

(* Parts that cover 1 .. n put together are a permutation.                  *)
LEMMA FlattenPermutes ==
  ASSUME NEW n \in Nat, NEW parts \in Seq(Seq(1 .. n)), Distinct(parts),
         Covers(parts, n)
  PROVE  Permutes(FlattenSeq(parts), n)
PROOF
  <1> DEFINE s == FlattenSeq(parts)
             m == Len(parts)
             N == 1 .. n
  <1>1. PICK off : Offsets(parts, off)
    BY OffsetsExist
  <1>2. s \in Seq(N) /\ Laid(parts, off, s, m)
    <2> HIDE DEF N
    <2>1. parts \in Seq(Seq(N))
      BY DEF N
    <2> QED BY <1>1, <2>1, FlattenIsLaid
  <1> HIDE DEF s
  <1>3. /\ \A i \in 1 .. m : \A a \in 1 .. Len(parts[i]) :
               off[i - 1] + a \in 1 .. Len(s) /\ s[off[i - 1] + a] = parts[i][a]
        /\ \A p \in 1 .. Len(s) :
               \E i \in 1 .. m : \E a \in 1 .. Len(parts[i]) : p = off[i - 1] + a
    BY <1>2 DEF Laid
  <1>4. ASSUME NEW p \in 1 .. Len(s), NEW q \in 1 .. Len(s), s[p] = s[q]
        PROVE  p = q
    <2>1. PICK i \in 1 .. m : \E a \in 1 .. Len(parts[i]) : p = off[i - 1] + a
      BY <1>3
    <2>2. PICK a \in 1 .. Len(parts[i]) : p = off[i - 1] + a
      BY <2>1
    <2>3. PICK j \in 1 .. m : \E b \in 1 .. Len(parts[j]) : q = off[j - 1] + b
      BY <1>3
    <2>4. PICK b \in 1 .. Len(parts[j]) : q = off[j - 1] + b
      BY <2>3
    <2>5. parts[i][a] = parts[j][b]
      BY <1>3, <1>4, <2>2, <2>4
    <2>6. i = j /\ a = b
      BY <2>5 DEF Distinct
    <2> QED BY <2>2, <2>4, <2>6
  <1>5. ASSUME NEW x \in N PROVE \E p \in 1 .. Len(s) : s[p] = x
    <2>1. PICK i \in 1 .. m : \E a \in 1 .. Len(parts[i]) : parts[i][a] = x
      BY DEF Covers
    <2>2. PICK a \in 1 .. Len(parts[i]) : parts[i][a] = x
      BY <2>1
    <2> QED BY <1>3, <2>2
  <1>6. Len(s) \in Nat /\ s \in [1 .. Len(s) -> N]
    <2> HIDE DEF N
    <2> QED BY <1>2, LenProperties
  <1>7. Len(s) = n
    <2>1. s \in Bijection(1 .. Len(s), N)
      BY <1>4, <1>5, <1>6 DEF Bijection, Injection, Surjection, IsInjective
    <2>2. ExistsBijection(1 .. Len(s), N)
      BY <2>1 DEF ExistsBijection
    <2>3. Cardinality(N) = n
      BY FS_Interval
    <2> HIDE DEF N
    <2> QED BY <1>6, <2>2, <2>3, FS_CountingElements
  <1>8. s \in [1 .. n -> N] /\ (\A p, q \in 1 .. n : s[p] = s[q] => p = q)
        /\ \A x \in N : \E p \in 1 .. n : s[p] = x
    BY <1>4, <1>5, <1>6, <1>7
  <1> QED BY <1>8 DEF Permutes, s

-----------------------------------------------------------------------------
(* What the ranks are given is the batch again when put together.           *)
Dealt(chunks, rows, k, size, T) ==
    /\ chunks \in Seq(Seq(T))
    /\ Len(chunks) = k
    /\ \A j \in 1 .. k :
           /\ Len(chunks[j]) = size
           /\ \A i \in 1 .. size : chunks[j][i] = rows[(j - 1) * size + i]
    /\ FlattenSeq(chunks) = rows

(* DataProto.chunk deals all the rows, the same number to each.             *)
LEMMA ChunkIs ==
  ASSUME NEW T, NEW rows \in Seq(T), NEW k \in Nat \ {0}, Len(rows) % k = 0
  PROVE  Dealt(Chunk(rows, k), rows, k, Len(rows) \div k, T)
PROOF
  <1> DEFINE n == Len(rows)
             size == n \div k
             c == Chunk(rows, k)
             off == [j \in 0 .. k |-> j * size]
  <1>1. n \in Nat /\ size \in Nat /\ n = k * size
    BY Z3
  <1>2. c = [j \in 1 .. k |-> SubSeq(rows, (j - 1) * size + 1, j * size)]
    BY DEF Chunk
  <1>3. \A i \in 1 .. n : rows[i] \in T
    OBVIOUS
  <1> HIDE DEF n, size, c
  <1>4. ASSUME NEW j \in 1 .. k
        PROVE  /\ (j - 1) * size \in Nat /\ j * size = (j - 1) * size + size
               /\ j * size <= n
    <2>1. j - 1 \in Nat /\ k - j \in Nat
      OBVIOUS
    <2>2. (j - 1) * size \in Nat /\ (k - j) * size \in Nat
      BY <1>1, <2>1
    <2>3. j * size = (j - 1) * size + size /\ k * size = j * size + (k - j) * size
      BY <1>1
    <2> QED BY <1>1, <2>2, <2>3
  <1>5. ASSUME NEW j \in 1 .. k
        PROVE  /\ c[j] \in Seq(T) /\ Len(c[j]) = size
               /\ \A i \in 1 .. size : c[j][i] = rows[(j - 1) * size + i]
    <2> DEFINE b == (j - 1) * size
               e == j * size
    <2>1. b \in Nat /\ e = b + size /\ e <= n
      BY <1>4
    <2>2. c[j] = SubSeq(rows, b + 1, e)
      BY <1>2
    <2> HIDE DEF b, e
    <2>3. \A i \in b + 1 .. e : rows[i] \in T
      BY <1>1, <1>3, <2>1
    <2>4. b + 1 \in Int /\ e \in Int
      BY <1>1, <2>1
    <2>5. /\ c[j] \in Seq(T) /\ Len(c[j]) = IF b + 1 <= e THEN e - (b + 1) + 1 ELSE 0
          /\ \A i \in 1 .. e - (b + 1) + 1 : c[j][i] = rows[b + 1 + i - 1]
      BY <2>2, <2>3, <2>4, SubSeqProperties
    <2>6. Len(c[j]) = size /\ \A i \in 1 .. size : c[j][i] = rows[b + i]
      BY <1>1, <2>1, <2>5
    <2> QED BY <2>5, <2>6 DEF b
  <1>6. c \in Seq(Seq(T)) /\ Len(c) = k
    <2> DEFINE W == Seq(T)
    <2>1. DOMAIN c = 1 .. k /\ c = [j \in 1 .. k |-> c[j]]
      BY <1>2
    <2>2. \A j \in 1 .. k : c[j] \in W
      BY <1>5
    <2> HIDE DEF W
    <2>3. c \in [1 .. k -> W]
      BY <2>1, <2>2
    <2>4. c \in Seq(W) /\ Len(c) = k
      BY <2>3, FunctionIsSeq
    <2> QED BY <2>4 DEF W
  <1>7. Offsets(c, off) /\ off[k] = n
    <2>1. off \in [0 .. k -> Nat] /\ off[0] = 0
      <3>1. \A j \in 0 .. k : j * size \in Nat
        BY <1>1
      <3> QED BY <1>1, <3>1
    <2>2. ASSUME NEW j \in 1 .. k PROVE off[j] = off[j - 1] + size
      BY <1>4
    <2>3. off[k] = n
      BY <1>1
    <2> HIDE DEF off
    <2>4. \A j \in 1 .. k : off[j] = off[j - 1] + Len(c[j])
      BY <1>5, <2>2
    <2>5. Offsets(c, off)
      BY <1>6, <2>1, <2>4 DEF Offsets
    <2> QED BY <2>3, <2>5
  <1>8. FlattenSeq(c) = rows
    <2>1. \A j \in 1 .. k : \A i \in 1 .. Len(c[j]) : c[j][i] = rows[off[j - 1] + i]
      BY <1>5
    <2> HIDE DEF off
    <2>2. \A j \in 1 .. Len(c) : \A i \in 1 .. Len(c[j]) :
              c[j][i] = rows[off[j - 1] + i]
      BY <1>6, <2>1
    <2>3. off[Len(c)] = Len(rows)
      BY <1>6, <1>7 DEF n
    <2>4. AreSlices(c, rows, off)
      BY <1>7, <2>2, <2>3 DEF AreSlices
    <2> QED BY <1>6, <2>4, FlattenOfSlices
  <1>9. Dealt(c, rows, k, size, T)
    BY <1>5, <1>6, <1>8 DEF Dealt
  <1> QED BY <1>9 DEF n, size, c

(* Division with remainder, for any divisor.                                *)
LEMMA DivMod ==
  ASSUME NEW a \in Nat, NEW b \in Nat \ {0}
  PROVE  /\ a = b * (a \div b) + (a % b)
         /\ a % b \in 0 .. b - 1
         /\ a \div b \in Nat
  BY Z3

(* A multiple leaves no remainder.                                          *)
LEMMA MultipleDiv ==
  ASSUME NEW q \in Nat, NEW b \in Nat \ {0}
  PROVE  (q * b) % b = 0 /\ (q * b) \div b = q
PROOF
  <1> DEFINE a == q * b
             d == a \div b
             r == a % b
  <1>1. a \in Nat
    OBVIOUS
  <1> HIDE DEF a
  <1>2. a = b * d + r /\ r \in 0 .. b - 1 /\ d \in Nat
    BY <1>1, DivMod
  <1> HIDE DEF d, r
  <1>3. q = d
    <2>1. CASE q > d
      <3>1. q - d - 1 \in Nat
        BY <1>2, <2>1
      <3>2. (q - d - 1) * b \in Nat /\ q * b = b * d + b + (q - d - 1) * b
        BY <1>2, <3>1
      <3> QED BY <1>2, <3>2 DEF a
    <2>2. CASE q < d
      <3>1. d - q - 1 \in Nat
        BY <1>2, <2>2
      <3>2. (d - q - 1) * b \in Nat /\ b * d = q * b + b + (d - q - 1) * b
        BY <1>2, <3>1
      <3>3. q * b \in Nat /\ b * d \in Nat
        BY <1>2
      <3> QED BY <1>2, <3>2, <3>3 DEF a
    <2> QED BY <1>2, <2>1, <2>2
  <1>4. r = 0
    BY <1>2, <1>3 DEF a
  <1> QED BY <1>3, <1>4 DEF a, d, r

(* Parts of the same size are dealt out again as they were.                 *)
LEMMA ChunkOfFlatten ==
  ASSUME NEW T, NEW parts \in Seq(Seq(T)), Len(parts) > 0, NEW size \in Nat,
         \A j \in 1 .. Len(parts) : Len(parts[j]) = size
  PROVE  /\ Len(FlattenSeq(parts)) = Len(parts) * size
         /\ Chunk(FlattenSeq(parts), Len(parts)) = parts
PROOF
  <1> DEFINE k == Len(parts)
             s == FlattenSeq(parts)
             c == Chunk(s, k)
             off == [j \in 0 .. k |-> j * size]
  <1>1. k \in Nat \ {0} /\ \A j \in 1 .. k : parts[j] \in Seq(T)
    OBVIOUS
  <1>2. Offsets(parts, off)
    <2>1. off \in [0 .. k -> Nat] /\ off[0] = 0
      <3>1. \A j \in 0 .. k : j * size \in Nat
        BY <1>1
      <3> QED BY <1>1, <3>1
    <2>2. ASSUME NEW j \in 1 .. k PROVE off[j] = off[j - 1] + size
      <3>1. j * size = (j - 1) * size + size
        BY <1>1
      <3> QED BY <3>1
    <2> HIDE DEF off
    <2> QED BY <2>1, <2>2 DEF Offsets
  <1>3. s \in Seq(T) /\ Laid(parts, off, s, k)
    <2> HIDE DEF off
    <2> QED BY <1>2, FlattenIsLaid
  <1>4. /\ Len(s) = k * size
        /\ \A j \in 1 .. k : \A i \in 1 .. size : s[(j - 1) * size + i] = parts[j][i]
    <2>1. off[k] = k * size /\ \A j \in 1 .. k : off[j - 1] = (j - 1) * size
      BY <1>1
    <2> HIDE DEF off, s, k
    <2> QED BY <1>3, <2>1 DEF Laid, k
  <1>5. Len(s) % k = 0 /\ Len(s) \div k = size
    <2>1. (size * k) % k = 0 /\ (size * k) \div k = size
      BY <1>1, MultipleDiv
    <2>2. Len(s) = size * k
      BY <1>1, <1>4
    <2> QED BY <2>1, <2>2
  <1>6. /\ c \in Seq(Seq(T)) /\ Len(c) = k
        /\ \A j \in 1 .. k :
               /\ Len(c[j]) = size
               /\ \A i \in 1 .. size : c[j][i] = s[(j - 1) * size + i]
    <2> HIDE DEF s, k
    <2>1. s \in Seq(T) /\ k \in Nat \ {0} /\ Len(s) % k = 0
      BY <1>1, <1>3, <1>5
    <2>2. Dealt(c, s, k, Len(s) \div k, T)
      BY <2>1, ChunkIs
    <2> HIDE DEF c
    <2>3. Dealt(c, s, k, size, T)
      BY <1>5, <2>2
    <2> QED BY <2>3 DEF Dealt
  <1> HIDE DEF c, s
  <1>7. ASSUME NEW j \in 1 .. k PROVE c[j] = parts[j]
    <2>1. c[j] \in Seq(T) /\ parts[j] \in Seq(T)
      BY <1>1, <1>6
    <2>2. \A i \in 1 .. Len(c[j]) : c[j][i] = parts[j][i]
      BY <1>4, <1>6
    <2>3. Len(c[j]) = Len(parts[j])
      BY <1>6
    <2> QED BY <2>1, <2>2, <2>3, SeqEqual
  <1>8. c = parts
    BY <1>6, <1>7, SeqEqual
  <1> QED BY <1>4, <1>8 DEF c, s

(* The fixed micro-batches are the rows again, the last one may be shorter. *)
Cut(pieces, rows, size, T) ==
    /\ pieces \in Seq(Seq(T))
    /\ Len(pieces) = (Len(rows) + size - 1) \div size
    /\ FlattenSeq(pieces) = rows
    /\ \A j \in 1 .. Len(pieces) : \A i \in 1 .. Len(pieces[j]) :
           /\ pieces[j][i] = rows[(j - 1) * size + i]
           /\ (j - 1) * size + i \in 1 .. Len(rows)
    /\ Len(rows) % size = 0 =>
           /\ Len(pieces) = Len(rows) \div size
           /\ \A j \in 1 .. Len(pieces) : Len(pieces[j]) = size

(* DataProto.split takes the rows in turn, none is lost.                    *)
LEMMA SplitIs ==
  ASSUME NEW T, NEW rows \in Seq(T), NEW size \in Nat \ {0}
  PROVE  Cut(Split(rows, size), rows, size, T)
PROOF
  <1> DEFINE n == Len(rows)
             m == (n + size - 1) \div size
             c == Split(rows, size)
             End(j) == IF j * size < n THEN j * size ELSE n
             off == [j \in 0 .. m |-> End(j)]
  <1>1. n \in Nat /\ m \in Nat
    OBVIOUS
  <1>2. n <= m * size /\ (m > 0 => (m - 1) * size < n)
    <2> DEFINE a == n + size - 1
    <2>1. a \in Nat
      BY <1>1
    <2> HIDE DEF a
    <2>2. a = size * (a \div size) + (a % size) /\ a % size \in 0 .. size - 1
      BY <2>1, DivMod
    <2>3. m = a \div size
      BY DEF a
    <2>4. size * m = m * size /\ (m - 1) * size = m * size - size
      BY <1>1
    <2> HIDE DEF m, n
    <2> QED BY <1>1, <2>2, <2>3, <2>4 DEF a
  <1>3. n % size = 0 => m = n \div size /\ n = m * size
    <2> SUFFICES ASSUME n % size = 0 PROVE m = n \div size /\ n = m * size
      OBVIOUS
    <2> DEFINE q == n \div size
    <2>1. n = q * size /\ q \in Nat
      <3>1. n = size * q + (n % size) /\ q \in Nat
        BY <1>1, DivMod
      <3> HIDE DEF q, n
      <3> QED BY <1>1, <3>1
    <2> HIDE DEF m, n, q
    <2>2. q <= m
      <3>1. SUFFICES ASSUME q > m PROVE FALSE
        BY <1>1, <2>1
      <3>2. q - m - 1 \in Nat
        BY <1>1, <2>1, <3>1
      <3>3. (q - m - 1) * size \in Nat
            /\ q * size = m * size + size + (q - m - 1) * size
        BY <1>1, <2>1, <3>2
      <3>4. m * size \in Nat /\ n <= m * size
        BY <1>1, <1>2
      <3> QED BY <1>1, <2>1, <3>3, <3>4
    <2>3. m <= q
      <3>1. SUFFICES ASSUME m > q PROVE FALSE
        BY <1>1, <2>1
      <3>2. m - 1 - q \in Nat
        BY <1>1, <2>1, <3>1
      <3>3. (m - 1 - q) * size \in Nat
            /\ (m - 1) * size = q * size + (m - 1 - q) * size
        BY <1>1, <2>1, <3>2
      <3>4. (m - 1) * size < n /\ q * size \in Nat
        BY <1>1, <1>2, <2>1, <3>1
      <3> QED BY <1>1, <2>1, <3>3, <3>4
    <2>4. m = q
      BY <1>1, <2>1, <2>2, <2>3
    <2> QED BY <2>1, <2>4 DEF q
  <1>4. c = [j \in 1 .. m |-> SubSeq(rows, (j - 1) * size + 1, End(j))]
    BY DEF Split
  <1>5. \A i \in 1 .. n : rows[i] \in T
    OBVIOUS
  <1> HIDE DEF n, m, c
  <1>6. ASSUME NEW j \in 1 .. m
        PROVE  /\ (j - 1) * size \in Nat /\ (j - 1) * size < n
               /\ End(j - 1) = (j - 1) * size
               /\ End(j) \in Nat /\ End(j) <= n /\ End(j) > (j - 1) * size
               /\ n % size = 0 => End(j) = (j - 1) * size + size
    <2>1. j - 1 \in Nat /\ m - j \in Nat /\ m - 1 \in Nat
      BY <1>1
    <2>2. (j - 1) * size \in Nat /\ (m - j) * size \in Nat /\ j * size \in Nat
      BY <1>1, <2>1
    <2>3. /\ j * size = (j - 1) * size + size
          /\ m * size = j * size + (m - j) * size
          /\ (m - 1) * size = (j - 1) * size + (m - j) * size
      BY <1>1
    <2>4. (m - 1) * size < n
      BY <1>1, <1>2
    <2>5. (m - 1) * size \in Nat
      BY <1>1, <2>1
    <2>6. (j - 1) * size < n
      BY <1>1, <2>2, <2>3, <2>4, <2>5
    <2>7. n % size = 0 => j * size <= n
      BY <1>1, <1>3, <2>2, <2>3
    <2> QED BY <1>1, <2>2, <2>3, <2>6, <2>7
  <1>7. ASSUME NEW j \in 1 .. m
        PROVE  /\ c[j] \in Seq(T) /\ Len(c[j]) = End(j) - End(j - 1)
               /\ \A i \in 1 .. Len(c[j]) :
                      c[j][i] = rows[(j - 1) * size + i]
                      /\ (j - 1) * size + i \in 1 .. n
    <2> DEFINE b == (j - 1) * size
               e == End(j)
    <2>1. b \in Nat /\ e \in Nat /\ b < e /\ e <= n /\ End(j - 1) = b
      BY <1>6
    <2>2. c[j] = SubSeq(rows, b + 1, e)
      BY <1>4
    <2> HIDE DEF b, e, End
    <2>3. \A i \in b + 1 .. e : rows[i] \in T
      BY <1>1, <1>5, <2>1
    <2>4. b + 1 \in Int /\ e \in Int
      BY <2>1
    <2>5. /\ c[j] \in Seq(T) /\ Len(c[j]) = IF b + 1 <= e THEN e - (b + 1) + 1 ELSE 0
          /\ \A i \in 1 .. e - (b + 1) + 1 : c[j][i] = rows[b + 1 + i - 1]
      BY <2>2, <2>3, <2>4, SubSeqProperties
    <2>6. Len(c[j]) = e - b
      BY <2>1, <2>5
    <2>7. \A i \in 1 .. e - b : c[j][i] = rows[b + i] /\ b + i \in 1 .. n
      BY <1>1, <2>1, <2>5
    <2> QED BY <2>1, <2>5, <2>6, <2>7 DEF b, e
  <1>8. c \in Seq(Seq(T)) /\ Len(c) = m
    <2> DEFINE W == Seq(T)
    <2>1. DOMAIN c = 1 .. m /\ c = [j \in 1 .. m |-> c[j]]
      BY <1>4
    <2>2. \A j \in 1 .. m : c[j] \in W
      BY <1>7
    <2> HIDE DEF W
    <2>3. c \in [1 .. m -> W]
      BY <2>1, <2>2
    <2>4. c \in Seq(W) /\ Len(c) = m
      BY <1>1, <2>3, FunctionIsSeq
    <2> QED BY <2>4 DEF W
  <1>9. Offsets(c, off) /\ off[m] = n /\ \A j \in 1 .. m : off[j - 1] = (j - 1) * size
    <2>1. End(0) = 0
      BY <1>1
    <2>2. End(m) = n
      BY <1>1, <1>2
    <2>3. \A j \in 0 .. m : End(j) \in Nat
      <3> TAKE j \in 0 .. m
      <3>1. j * size \in Nat
        BY <1>1
      <3> QED BY <1>1, <3>1
    <2>4. ASSUME NEW j \in 1 .. m
          PROVE  End(j) = End(j - 1) + Len(c[j]) /\ End(j - 1) = (j - 1) * size
      <3>1. Len(c[j]) = End(j) - End(j - 1) /\ End(j) \in Nat
            /\ End(j - 1) = (j - 1) * size /\ (j - 1) * size \in Nat
        BY <1>6, <1>7
      <3> HIDE DEF End
      <3> QED BY <3>1
    <2> HIDE DEF End
    <2>5. /\ off \in [0 .. m -> Nat] /\ off[0] = 0 /\ off[m] = n
          /\ \A j \in 1 .. m : off[j] = End(j) /\ off[j - 1] = End(j - 1)
      BY <1>1, <2>1, <2>2, <2>3
    <2> HIDE DEF off
    <2> QED BY <1>8, <2>4, <2>5 DEF Offsets
  <1>10. FlattenSeq(c) = rows
    <2>1. \A j \in 1 .. m : \A i \in 1 .. Len(c[j]) : c[j][i] = rows[off[j - 1] + i]
      <3> HIDE DEF off, End
      <3> QED BY <1>7, <1>9
    <2> HIDE DEF off
    <2>2. \A j \in 1 .. Len(c) : \A i \in 1 .. Len(c[j]) :
              c[j][i] = rows[off[j - 1] + i]
      BY <1>8, <2>1
    <2>3. off[Len(c)] = Len(rows)
      BY <1>8, <1>9 DEF n
    <2>4. AreSlices(c, rows, off)
      BY <1>9, <2>2, <2>3 DEF AreSlices
    <2> QED BY <1>8, <2>4, FlattenOfSlices
  <1>11. n % size = 0 => \A j \in 1 .. m : Len(c[j]) = size
    <2> SUFFICES ASSUME n % size = 0, NEW j \in 1 .. m PROVE Len(c[j]) = size
      OBVIOUS
    <2>1. /\ Len(c[j]) = End(j) - End(j - 1)
          /\ End(j) = (j - 1) * size + size
          /\ End(j - 1) = (j - 1) * size /\ (j - 1) * size \in Nat
      BY <1>6, <1>7
    <2> HIDE DEF End
    <2> QED BY <2>1
  <1> HIDE DEF End
  <1>12. Cut(c, rows, size, T)
    BY <1>3, <1>7, <1>8, <1>10, <1>11 DEF n, m, Cut
  <1> QED BY <1>12 DEF c

-----------------------------------------------------------------------------
(* Sums.                                                                    *)
SumsBy(values, positions, f) ==
    /\ f \in [0 .. Len(values) -> Nat]
    /\ f[0] = 0
    /\ \A i \in 1 .. Len(values) :
           f[i] = IF i \in positions THEN f[i - 1] + values[i] ELSE f[i - 1]

(* SumOver is the function it recurses through.                             *)
LEMMA SumSteps ==
  ASSUME NEW values \in Seq(Nat), NEW positions
  PROVE  \E f : SumsBy(values, positions, f)
                /\ SumOver(values, positions) = f[Len(values)]
PROOF
  <1> DEFINE n == Len(values)
             step == [p \in Nat \X (1 .. n) |->
                         IF p[2] \in positions THEN p[1] + values[p[2]] ELSE p[1]]
             Eq(g) == g = [i \in 0 .. n |->
                              IF i = 0 THEN 0
                              ELSE IF i \in positions THEN g[i - 1] + values[i]
                                   ELSE g[i - 1]]
  <1>1. n \in Nat /\ \A i \in 1 .. n : values[i] \in Nat
    OBVIOUS
  <1>2. step \in [Nat \X (1 .. n) -> Nat]
    BY <1>1
  <1>3. \E f : Iterates(f, Nat, 0, n, step)
    <2> HIDE DEF n, step
    <2> QED BY <1>1, <1>2, IterationExists
  <1>4. PICK f : Iterates(f, Nat, 0, n, step)
    BY <1>3
  <1>5. f \in [0 .. n -> Nat] /\ f[0] = 0
        /\ \A i \in 1 .. n : f[i] = step[<<f[i - 1], i>>]
    BY <1>4 DEF Iterates
  <1>6. ASSUME NEW i \in 1 .. n
        PROVE  f[i] = IF i \in positions THEN f[i - 1] + values[i] ELSE f[i - 1]
    <2>1. f[i - 1] \in Nat
      <3> HIDE DEF n
      <3> QED BY <1>1, <1>5
    <2> QED BY <1>5, <2>1
  <1> HIDE DEF step
  <1>7. SumOver(values, positions) = (CHOOSE g : Eq(g))[n]
    BY DEF SumOver
  <1>8. Eq(f)
    <2> DEFINE k == [i \in 0 .. n |->
                        IF i = 0 THEN 0
                        ELSE IF i \in positions THEN f[i - 1] + values[i]
                             ELSE f[i - 1]]
    <2>1. ASSUME NEW i \in 0 .. n PROVE f[i] = k[i]
      <3>1. CASE i = 0
        BY <1>5, <3>1
      <3>2. CASE i # 0
        <4>1. i \in 1 .. n
          BY <1>1, <3>2
        <4> QED BY <1>6, <3>2, <4>1
      <3> QED BY <3>1, <3>2
    <2>2. f = [i \in 0 .. n |-> f[i]] /\ k = [i \in 0 .. n |-> k[i]]
      BY <1>5
    <2>3. f = k
      <3> HIDE DEF k, n
      <3> QED BY <2>1, <2>2
    <2> QED BY <2>3
  <1> DEFINE g == CHOOSE g : Eq(g)
  <1>9. Eq(g)
    <2> HIDE DEF Eq
    <2> QED BY <1>8
  <1> DEFINE Good == {i \in 0 .. n : g[i] = f[i]}
  <1>10. g = [i \in 0 .. n |-> IF i = 0 THEN 0
                               ELSE IF i \in positions THEN g[i - 1] + values[i]
                                    ELSE g[i - 1]]
    BY <1>9
  <1> HIDE DEF g
  <1>11. 0 \in Good
    BY <1>1, <1>5, <1>10
  <1>12. ASSUME NEW i \in 1 .. n, i - 1 \in Good
         PROVE  i \in Good
    <2>1. g[i] = IF i \in positions THEN g[i - 1] + values[i] ELSE g[i - 1]
      <3>1. i \in 0 .. n /\ i # 0
        BY <1>1
      <3> HIDE DEF n
      <3> QED BY <1>10, <3>1
    <2>2. g[i - 1] = f[i - 1]
      BY <1>12
    <2> QED BY <1>6, <2>1, <2>2
  <1>13. Good = 0 .. n
    <2>1. Good \in SUBSET (0 .. n)
      OBVIOUS
    <2> HIDE DEF Good, n
    <2> QED BY <1>1, <1>11, <1>12, <2>1, UpTo
  <1>14. g[n] = f[n]
    <2>1. n \in Good
      <3> HIDE DEF Good, n
      <3> QED BY <1>1, <1>13
    <2> QED BY <2>1
  <1>15. SumsBy(values, positions, f)
    BY <1>5, <1>6 DEF SumsBy
  <1> QED BY <1>7, <1>14, <1>15 DEF g

(* A sum of numbers is a number.                                            *)
LEMMA SumIsNat ==
  ASSUME NEW values \in Seq(Nat), NEW positions
  PROVE  SumOver(values, positions) \in Nat
PROOF
  <1>1. PICK f : SumsBy(values, positions, f)
                 /\ SumOver(values, positions) = f[Len(values)]
    BY SumSteps
  <1> QED BY <1>1 DEF SumsBy

(* The sum of two sets of positions that share none.                        *)
LEMMA SumOfUnion ==
  ASSUME NEW values \in Seq(Nat), NEW A, NEW B, A \cap B = {}
  PROVE  SumOver(values, A \cup B) = SumOver(values, A) + SumOver(values, B)
PROOF
  <1> DEFINE n == Len(values)
  <1>1. PICK f : SumsBy(values, A, f) /\ SumOver(values, A) = f[n]
    BY SumSteps
  <1>2. PICK g : SumsBy(values, B, g) /\ SumOver(values, B) = g[n]
    BY SumSteps
  <1>3. PICK h : SumsBy(values, A \cup B, h) /\ SumOver(values, A \cup B) = h[n]
    BY SumSteps
  <1>4. n \in Nat /\ \A i \in 1 .. n : values[i] \in Nat
    OBVIOUS
  <1> DEFINE Good == {i \in 0 .. n : h[i] = f[i] + g[i]}
  <1>5. 0 \in Good
    BY <1>1, <1>2, <1>3, <1>4 DEF SumsBy
  <1>6. ASSUME NEW i \in 1 .. n, i - 1 \in Good PROVE i \in Good
    <2>1. f[i - 1] \in Nat /\ g[i - 1] \in Nat /\ h[i - 1] = f[i - 1] + g[i - 1]
      BY <1>1, <1>2, <1>4, <1>6 DEF SumsBy
    <2>2. /\ f[i] = IF i \in A THEN f[i - 1] + values[i] ELSE f[i - 1]
          /\ g[i] = IF i \in B THEN g[i - 1] + values[i] ELSE g[i - 1]
          /\ h[i] = IF i \in A \cup B THEN h[i - 1] + values[i] ELSE h[i - 1]
      BY <1>1, <1>2, <1>3 DEF SumsBy
    <2>3. h[i] = f[i] + g[i]
      BY <1>4, <2>1, <2>2
    <2> QED BY <1>4, <2>3
  <1>7. Good = 0 .. n
    <2>1. Good \in SUBSET (0 .. n)
      OBVIOUS
    <2> HIDE DEF Good, n
    <2> QED BY <1>4, <1>5, <1>6, <2>1, UpTo
  <1>8. n \in Good
    <2> HIDE DEF Good, n
    <2> QED BY <1>4, <1>7
  <1> QED BY <1>1, <1>2, <1>3, <1>8

(* The sum over no position, and over one.                                  *)
LEMMA SumOfNone ==
  ASSUME NEW values \in Seq(Nat)
  PROVE  SumOver(values, {}) = 0
PROOF
  <1>1. SumOver(values, {} \cup {}) = SumOver(values, {}) + SumOver(values, {})
    BY SumOfUnion
  <1> QED BY <1>1, SumIsNat

(* The sum of one position.                                                 *)
LEMMA SumOfOne ==
  ASSUME NEW values \in Seq(Nat), NEW p \in 1 .. Len(values)
  PROVE  SumOver(values, {p}) = values[p]
PROOF
  <1> DEFINE n == Len(values)
  <1>1. PICK f : SumsBy(values, {p}, f) /\ SumOver(values, {p}) = f[n]
    BY SumSteps
  <1>2. n \in Nat /\ \A i \in 1 .. n : values[i] \in Nat
    OBVIOUS
  <1> DEFINE Good == {i \in 0 .. n : f[i] = IF i < p THEN 0 ELSE values[p]}
  <1>3. 0 \in Good
    BY <1>1, <1>2 DEF SumsBy
  <1>4. ASSUME NEW i \in 1 .. n, i - 1 \in Good PROVE i \in Good
    <2>1. f[i - 1] = IF i - 1 < p THEN 0 ELSE values[p]
      BY <1>4
    <2>2. f[i] = IF i \in {p} THEN f[i - 1] + values[i] ELSE f[i - 1]
      BY <1>1 DEF SumsBy
    <2>3. f[i] = IF i < p THEN 0 ELSE values[p]
      BY <1>2, <2>1, <2>2
    <2> QED BY <1>2, <2>3
  <1>5. Good = 0 .. n
    <2>1. Good \in SUBSET (0 .. n)
      OBVIOUS
    <2> HIDE DEF Good, n
    <2> QED BY <1>2, <1>3, <1>4, <2>1, UpTo
  <1>6. n \in Good
    <2> HIDE DEF Good, n
    <2> QED BY <1>2, <1>5
  <1> QED BY <1>1, <1>2, <1>6

(* A sum is positive when a position is taken.                              *)
LEMMA SumIsPositive ==
  ASSUME NEW values \in Seq(Nat \ {0}), NEW A,
         NEW p \in 1 .. Len(values), p \in A
  PROVE  SumOver(values, A) > 0
PROOF
  <1>1. values \in Seq(Nat) /\ values[p] \in Nat \ {0}
    OBVIOUS
  <1>2. SumOver(values, {p} \cup (A \ {p}))
          = SumOver(values, {p}) + SumOver(values, A \ {p})
    BY <1>1, SumOfUnion
  <1>3. {p} \cup (A \ {p}) = A
    OBVIOUS
  <1>4. SumOver(values, {p}) = values[p] /\ SumOver(values, A \ {p}) \in Nat
    BY <1>1, SumOfOne, SumIsNat
  <1> DEFINE a == SumOver(values, A \ {p})
             b == SumOver(values, A)
  <1>5. b = values[p] + a /\ a \in Nat
    BY <1>2, <1>3, <1>4
  <1> HIDE DEF a, b
  <1>6. b > 0
    BY <1>1, <1>5
  <1> QED BY <1>6 DEF b

-----------------------------------------------------------------------------
(* Sets and states.                                                         *)
SetsOver(n) == [sum : Nat, items : Seq(1 .. n)]

(* No item twice; no item in both.                                          *)
Single(u) == \A a, b \in 1 .. Len(u) : u[a] = u[b] => a = b
Apart(u, v) == \A a \in 1 .. Len(u) : \A b \in 1 .. Len(v) : u[a] # v[b]

(* A state of k sets that share no item, with the sums of their items.      *)
Sound(s, k, lengths) ==
    /\ s \in [1 .. k -> SetsOver(Len(lengths))]
    /\ \A j \in 1 .. k : Single(s[j].items)
    /\ \A i, j \in 1 .. k : i # j => Apart(s[i].items, s[j].items)
    /\ \A j \in 1 .. k : s[j].sum = SumOver(lengths, Range(s[j].items))

(* What sorting achieves.                                                   *)
Descending(s, k) == \A i, j \in 1 .. k : i < j => s[i].sum >= s[j].sum

(* Larger first by three numbers in turn, then in the order there was.      *)
Above(a, b, c, x, y, z) ==
    \/ a > x
    \/ a = x /\ b > y
    \/ a = x /\ b = y /\ c > z

(* Comparing three keys in turn is a strict order.                          *)
LEMMA AboveIsOneWay ==
  ASSUME NEW a \in Nat, NEW b \in Nat, NEW c \in Nat,
         NEW x \in Nat, NEW y \in Nat, NEW z \in Nat, Above(a, b, c, x, y, z)
  PROVE  ~Above(x, y, z, a, b, c)
  BY DEF Above

(* It tells any two apart that differ in a key.                             *)
LEMMA AboveIsTotal ==
  ASSUME NEW a \in Nat, NEW b \in Nat, NEW c \in Nat,
         NEW x \in Nat, NEW y \in Nat, NEW z \in Nat,
         ~Above(a, b, c, x, y, z), ~Above(x, y, z, a, b, c)
  PROVE  a = x /\ b = y /\ c = z
  BY DEF Above

(* It is transitive.                                                        *)
LEMMA AboveIsTransitive ==
  ASSUME NEW a \in Nat, NEW b \in Nat, NEW c \in Nat, NEW a2 \in Nat, NEW b2 \in Nat,
         NEW c2 \in Nat, NEW a3 \in Nat, NEW b3 \in Nat, NEW c3 \in Nat,
         Above(a, b, c, a2, b2, c2), Above(a2, b2, c2, a3, b3, c3)
  PROVE  Above(a, b, c, a3, b3, c3)
  BY DEF Above

Precedes(f, g, h, i, j) == Above(f[i], g[i], h[i], f[j], g[j], h[j])

(* Positions compared by three keys, the last of them different.            *)
LEMMA KeysOrder ==
  ASSUME NEW k \in Nat, NEW f \in [1 .. k -> Nat], NEW g \in [1 .. k -> Nat],
         NEW h \in [1 .. k -> Nat], NEW order,
         \A i, j \in 1 .. k :
             <<i, j>> \in order <=> \/ Precedes(f, g, h, i, j)
                                    \/ ~Precedes(f, g, h, j, i) /\ i < j
  PROVE  StrictOrder(1 .. k, order)
PROOF
  <1>1. ASSUME NEW x \in 1 .. k
        PROVE  f[x] \in Nat /\ g[x] \in Nat /\ h[x] \in Nat
    OBVIOUS
  <1>2. ASSUME NEW x \in 1 .. k, NEW y \in 1 .. k
        PROVE  /\ Precedes(f, g, h, x, y) => ~Precedes(f, g, h, y, x)
               /\ \/ Precedes(f, g, h, x, y) \/ Precedes(f, g, h, y, x)
                  \/ f[x] = f[y] /\ g[x] = g[y] /\ h[x] = h[y]
    <2>1. /\ f[x] \in Nat /\ g[x] \in Nat /\ h[x] \in Nat
          /\ f[y] \in Nat /\ g[y] \in Nat /\ h[y] \in Nat
      BY <1>1
    <2>2. Precedes(f, g, h, x, y) => ~Precedes(f, g, h, y, x)
      BY <2>1, AboveIsOneWay DEF Precedes
    <2>3. \/ Precedes(f, g, h, x, y) \/ Precedes(f, g, h, y, x)
          \/ f[x] = f[y] /\ g[x] = g[y] /\ h[x] = h[y]
      BY <2>1, AboveIsTotal DEF Precedes
    <2> QED BY <2>2, <2>3
  <1>3. \A x \in 1 .. k : <<x, x>> \notin order
    BY <1>2
  <1>4. ASSUME NEW x \in 1 .. k, NEW y \in 1 .. k, x # y
        PROVE  <<x, y>> \in order \/ <<y, x>> \in order
    <2>1. \/ Precedes(f, g, h, x, y) \/ Precedes(f, g, h, y, x)
          \/ /\ ~Precedes(f, g, h, x, y) /\ ~Precedes(f, g, h, y, x)
             /\ (x < y \/ y < x)
      BY <1>4
    <2> QED BY <2>1
  <1>5. ASSUME NEW x \in 1 .. k, NEW y \in 1 .. k, NEW z \in 1 .. k,
               <<x, y>> \in order, <<y, z>> \in order
        PROVE  <<x, z>> \in order
    <2>1. Precedes(f, g, h, x, y) \/ (~Precedes(f, g, h, y, x) /\ x < y)
      BY <1>5
    <2>2. Precedes(f, g, h, y, z) \/ (~Precedes(f, g, h, z, y) /\ y < z)
      BY <1>5
    <2>3. CASE Precedes(f, g, h, x, y) /\ Precedes(f, g, h, y, z)
      <3>1. Precedes(f, g, h, x, z)
        BY <1>1, <2>3, AboveIsTransitive DEF Precedes
      <3> QED BY <3>1
    <2>4. CASE Precedes(f, g, h, x, y) /\ ~Precedes(f, g, h, y, z)
      <3>1. f[y] = f[z] /\ g[y] = g[z] /\ h[y] = h[z]
        BY <1>2, <2>2, <2>4
      <3>2. Precedes(f, g, h, x, z)
        BY <2>4, <3>1 DEF Precedes
      <3> QED BY <3>2
    <2>5. CASE ~Precedes(f, g, h, x, y) /\ Precedes(f, g, h, y, z)
      <3>1. f[x] = f[y] /\ g[x] = g[y] /\ h[x] = h[y]
        BY <1>2, <2>1, <2>5
      <3>2. Precedes(f, g, h, x, z)
        BY <2>5, <3>1 DEF Precedes
      <3> QED BY <3>2
    <2>6. CASE ~Precedes(f, g, h, x, y) /\ ~Precedes(f, g, h, y, z)
      <3>1. f[x] = f[y] /\ g[x] = g[y] /\ h[x] = h[y]
            /\ f[y] = f[z] /\ g[y] = g[z] /\ h[y] = h[z]
        BY <1>2, <2>1, <2>2, <2>6
      <3>2. ~Precedes(f, g, h, z, x) /\ x < z
        BY <2>1, <2>2, <2>6, <3>1 DEF Precedes
      <3> QED BY <3>2
    <2> QED BY <2>3, <2>4, <2>5, <2>6
  <1> QED BY <1>3, <1>4, <1>5 DEF StrictOrder

First(a) == IF Len(a.items) = 0 THEN 0 ELSE a.items[1]

(* Set.__lt__ compares sum, number of items, and first item.                *)
LEMMA LargerSetIs ==
  ASSUME NEW n \in Nat, NEW a \in SetsOver(n), NEW b \in SetsOver(n)
  PROVE  /\ a.sum \in Nat /\ Len(a.items) \in Nat /\ First(a) \in Nat
         /\ LargerSet(a, b) <=>
                \/ a.sum > b.sum
                \/ a.sum = b.sum /\ Len(a.items) > Len(b.items)
                \/ /\ a.sum = b.sum /\ Len(a.items) = Len(b.items)
                   /\ First(a) > First(b)
PROOF
  <1>1. /\ a.sum \in Nat /\ a.items \in Seq(1 .. n) /\ Len(a.items) \in Nat
        /\ b.sum \in Nat /\ b.items \in Seq(1 .. n) /\ Len(b.items) \in Nat
    BY DEF SetsOver
  <1>2. a.items = <<>> <=> Len(a.items) = 0
    BY <1>1
  <1>3. Len(a.items) > 0 => a.items[1] \in 1 .. n
    BY <1>1
  <1>4. Len(b.items) > 0 => b.items[1] \in 1 .. n
    BY <1>1
  <1> QED BY <1>1, <1>2, <1>3, <1>4 DEF LargerSet, First

(* sorted() has an order to sort the sets of a state by.                    *)
LEMMA LargestFirstIsOrder ==
  ASSUME NEW n \in Nat, NEW k \in Nat, NEW s \in [1 .. k -> SetsOver(n)]
  PROVE  /\ StrictOrder(1 .. k, LargestFirst(s))
         /\ \A i, j \in 1 .. k :
                <<i, j>> \in LargestFirst(s) => s[i].sum >= s[j].sum
PROOF
  <1> DEFINE f == [j \in 1 .. k |-> s[j].sum]
             g == [j \in 1 .. k |-> Len(s[j].items)]
             h == [j \in 1 .. k |-> First(s[j])]
  <1>1. ASSUME NEW i \in 1 .. k, NEW j \in 1 .. k
        PROVE  /\ s[i].sum \in Nat /\ Len(s[i].items) \in Nat /\ First(s[i]) \in Nat
               /\ s[j].sum \in Nat
               /\ LargerSet(s[i], s[j]) <=> Precedes(f, g, h, i, j)
    <2>1. s[i] \in SetsOver(n) /\ s[j] \in SetsOver(n)
      OBVIOUS
    <2> HIDE DEF First
    <2>2. /\ f[i] = s[i].sum /\ f[j] = s[j].sum
          /\ g[i] = Len(s[i].items) /\ g[j] = Len(s[j].items)
          /\ h[i] = First(s[i]) /\ h[j] = First(s[j])
      OBVIOUS
    <2> HIDE DEF f, g, h
    <2> QED BY <2>1, <2>2, LargerSetIs DEF Precedes, Above
  <1>2. f \in [1 .. k -> Nat] /\ g \in [1 .. k -> Nat] /\ h \in [1 .. k -> Nat]
    BY <1>1
  <1>3. ASSUME NEW i \in 1 .. k, NEW j \in 1 .. k
        PROVE  <<i, j>> \in LargestFirst(s) <=>
                   \/ LargerSet(s[i], s[j])
                   \/ ~LargerSet(s[j], s[i]) /\ i < j
    BY DEF LargestFirst, PositionPairs
  <1>4. ASSUME NEW i \in 1 .. k, NEW j \in 1 .. k
        PROVE  <<i, j>> \in LargestFirst(s) <=>
                   \/ Precedes(f, g, h, i, j)
                   \/ ~Precedes(f, g, h, j, i) /\ i < j
    <2> HIDE DEF f, g, h
    <2> QED BY <1>1, <1>3
  <1>5. StrictOrder(1 .. k, LargestFirst(s))
    <2> HIDE DEF f, g, h
    <2> QED BY <1>2, <1>4, KeysOrder
  <1>6. ASSUME NEW i \in 1 .. k, NEW j \in 1 .. k, <<i, j>> \in LargestFirst(s)
        PROVE  s[i].sum >= s[j].sum
    <2>1. Precedes(f, g, h, i, j) \/ ~Precedes(f, g, h, j, i)
      <3> HIDE DEF f, g, h
      <3> QED BY <1>4, <1>6
    <2>2. f[i] >= f[j]
      <3>1. f[i] \in Nat /\ f[j] \in Nat
        <4> HIDE DEF f
        <4> QED BY <1>2
      <3> HIDE DEF f, g, h
      <3> QED BY <2>1, <3>1 DEF Precedes, Above
    <2> QED BY <2>2
  <1> QED BY <1>5, <1>6

(* The positions 1 to k put in an order.                                    *)
PutsInOrder(place, k, order) ==
    /\ Permutes(place, k)
    /\ \A i, j \in 1 .. k : i < j => <<place[i], place[j]>> \in order

(* Positions in an order are a permutation.                                 *)
LEMMA OrderOfPositions ==
  ASSUME NEW k \in Nat, NEW order, StrictOrder(1 .. k, order)
  PROVE  PutsInOrder(InOrder(1 .. k, order), k, order)
PROOF
  <1> DEFINE S == 1 .. k
             place == InOrder(S, order)
  <1>1. IsFiniteSet(S) /\ Cardinality(S) = k
    BY FS_Interval
  <1>2. /\ place \in [1 .. Cardinality(S) -> S]
        /\ \A i, j \in 1 .. Cardinality(S) :
               i < j => <<place[i], place[j]>> \in order
        /\ \A x \in S : \E i \in 1 .. Cardinality(S) : place[i] = x
    <2>1. StrictOrder(S, order)
      OBVIOUS
    <2> HIDE DEF S
    <2> QED BY <1>1, <2>1, InOrderIsOrdered
  <1> HIDE DEF place
  <1>3. /\ place \in [1 .. k -> 1 .. k]
        /\ \A i, j \in 1 .. k : i < j => <<place[i], place[j]>> \in order
        /\ \A x \in 1 .. k : \E i \in 1 .. k : place[i] = x
    BY <1>1, <1>2
  <1>4. ASSUME NEW i \in 1 .. k, NEW j \in 1 .. k, i < j
        PROVE  place[i] # place[j]
    <2>1. <<place[i], place[j]>> \in order /\ place[i] \in 1 .. k
      BY <1>3, <1>4
    <2> QED BY <2>1 DEF StrictOrder
  <1>5. \A i, j \in 1 .. k : place[i] = place[j] => i = j
    <2> SUFFICES ASSUME NEW i \in 1 .. k, NEW j \in 1 .. k, i # j
                 PROVE  place[i] # place[j]
      OBVIOUS
    <2>1. i < j \/ j < i
      OBVIOUS
    <2> QED BY <1>4, <2>1
  <1>6. PutsInOrder(place, k, order)
    BY <1>3, <1>5 DEF PutsInOrder, Permutes
  <1> QED BY <1>6 DEF place

(* Sorting a state's sets moves them and leaves the largest first.          *)
Rearranges(r, s, k) ==
    \E place : Permutes(place, k) /\ r = [j \in 1 .. k |-> s[place[j]]]

(* Sorting a state moves its sets, and the largest is first.                *)
LEMMA SortRearranges ==
  ASSUME NEW n \in Nat, NEW k \in Nat, NEW s \in [1 .. k -> SetsOver(n)]
  PROVE  Rearranges(SortSets(s), s, k) /\ Descending(SortSets(s), k)
PROOF
  <1> DEFINE order == LargestFirst(s)
             place == InOrder(1 .. k, order)
             r == SortSets(s)
  <1>1. StrictOrder(1 .. k, order)
        /\ \A i, j \in 1 .. k : <<i, j>> \in order => s[i].sum >= s[j].sum
    BY LargestFirstIsOrder
  <1> HIDE DEF order
  <1>2. PutsInOrder(place, k, order)
    BY <1>1, OrderOfPositions
  <1> HIDE DEF place
  <1>3. /\ place \in [1 .. k -> 1 .. k] /\ Permutes(place, k)
        /\ \A i, j \in 1 .. k : i < j => <<place[i], place[j]>> \in order
    BY <1>2 DEF PutsInOrder, Permutes
  <1>4. r = [j \in 1 .. k |-> s[place[j]]]
    <2>1. DOMAIN s = 1 .. k /\ DOMAIN place = 1 .. k
      BY <1>3
    <2> DEFINE moved == [j \in 1 .. k |-> s[place[j]]]
    <2>2. Reorder(s, place) = moved
      BY <2>1 DEF Reorder
    <2>3. \A j \in 1 .. k : moved[j] \in SetsOver(n)
      BY <1>3
    <2>4. moved \in Seq(SetsOver(n)) /\ Len(moved) = k /\ DOMAIN moved = 1 .. k
      <3> QED BY ONLY <2>3, k \in Nat
    <2>5. s \in Seq(SetsOver(n)) /\ Len(s) = k
      <3> QED BY ONLY <2>1, s \in [1 .. k -> SetsOver(n)], k \in Nat
    <2>6. r = SubSeq(Reorder(s, place), 1, Len(s))
      BY <2>1 DEF SortSets, order, place
    <2> HIDE DEF moved
    <2>7. SubSeq(moved, 1, k) = moved
      <3>1. SubSeq(moved, 1, k) = [j \in 1 .. k |-> moved[j]]
        BY <2>4
      <3>2. moved = [j \in 1 .. k |-> moved[j]]
        BY DEF moved
      <3> QED BY <3>1, <3>2
    <2> QED BY <2>2, <2>5, <2>6, <2>7 DEF moved
  <1> HIDE DEF r
  <1>5. Descending(r, k)
    <2> SUFFICES ASSUME NEW i \in 1 .. k, NEW j \in 1 .. k, i < j
                 PROVE  r[i].sum >= r[j].sum
      BY DEF Descending
    <2>1. r[i] = s[place[i]] /\ r[j] = s[place[j]]
      BY <1>4
    <2> QED BY <1>1, <1>3, <2>1
  <1> QED BY <1>3, <1>4, <1>5 DEF Rearranges, r

(* What the states are, whatever the order of their sets: sound, no set     *)
(* with two items as long as one is empty, with equal_size as many items in *)
(* each, and sums within one of the given bounds.                           *)
In(x, u) == \E a \in 1 .. Len(u) : u[a] = x
Holds(s, k, x) == \E j \in 1 .. k : In(x, s[j].items)
Thin(s, k) ==
    \A i, j \in 1 .. k : Len(s[i].items) = 0 => Len(s[j].items) <= 1
Full(s, k) == \A i, j \in 1 .. k : Len(s[i].items) = Len(s[j].items)
Within(s, k, d) == \A i, j \in 1 .. k : s[i].sum - s[j].sum <= d
Close(s, k, bounds) == \E d \in bounds : Within(s, k, d)

Kept(s, k, lengths, even, bounds) ==
    /\ Sound(s, k, lengths)
    /\ Thin(s, k)
    /\ even => Full(s, k)
    /\ Close(s, k, bounds)

(* Moving the sets of a state keeps what is said of them.                   *)
LEMMA RearrangedIsKept ==
  ASSUME NEW k \in Nat, NEW lengths, NEW even, NEW bounds, NEW s, NEW r,
         Kept(s, k, lengths, even, bounds), Rearranges(r, s, k)
  PROVE  Kept(r, k, lengths, even, bounds)
PROOF
  <1>1. PICK place : Permutes(place, k) /\ r = [j \in 1 .. k |-> s[place[j]]]
    BY DEF Rearranges
  <1>2. /\ \A j \in 1 .. k : place[j] \in 1 .. k /\ r[j] = s[place[j]]
        /\ \A i, j \in 1 .. k : place[i] = place[j] => i = j
    BY <1>1 DEF Permutes
  <1>0. \A j \in 1 .. k :
            /\ r[j].items = s[place[j]].items /\ r[j].sum = s[place[j]].sum
            /\ Len(r[j].items) = Len(s[place[j]].items)
    BY <1>2
  <1>3. Sound(r, k, lengths)
    <2>1. s \in [1 .. k -> SetsOver(Len(lengths))]
      BY DEF Kept, Sound
    <2>2. r \in [1 .. k -> SetsOver(Len(lengths))]
      BY <1>1, <1>2, <2>1
    <2>3. \A j \in 1 .. k : Single(r[j].items)
      BY <1>0, <1>2 DEF Kept, Sound
    <2>4. \A i, j \in 1 .. k : i # j => Apart(r[i].items, r[j].items)
      BY <1>0, <1>2 DEF Kept, Sound
    <2>5. ASSUME NEW j \in 1 .. k
          PROVE  r[j].sum = SumOver(lengths, Range(r[j].items))
      BY <1>2 DEF Kept, Sound
    <2> QED BY <2>2, <2>3, <2>4, <2>5 DEF Sound
  <1>4. Thin(r, k)
    BY <1>0, <1>2 DEF Kept, Thin
  <1>5. ASSUME even PROVE Full(r, k)
    <2>1. Full(s, k)
      BY <1>5 DEF Kept
    <2>2. SUFFICES ASSUME NEW i \in 1 .. k, NEW j \in 1 .. k
                   PROVE  Len(r[i].items) = Len(r[j].items)
      BY DEF Full
    <2>3. place[i] \in 1 .. k /\ place[j] \in 1 .. k
      BY <1>2
    <2>4. Len(s[place[i]].items) = Len(s[place[j]].items)
      BY <2>1, <2>3 DEF Full
    <2>5. Len(r[i].items) = Len(s[place[i]].items)
          /\ Len(r[j].items) = Len(s[place[j]].items)
      BY <1>0
    <2> QED BY <2>4, <2>5
  <1>6. Close(r, k, bounds)
    <2>1. PICK d \in bounds : Within(s, k, d)
      BY DEF Kept, Close
    <2>2. Within(r, k, d)
      BY <1>2, <2>1 DEF Within
    <2> QED BY <2>2 DEF Close
  <1> QED BY <1>3, <1>4, <1>5, <1>6 DEF Kept

(* It loses no item.                                                        *)
LEMMA RearrangedHolds ==
  ASSUME NEW k \in Nat, NEW s, NEW r, Rearranges(r, s, k), NEW x
  PROVE  Holds(r, k, x) <=> Holds(s, k, x)
PROOF
  <1>1. PICK place : Permutes(place, k) /\ r = [j \in 1 .. k |-> s[place[j]]]
    BY DEF Rearranges
  <1>2. /\ \A j \in 1 .. k : place[j] \in 1 .. k /\ r[j] = s[place[j]]
        /\ \A i \in 1 .. k : \E j \in 1 .. k : place[j] = i
    BY <1>1 DEF Permutes
  <1>0. \A j \in 1 .. k :
            /\ r[j].items = s[place[j]].items
            /\ Len(r[j].items) = Len(s[place[j]].items)
    BY <1>2
  <1>3. ASSUME Holds(r, k, x) PROVE Holds(s, k, x)
    BY <1>0, <1>2, <1>3 DEF Holds
  <1>4. ASSUME Holds(s, k, x) PROVE Holds(r, k, x)
    <2>1. PICK i \in 1 .. k : In(x, s[i].items)
      BY <1>4 DEF Holds
    <2>2. PICK j \in 1 .. k : place[j] = i
      BY <1>2
    <2>3. r[j] = s[i]
      BY <1>2, <2>2
    <2> QED BY <2>1, <2>3 DEF Holds
  <1> QED BY <1>3, <1>4

(* An empty set has sum 0 and any other has more, so the sets with items    *)
(* come first.                                                              *)
LEMMA SumTellsEmpty ==
  ASSUME NEW lengths \in Seq(Nat \ {0}), NEW k \in Nat, NEW s,
         Sound(s, k, lengths), NEW j \in 1 .. k
  PROVE  /\ s[j].sum \in Nat
         /\ Len(s[j].items) \in Nat
         /\ s[j].sum = 0 <=> Len(s[j].items) = 0
PROOF
  <1> DEFINE items == s[j].items
  <1>1. s[j] \in SetsOver(Len(lengths)) /\ s[j].sum = SumOver(lengths, Range(items))
    BY DEF Sound
  <1>2. s[j].sum \in Nat /\ items \in Seq(1 .. Len(lengths))
    BY <1>1 DEF SetsOver
  <1>3. Len(items) \in Nat /\ DOMAIN items = 1 .. Len(items)
    BY <1>2
  <1>4. ASSUME Len(items) = 0 PROVE s[j].sum = 0
    <2>1. DOMAIN items = {}
      BY <1>3, <1>4
    <2>3. Range(items) = {}
      BY <2>1 DEF Range
    <2>2. lengths \in Seq(Nat)
      OBVIOUS
    <2> QED BY <1>1, <2>2, <2>3, SumOfNone
  <1>5. ASSUME Len(items) # 0 PROVE s[j].sum > 0
    <2> HIDE DEF items
    <2>1. 1 \in DOMAIN items /\ items[1] \in 1 .. Len(lengths)
      <3>1. 1 \in 1 .. Len(items)
        BY ONLY <1>3, <1>5
      <3>2. 1 \in DOMAIN items
        BY ONLY <1>3, <3>1
      <3>3. items[1] \in 1 .. Len(lengths)
        BY <1>2, <3>1
      <3> QED BY <3>2, <3>3
    <2>2. items[1] \in Range(items)
      BY <2>1 DEF Range
    <2> QED BY <1>1, <2>1, <2>2, SumIsPositive
  <1>6. s[j].sum = 0 <=> Len(items) = 0
    BY <1>2, <1>4, <1>5
  <1> QED BY <1>2, <1>3, <1>6

(* In the order of sums, the sets that hold an item come first.             *)
LEMMA ItemsComeFirst ==
  ASSUME NEW lengths \in Seq(Nat \ {0}), NEW k \in Nat, NEW s,
         Sound(s, k, lengths), Descending(s, k),
         NEW i \in 1 .. k, NEW j \in 1 .. k, i <= j, Len(s[i].items) = 0
  PROVE  Len(s[j].items) = 0
PROOF
  <1>1. s[i].sum = 0 /\ s[i].sum \in Nat /\ s[j].sum \in Nat
    BY SumTellsEmpty
  <1>2. s[j].sum <= s[i].sum
    BY <1>1 DEF Descending
  <1>3. s[j].sum = 0
    BY <1>1, <1>2
  <1> QED BY <1>3, SumTellsEmpty

-----------------------------------------------------------------------------
(* Merging.                                                                 *)
LEMMA RangeIs ==
  ASSUME NEW T, NEW u \in Seq(T)
  PROVE  /\ Len(u) \in Nat
         /\ Range(u) \in SUBSET T
         /\ \A x : x \in Range(u) <=> In(x, u)
  BY DEF Range, In

(* Two sequences that share no item, one after the other.                   *)
LEMMA JoinIs ==
  ASSUME NEW T, NEW u \in Seq(T), NEW v \in Seq(T),
         Single(u), Single(v), Apart(u, v)
  PROVE  /\ u \o v \in Seq(T)
         /\ Len(u \o v) = Len(u) + Len(v)
         /\ Single(u \o v)
         /\ \A x : In(x, u \o v) <=> In(x, u) \/ In(x, v)
         /\ Range(u \o v) = Range(u) \cup Range(v)
         /\ Range(u) \cap Range(v) = {}
PROOF
  <1> DEFINE w == u \o v
             m == Len(u)
             n == Len(v)
  <1>1. /\ w \in Seq(T) /\ m \in Nat /\ n \in Nat /\ Len(w) = m + n
        /\ \A i \in 1 .. m : w[i] = u[i]
        /\ \A i \in 1 .. n : w[m + i] = v[i]
    OBVIOUS
  <1> HIDE DEF w
  <1>2. ASSUME NEW i \in 1 .. m + n
        PROVE  \/ i \in 1 .. m /\ w[i] = u[i]
               \/ i - m \in 1 .. n /\ w[i] = v[i - m]
    <2>1. CASE i <= m
      BY <1>1, <2>1
    <2>2. CASE i > m
      <3>1. i - m \in 1 .. n /\ m + (i - m) = i
        BY <1>1, <2>2
      <3> QED BY <1>1, <3>1
    <2> QED BY <1>1, <2>1, <2>2
  <1>3. Single(w)
    <2> SUFFICES ASSUME NEW a \in 1 .. m + n, NEW b \in 1 .. m + n, w[a] = w[b]
                 PROVE  a = b
      BY <1>1 DEF Single
    <2>1. \/ a \in 1 .. m /\ w[a] = u[a]
          \/ a - m \in 1 .. n /\ w[a] = v[a - m]
      BY <1>2
    <2>2. \/ b \in 1 .. m /\ w[b] = u[b]
          \/ b - m \in 1 .. n /\ w[b] = v[b - m]
      BY <1>2
    <2>3. CASE a \in 1 .. m /\ w[a] = u[a]
      BY <2>2, <2>3 DEF Single, Apart
    <2>4. CASE a - m \in 1 .. n /\ w[a] = v[a - m]
      <3>1. ~(b \in 1 .. m /\ w[b] = u[b])
        BY <2>4 DEF Apart
      <3>2. a - m = b - m
        BY <2>2, <2>4, <3>1 DEF Single
      <3> QED BY <1>1, <3>2
    <2> QED BY <2>1, <2>3, <2>4
  <1>4. ASSUME NEW x PROVE In(x, w) <=> In(x, u) \/ In(x, v)
    <2>1. ASSUME In(x, w) PROVE In(x, u) \/ In(x, v)
      <3>1. PICK i \in 1 .. m + n : w[i] = x
        BY <1>1, <2>1 DEF In
      <3> QED BY <1>2, <3>1 DEF In
    <2>2. ASSUME In(x, u) PROVE In(x, w)
      <3>1. PICK i \in 1 .. m : u[i] = x
        BY <2>2 DEF In
      <3>2. i \in 1 .. Len(w) /\ w[i] = x
        BY <1>1, <3>1
      <3> QED BY <3>2 DEF In
    <2>3. ASSUME In(x, v) PROVE In(x, w)
      <3>1. PICK i \in 1 .. n : v[i] = x
        BY <2>3 DEF In
      <3>2. m + i \in 1 .. Len(w) /\ w[m + i] = x
        BY <1>1, <3>1
      <3> QED BY <3>2 DEF In
    <2> QED BY <2>1, <2>2, <2>3
  <1>5. Range(w) = Range(u) \cup Range(v)
    <2>1. \A x : x \in Range(w) <=> x \in Range(u) \/ x \in Range(v)
      BY <1>1, <1>4, RangeIs
    <2> QED BY <2>1
  <1>6. Range(u) \cap Range(v) = {}
    <2> SUFFICES ASSUME NEW x, In(x, u), In(x, v) PROVE FALSE
      BY RangeIs
    <2> QED BY DEF In, Apart
  <1> QED BY <1>1, <1>3, <1>4, <1>5, <1>6 DEF w

(* Two states that share no item, the sets of one joined to those of the    *)
(* other from the last.                                                     *)
Disjoint(s, t, k) == \A i, j \in 1 .. k : Apart(s[i].items, t[j].items)

(* The set m holds what a and b hold.                                       *)
Joined(m, a, b, lengths) ==
    /\ m \in SetsOver(Len(lengths))
    /\ m.sum = a.sum + b.sum
    /\ Len(m.items) = Len(a.items) + Len(b.items)
    /\ Single(m.items)
    /\ \A x : In(x, m.items) <=> In(x, a.items) \/ In(x, b.items)
    /\ m.sum = SumOver(lengths, Range(m.items))

(* A merged set holds the items of both and the sum of both.                *)
LEMMA JoinedSets ==
  ASSUME NEW lengths \in Seq(Nat \ {0}), NEW k \in Nat, NEW s, NEW t,
         Sound(s, k, lengths), Sound(t, k, lengths), Disjoint(s, t, k),
         NEW i \in 1 .. k, NEW j \in 1 .. k
  PROVE  Joined(MergeSets(s[i], t[j]), s[i], t[j], lengths)
PROOF
  <1> DEFINE T == 1 .. Len(lengths)
             u == s[i].items
             v == t[j].items
             m == MergeSets(s[i], t[j])
  <1>1. /\ s[i] \in SetsOver(Len(lengths)) /\ t[j] \in SetsOver(Len(lengths))
        /\ Single(u) /\ Single(v) /\ Apart(u, v)
        /\ s[i].sum = SumOver(lengths, Range(u))
        /\ t[j].sum = SumOver(lengths, Range(v))
    BY DEF Sound, Disjoint
  <1>2. /\ u \in Seq(T) /\ v \in Seq(T) /\ s[i].sum \in Nat /\ t[j].sum \in Nat
    BY <1>1 DEF SetsOver
  <1>3. m = [sum |-> s[i].sum + t[j].sum, items |-> u \o v]
    BY DEF MergeSets
  <1> HIDE DEF u, v, T, m
  <1>4. /\ u \o v \in Seq(T)
        /\ Len(u \o v) = Len(u) + Len(v)
        /\ Single(u \o v)
        /\ \A x : In(x, u \o v) <=> In(x, u) \/ In(x, v)
        /\ Range(u \o v) = Range(u) \cup Range(v)
        /\ Range(u) \cap Range(v) = {}
    BY <1>1, <1>2, JoinIs
  <1>5. m.items = u \o v /\ m.sum = s[i].sum + t[j].sum
    BY <1>3
  <1>6. m \in SetsOver(Len(lengths))
    BY <1>2, <1>3, <1>4 DEF SetsOver, T
  <1>7. m.sum = SumOver(lengths, Range(m.items))
    <2>1. lengths \in Seq(Nat)
      OBVIOUS
    <2>2. SumOver(lengths, Range(u) \cup Range(v))
            = SumOver(lengths, Range(u)) + SumOver(lengths, Range(v))
      BY <1>4, <2>1, SumOfUnion
    <2>3. SumOver(lengths, Range(m.items))
            = SumOver(lengths, Range(u) \cup Range(v))
      BY <1>4, <1>5
    <2> QED BY <1>1, <1>5, <2>2, <2>3
  <1> QED BY <1>4, <1>5, <1>6, <1>7 DEF u, v, m, Joined

(* Apart in terms of the items that are held.                               *)
LEMMA ApartIs ==
  ASSUME NEW u, NEW v
  PROVE  Apart(u, v) <=> \A x : ~(In(x, u) /\ In(x, v))
PROOF
  <1>1. ASSUME Apart(u, v), NEW x, In(x, u), In(x, v) PROVE FALSE
    BY <1>1 DEF Apart, In
  <1>2. ASSUME \A x : ~(In(x, u) /\ In(x, v)) PROVE Apart(u, v)
    <2> SUFFICES ASSUME NEW a \in 1 .. Len(u), NEW b \in 1 .. Len(v), u[a] = v[b]
                 PROVE  FALSE
      BY DEF Apart
    <2>1. In(u[a], u) /\ In(u[a], v)
      BY DEF In
    <2> QED BY <1>2, <2>1
  <1> QED BY <1>1, <1>2

(* State.merge keeps the sets as many and as even as they were.             *)
LEMMA MergedIsKept ==
  ASSUME NEW lengths \in Seq(Nat \ {0}), NEW k \in Nat, NEW even,
         NEW bounds \in SUBSET Int, NEW s, NEW t,
         Kept(s, k, lengths, even, bounds), Descending(s, k),
         Kept(t, k, lengths, even, bounds), Descending(t, k), Disjoint(s, t, k)
  PROVE  /\ Kept(MergeStates(s, t), k, lengths, even, bounds)
         /\ Descending(MergeStates(s, t), k)
         /\ \A x : Holds(MergeStates(s, t), k, x)
                     <=> Holds(s, k, x) \/ Holds(t, k, x)
PROOF
  <1> DEFINE r == [j \in 1 .. k |-> MergeSets(s[j], t[k + 1 - j])]
             n == Len(lengths)
  <1>1. Sound(s, k, lengths) /\ Sound(t, k, lengths) /\ Thin(s, k) /\ Thin(t, k)
    BY DEF Kept
  <1>2. /\ s \in [1 .. k -> SetsOver(n)] /\ t \in [1 .. k -> SetsOver(n)]
        /\ n \in Nat
    BY <1>1 DEF Sound
  <1>3. Len(t) = k /\ DOMAIN s = 1 .. k
    BY <1>2, FunctionIsSeq
  <1>4. MergeStates(s, t) = SortSets(r)
    BY <1>3 DEF MergeStates
  <1>15. ASSUME NEW j \in 1 .. k
        PROVE  k + 1 - j \in 1 .. k /\ Joined(r[j], s[j], t[k + 1 - j], lengths)
    <2>1. k + 1 - j \in 1 .. k
      OBVIOUS
    <2>2. r[j] = MergeSets(s[j], t[k + 1 - j])
      OBVIOUS
    <2> HIDE DEF r
    <2> QED BY <1>1, <2>1, <2>2, JoinedSets
  <1>5. ASSUME NEW j \in 1 .. k
        PROVE  /\ k + 1 - j \in 1 .. k
               /\ r[j] \in SetsOver(n)
               /\ r[j].sum = s[j].sum + t[k + 1 - j].sum
               /\ Len(r[j].items) = Len(s[j].items) + Len(t[k + 1 - j].items)
               /\ Single(r[j].items)
               /\ \A x : In(x, r[j].items)
                           <=> In(x, s[j].items) \/ In(x, t[k + 1 - j].items)
               /\ r[j].sum = SumOver(lengths, Range(r[j].items))
    <2> HIDE DEF r
    <2> QED BY <1>15 DEF Joined
  <1>6. r \in [1 .. k -> SetsOver(n)]
    BY <1>5
  <1> HIDE DEF r
  <1>7. ASSUME NEW j \in 1 .. k
        PROVE  /\ s[j].sum \in Nat /\ t[j].sum \in Nat
               /\ Len(s[j].items) \in Nat /\ Len(t[j].items) \in Nat
    BY <1>1, SumTellsEmpty
  <1>8. Sound(r, k, lengths)
    <2>1. ASSUME NEW i \in 1 .. k, NEW j \in 1 .. k, i # j
          PROVE  Apart(r[i].items, r[j].items)
      <3> SUFFICES ASSUME NEW x, In(x, r[i].items), In(x, r[j].items) PROVE FALSE
        BY ApartIs
      <3>1. /\ In(x, s[i].items) \/ In(x, t[k + 1 - i].items)
            /\ In(x, s[j].items) \/ In(x, t[k + 1 - j].items)
        BY <1>5
      <3>2. /\ Apart(s[i].items, s[j].items)
            /\ Apart(t[k + 1 - i].items, t[k + 1 - j].items)
            /\ Apart(s[i].items, t[k + 1 - j].items)
            /\ Apart(s[j].items, t[k + 1 - i].items)
        <4>1. k + 1 - i \in 1 .. k /\ k + 1 - j \in 1 .. k /\ k + 1 - i # k + 1 - j
          BY <2>1
        <4> QED BY <1>1, <2>1, <4>1 DEF Sound, Disjoint
      <3> QED BY <3>1, <3>2, ApartIs
    <2> QED BY <1>5, <1>6, <2>1 DEF Sound
  <1>9. Thin(r, k)
    <2> SUFFICES ASSUME NEW i \in 1 .. k, NEW j \in 1 .. k, Len(r[j].items) = 0
                 PROVE  Len(r[i].items) <= 1
      BY DEF Thin
    <2> DEFINE p == k + 1 - i
               q == k + 1 - j
    <2>1. /\ p \in 1 .. k /\ q \in 1 .. k
          /\ Len(r[i].items) = Len(s[i].items) + Len(t[p].items)
          /\ Len(r[j].items) = Len(s[j].items) + Len(t[q].items)
      BY <1>5
    <2>6. /\ j <= i => p <= q
          /\ i <= j => q <= p
      OBVIOUS
    <2> HIDE DEF p, q
    <2>2. Len(s[j].items) = 0 /\ Len(t[q].items) = 0
      <3> DEFINE a == Len(s[j].items)
                 b == Len(t[q].items)
      <3>1. a \in Nat /\ b \in Nat /\ a + b = 0
        BY <1>7, <2>1
      <3>2. a = 0 /\ b = 0
        <4> HIDE DEF a, b
        <4> QED BY <3>1
      <3> QED BY <3>2
    <2>3. Len(s[i].items) <= 1 /\ Len(t[p].items) <= 1
      BY <1>1, <2>1, <2>2 DEF Thin
    <2>4. CASE j <= i
      <3>1. Len(s[i].items) = 0
        BY <1>1, <2>2, <2>4, ItemsComeFirst
      <3> QED BY <1>7, <2>1, <2>3, <3>1
    <2>5. CASE i <= j
      <3>1. Len(t[p].items) = 0
        <4>1. q <= p
          BY <2>5, <2>6
        <4> QED BY <1>1, <2>1, <2>2, <4>1, ItemsComeFirst
      <3> QED BY <1>7, <2>1, <2>3, <3>1
    <2> QED BY <2>4, <2>5
  <1>10. ASSUME even PROVE Full(r, k)
    <2>1. Full(s, k) /\ Full(t, k)
      BY <1>10 DEF Kept
    <2>2. ASSUME NEW i \in 1 .. k, NEW j \in 1 .. k
          PROVE  Len(r[i].items) = Len(r[j].items)
      <3>1. /\ k + 1 - i \in 1 .. k /\ k + 1 - j \in 1 .. k
            /\ Len(r[i].items) = Len(s[i].items) + Len(t[k + 1 - i].items)
            /\ Len(r[j].items) = Len(s[j].items) + Len(t[k + 1 - j].items)
        BY <1>5
      <3>2. /\ Len(s[i].items) = Len(s[j].items)
            /\ Len(t[k + 1 - i].items) = Len(t[k + 1 - j].items)
        BY <2>1, <3>1 DEF Full
      <3> QED BY <3>1, <3>2
    <2> QED BY <2>2 DEF Full
  <1>16. Close(r, k, bounds)
    <2>2. PICK c \in bounds : Within(s, k, c)
      BY DEF Kept, Close
    <2>3. PICK d \in bounds : Within(t, k, d)
      BY DEF Kept, Close
    <2>4. ASSUME NEW i \in 1 .. k, NEW j \in 1 .. k
          PROVE  r[i].sum - r[j].sum <= c \/ r[i].sum - r[j].sum <= d
      <3> DEFINE p == k + 1 - i
                 q == k + 1 - j
      <3>1. p \in 1 .. k /\ q \in 1 .. k /\ (i <= j => q <= p)
        OBVIOUS
      <3>2. r[i].sum = s[i].sum + t[p].sum /\ r[j].sum = s[j].sum + t[q].sum
        BY <1>5
      <3> HIDE DEF p, q
      <3> DEFINE a == s[i].sum
                 b == s[j].sum
                 e == t[p].sum
                 f == t[q].sum
      <3>3. a \in Nat /\ b \in Nat /\ e \in Nat /\ f \in Nat
            /\ c \in Int /\ d \in Int
        BY <1>7, <3>1
      <3>4. a - b <= c /\ e - f <= d
        BY <2>2, <2>3, <3>1 DEF Within
      <3>5. i <= j => e <= f
        BY <1>7, <3>1 DEF Descending
      <3>6. j <= i => a <= b
        BY <1>7 DEF Descending
      <3>7. (a + e) - (b + f) <= c \/ (a + e) - (b + f) <= d
        <4> HIDE DEF a, b, e, f
        <4>1. i <= j \/ j <= i
          OBVIOUS
        <4>2. e <= f \/ a <= b
          BY <3>5, <3>6, <4>1
        <4>3. CASE e <= f
          BY <3>3, <3>4, <4>3
        <4>4. CASE a <= b
          BY <3>3, <3>4, <4>4
        <4> QED BY <4>2, <4>3, <4>4
      <3> QED BY <3>2, <3>7
    <2>5. ASSUME NEW i \in 1 .. k, NEW j \in 1 .. k
          PROVE  r[i].sum - r[j].sum \in Int
      BY <1>6 DEF SetsOver
    <2>6. CASE c <= d
      <3>1. Within(r, k, d)
        BY <2>4, <2>5, <2>6 DEF Within
      <3> QED BY <3>1 DEF Close
    <2>7. CASE d <= c
      <3>1. Within(r, k, c)
        BY <2>4, <2>5, <2>7 DEF Within
      <3> QED BY <3>1 DEF Close
    <2> QED BY <2>6, <2>7
  <1>11. Kept(r, k, lengths, even, bounds)
    BY <1>8, <1>9, <1>10, <1>16 DEF Kept
  <1>12. Rearranges(SortSets(r), r, k) /\ Descending(SortSets(r), k)
    BY <1>2, <1>6, SortRearranges
  <1>13. Kept(SortSets(r), k, lengths, even, bounds)
    BY <1>11, <1>12, RearrangedIsKept
  <1>14. ASSUME NEW x
         PROVE  Holds(SortSets(r), k, x) <=> Holds(s, k, x) \/ Holds(t, k, x)
    <2>1. Holds(SortSets(r), k, x) <=> Holds(r, k, x)
      BY <1>12, RearrangedHolds
    <2>2. ASSUME Holds(r, k, x) PROVE Holds(s, k, x) \/ Holds(t, k, x)
      BY <1>5, <2>2 DEF Holds
    <2>3. ASSUME Holds(s, k, x) PROVE Holds(r, k, x)
      BY <1>5, <2>3 DEF Holds
    <2>4. ASSUME Holds(t, k, x) PROVE Holds(r, k, x)
      <3>1. PICK j \in 1 .. k : In(x, t[j].items)
        BY <2>4 DEF Holds
      <3>2. k + 1 - j \in 1 .. k /\ k + 1 - (k + 1 - j) = j
        OBVIOUS
      <3>3. In(x, r[k + 1 - j].items)
        BY <1>5, <3>1, <3>2
      <3> QED BY <3>2, <3>3 DEF Holds
    <2> QED BY <2>1, <2>2, <2>3, <2>4
  <1> QED BY <1>4, <1>12, <1>13, <1>14

-----------------------------------------------------------------------------
(* The heap: states of which no two share an item.                          *)
LEMMA DisjointIs ==
  ASSUME NEW s, NEW t, NEW k
  PROVE  Disjoint(s, t, k) <=> \A x : ~(Holds(s, k, x) /\ Holds(t, k, x))
PROOF
  <1>1. ASSUME Disjoint(s, t, k), NEW x, Holds(s, k, x), Holds(t, k, x) PROVE FALSE
    BY <1>1, ApartIs DEF Disjoint, Holds
  <1>2. ASSUME \A x : ~(Holds(s, k, x) /\ Holds(t, k, x)) PROVE Disjoint(s, t, k)
    <2> SUFFICES ASSUME NEW i \in 1 .. k, NEW j \in 1 .. k
                 PROVE  Apart(s[i].items, t[j].items)
      BY DEF Disjoint
    <2> SUFFICES ASSUME NEW x, In(x, s[i].items), In(x, t[j].items) PROVE FALSE
      BY ApartIs
    <2> QED BY <1>2 DEF Holds
  <1> QED BY <1>1, <1>2

(* A state of the heap: as kept, sorted and not of empty sets only.         *)
IsState(s, k, lengths, even, bounds) ==
    /\ Kept(s, k, lengths, even, bounds)
    /\ Descending(s, k)
    /\ Len(s[1].items) > 0

(* The first set of a state that holds an item has one.                     *)
LEMMA FirstHasItems ==
  ASSUME NEW lengths \in Seq(Nat \ {0}), NEW k \in Nat \ {0}, NEW s,
         Sound(s, k, lengths), Descending(s, k), NEW x, Holds(s, k, x)
  PROVE  Len(s[1].items) > 0
PROOF
  <1>1. PICK j \in 1 .. k : In(x, s[j].items)
    BY DEF Holds
  <1>2. 1 \in 1 .. k /\ 1 <= j
    OBVIOUS
  <1>3. Len(s[j].items) # 0
    <2>1. PICK a \in 1 .. Len(s[j].items) : s[j].items[a] = x
      BY <1>1 DEF In
    <2> QED BY <2>1
  <1>4. Len(s[1].items) # 0
    BY <1>2, <1>3, ItemsComeFirst
  <1>5. Len(s[1].items) \in Nat
    BY <1>2, SumTellsEmpty
  <1> QED BY <1>4, <1>5

(* That item is one the state holds.                                        *)
LEMMA FirstIsHeld ==
  ASSUME NEW k \in Nat \ {0}, NEW s, Len(s[1].items) \in Nat, Len(s[1].items) > 0
  PROVE  Holds(s, k, s[1].items[1])
PROOF
  <1>1. 1 \in 1 .. k /\ 1 \in 1 .. Len(s[1].items)
    OBVIOUS
  <1> QED BY <1>1 DEF Holds, In

(* A heap of states that share no item; it holds every position.            *)
Separate(h, k, lengths, even, bounds) ==
    /\ IsFiniteSet(h)
    /\ \A s \in h : IsState(s, k, lengths, even, bounds)
    /\ \A s, t \in h : s # t => Disjoint(s, t, k)

(* heappop always finds a state to pop.                                     *)
LEMMA PoppedIsMember ==
  ASSUME NEW lengths \in Seq(Nat \ {0}), NEW k \in Nat \ {0}, NEW even, NEW bounds,
         NEW h, Separate(h, k, lengths, even, bounds), h # {}
  PROVE  Popped(h) \in h
PROOF
  <1> DEFINE n == Len(lengths)
             order == {p \in h \X h : PopsBefore(p[1], p[2])}
             A(s, t) == LargerSet(s[1], t[1])
  <1>1. ASSUME NEW s \in h
        PROVE  /\ s \in [1 .. k -> SetsOver(n)] /\ s[1] \in SetsOver(n)
               /\ Spread(s) \in Int
               /\ Len(s[1].items) \in Nat /\ Len(s[1].items) > 0
    <2>1. Sound(s, k, lengths) /\ Len(s[1].items) > 0
      BY DEF Separate, IsState, Kept
    <2>2. s \in [1 .. k -> SetsOver(n)] /\ Len(s) = k /\ 1 \in 1 .. k /\ k \in 1 .. k
      BY <2>1, FunctionIsSeq DEF Sound
    <2>3. s[1].sum \in Nat /\ s[k].sum \in Nat /\ Len(s[1].items) \in Nat
      BY <2>1, <2>2, SumTellsEmpty
    <2> QED BY <2>1, <2>2, <2>3 DEF Spread
  <1> DEFINE f == [s \in h |-> s[1].sum]
             g == [s \in h |-> Len(s[1].items)]
             e == [s \in h |-> First(s[1])]
  <1>2. ASSUME NEW s \in h
        PROVE  f[s] \in Nat /\ g[s] \in Nat /\ e[s] \in Nat
    <2>1. n \in Nat /\ s[1] \in SetsOver(n)
      BY <1>1
    <2> HIDE DEF First
    <2> QED BY <2>1, LargerSetIs
  <1>3. ASSUME NEW s \in h, NEW t \in h
        PROVE  A(s, t) <=> Precedes(f, g, e, s, t)
    <2>1. n \in Nat /\ s[1] \in SetsOver(n) /\ t[1] \in SetsOver(n)
      BY <1>1
    <2>2. /\ f[s] = s[1].sum /\ f[t] = t[1].sum
          /\ g[s] = Len(s[1].items) /\ g[t] = Len(t[1].items)
          /\ e[s] = First(s[1]) /\ e[t] = First(t[1])
      OBVIOUS
    <2> HIDE DEF f, g, e, n
    <2>3. LargerSet(s[1], t[1])
              <=> Above(s[1].sum, Len(s[1].items), First(s[1]),
                        t[1].sum, Len(t[1].items), First(t[1]))
      BY <2>1, LargerSetIs DEF Above
    <2> QED BY ONLY <2>2, <2>3 DEF Precedes
  <1>4. ASSUME NEW s \in h, NEW t \in h, A(s, t) PROVE ~A(t, s)
    <2> HIDE DEF A, f, g, e
    <2>1. Precedes(f, g, e, s, t)
      BY <1>3, <1>4
    <2>2. ~Precedes(f, g, e, t, s)
      BY <1>2, <2>1, AboveIsOneWay DEF Precedes
    <2> QED BY <1>3, <2>2
  <1>5. ASSUME NEW s \in h, NEW t \in h, s # t PROVE A(s, t) \/ A(t, s)
    <2>1. First(s[1]) # First(t[1])
      <3>1. Disjoint(s, t, k)
        BY <1>5 DEF Separate
      <3>2. Holds(s, k, s[1].items[1]) /\ Holds(t, k, t[1].items[1])
        BY <1>1, FirstIsHeld
      <3>3. s[1].items[1] # t[1].items[1]
        BY <3>1, <3>2, DisjointIs
      <3>4. First(s[1]) = s[1].items[1] /\ First(t[1]) = t[1].items[1]
        BY <1>1 DEF First
      <3> QED BY <3>3, <3>4
    <2>2. e[s] # e[t]
      BY <2>1
    <2> HIDE DEF A, f, g, e
    <2>3. Precedes(f, g, e, s, t) \/ Precedes(f, g, e, t, s)
      <3>1. /\ f[s] \in Nat /\ g[s] \in Nat /\ e[s] \in Nat
            /\ f[t] \in Nat /\ g[t] \in Nat /\ e[t] \in Nat
        BY <1>2
      <3>2. \/ Precedes(f, g, e, s, t) \/ Precedes(f, g, e, t, s)
            \/ f[s] = f[t] /\ g[s] = g[t] /\ e[s] = e[t]
        BY <3>1, AboveIsTotal DEF Precedes
      <3> QED BY <2>2, <3>2
    <2> QED BY <1>3, <2>3
  <1>6. ASSUME NEW s \in h, NEW t \in h, NEW u \in h, A(s, t), A(t, u) PROVE A(s, u)
    <2> HIDE DEF A, f, g, e
    <2>1. Precedes(f, g, e, s, t) /\ Precedes(f, g, e, t, u)
      BY <1>3, <1>6
    <2>2. Precedes(f, g, e, s, u)
      BY <1>2, <2>1, AboveIsTransitive DEF Precedes
    <2> QED BY <1>3, <2>2
  <1>7. ASSUME NEW s \in h, NEW t \in h
        PROVE  /\ <<s, t>> \in order <=> PopsBefore(s, t)
               /\ PopsBefore(s, t) <=> \/ Spread(s) > Spread(t)
                                       \/ Spread(s) = Spread(t) /\ A(s, t)
    BY DEF PopsBefore
  <1> HIDE DEF A, order
  <1>8. StrictOrder(h, order)
    <2>1. \A s \in h : <<s, s>> \notin order
      BY <1>1, <1>4, <1>7
    <2>2. ASSUME NEW s \in h, NEW t \in h, s # t
          PROVE  <<s, t>> \in order \/ <<t, s>> \in order
      <3>1. Spread(s) > Spread(t) \/ Spread(s) = Spread(t) \/ Spread(t) > Spread(s)
        BY <1>1
      <3>2. PopsBefore(s, t) \/ PopsBefore(t, s)
        BY <1>5, <1>7, <2>2, <3>1
      <3> QED BY <1>7, <3>2
    <2>3. ASSUME NEW s \in h, NEW t \in h, NEW u \in h,
                 <<s, t>> \in order, <<t, u>> \in order
          PROVE  <<s, u>> \in order
      <3>1. PopsBefore(s, t) /\ PopsBefore(t, u)
        BY <1>7, <2>3
      <3>2. Spread(s) \in Int /\ Spread(t) \in Int /\ Spread(u) \in Int
        BY <1>1
      <3>3. CASE Spread(s) > Spread(t) \/ Spread(t) > Spread(u)
        <4>1. Spread(s) >= Spread(t) /\ Spread(t) >= Spread(u)
          <5>1. Spread(s) > Spread(t) \/ Spread(s) = Spread(t)
            BY <1>7, <3>1
          <5>2. Spread(t) > Spread(u) \/ Spread(t) = Spread(u)
            BY <1>7, <3>1
          <5> QED BY <3>2, <5>1, <5>2
        <4>2. Spread(s) > Spread(u)
          BY <3>2, <3>3, <4>1
        <4> QED BY <1>7, <4>2
      <3>4. CASE ~(Spread(s) > Spread(t) \/ Spread(t) > Spread(u))
        <4>1. Spread(s) = Spread(t) /\ Spread(t) = Spread(u) /\ A(s, t) /\ A(t, u)
          BY <1>7, <3>1, <3>4
        <4>2. Spread(s) = Spread(u) /\ A(s, u)
          BY <1>6, <4>1
        <4> QED BY <1>7, <4>2
      <3> QED BY <3>3, <3>4
    <2> QED BY <2>1, <2>2, <2>3 DEF StrictOrder
  <1> DEFINE c == Cardinality(h)
             o == InOrder(h, order)
  <1>9. /\ c \in Nat /\ o \in [1 .. c -> h]
        /\ \A i, j \in 1 .. c : i < j => <<o[i], o[j]>> \in order
        /\ \A x \in h : \E i \in 1 .. c : o[i] = x
    <2>1. IsFiniteSet(h)
      BY DEF Separate
    <2> QED BY <1>8, <2>1, InOrderIsOrdered
  <1> HIDE DEF c, o
  <1>10. 1 \in 1 .. c
    BY <1>9
  <1>11. ASSUME NEW t \in h \ {o[1]} PROVE PopsBefore(o[1], t)
    <2>1. PICK i \in 1 .. c : o[i] = t
      BY <1>9
    <2>2. 1 < i
      BY <1>10, <1>11, <2>1
    <2>3. <<o[1], t>> \in order /\ o[1] \in h
      BY <1>9, <1>10, <2>1, <2>2
    <2> QED BY <1>7, <2>3
  <1>12. o[1] \in h
    BY <1>9, <1>10
  <1>13. \E s \in h : \A t \in h \ {s} : PopsBefore(s, t)
    BY <1>11, <1>12
  <1> QED BY <1>13, Zenon DEF Popped

IsHeap(h, k, lengths, even, bounds) ==
    /\ Separate(h, k, lengths, even, bounds)
    /\ \A x \in 1 .. Len(lengths) : \E s \in h : Holds(s, k, x)

(* One turn of the loop leaves a heap, with one state fewer.                *)
LEMMA MergeTwoKeeps ==
  ASSUME NEW lengths \in Seq(Nat \ {0}), NEW k \in Nat \ {0}, NEW even,
         NEW bounds \in SUBSET Int,
         NEW h, IsHeap(h, k, lengths, even, bounds), Cardinality(h) > 1
  PROVE  /\ IsHeap(MergeTwo(h), k, lengths, even, bounds)
         /\ Cardinality(MergeTwo(h)) = Cardinality(h) - 1
PROOF
  <1> DEFINE a == Popped(h)
             others == h \ {a}
             b == Popped(others)
             rest == h \ {a, b}
             m == MergeStates(a, b)
  <1>1. Separate(h, k, lengths, even, bounds) /\ IsFiniteSet(h) /\ Cardinality(h) \in Nat
    BY FS_CardinalityType DEF IsHeap, Separate
  <1>2. a \in h
    <2>1. h # {}
      BY <1>1, FS_EmptySet
    <2> QED BY <1>1, <2>1, PoppedIsMember
  <1> HIDE DEF a
  <1>3. IsFiniteSet(others) /\ Cardinality(others) = Cardinality(h) - 1
    BY <1>1, <1>2, FS_RemoveElement
  <1>4. b \in others
    <2>1. Separate(others, k, lengths, even, bounds)
      BY <1>1, <1>3 DEF Separate
    <2>2. others # {}
      BY <1>1, <1>3, FS_EmptySet
    <2> HIDE DEF others
    <2> QED BY <2>1, <2>2, PoppedIsMember
  <1> HIDE DEF b
  <1>5. IsFiniteSet(rest) /\ Cardinality(rest) = Cardinality(h) - 2
    <2>1. rest = others \ {b}
      OBVIOUS
    <2>2. IsFiniteSet(others \ {b}) /\ Cardinality(others \ {b}) = Cardinality(others) - 1
      <3> HIDE DEF others
      <3> QED BY <1>3, <1>4, FS_RemoveElement
    <2>3. Cardinality(rest) = Cardinality(others) - 1 /\ IsFiniteSet(rest)
      BY <2>1, <2>2
    <2> HIDE DEF rest, others
    <2> QED BY <1>1, <1>3, <2>3
  <1>6. /\ a \in h /\ b \in h /\ a # b /\ Disjoint(a, b, k)
        /\ IsState(a, k, lengths, even, bounds) /\ IsState(b, k, lengths, even, bounds)
    BY <1>1, <1>2, <1>4 DEF Separate
  <1>7. /\ Kept(m, k, lengths, even, bounds)
        /\ Descending(m, k)
        /\ \A x : Holds(m, k, x) <=> Holds(a, k, x) \/ Holds(b, k, x)
    BY <1>6, MergedIsKept DEF IsState
  <1> HIDE DEF m
  <1>8. PICK x0 : Holds(a, k, x0)
    <2>1. Len(a[1].items) > 0 /\ Len(a[1].items) \in Nat
      <3>1. Sound(a, k, lengths) /\ 1 \in 1 .. k
        BY <1>6 DEF IsState, Kept
      <3> QED BY <1>6, <3>1, SumTellsEmpty DEF IsState
    <2> QED BY <2>1, FirstIsHeld
  <1>9. IsState(m, k, lengths, even, bounds)
    <2>1. Sound(m, k, lengths) /\ Holds(m, k, x0)
      BY <1>7, <1>8 DEF Kept
    <2>2. Len(m[1].items) > 0
      BY <1>7, <2>1, FirstHasItems
    <2> QED BY <1>7, <2>2 DEF IsState
  <1>10. ASSUME NEW t \in rest PROVE Disjoint(m, t, k) /\ Disjoint(t, m, k) /\ t # m
    <2>1. Disjoint(t, a, k) /\ Disjoint(t, b, k)
      BY <1>1, <1>6, <1>10 DEF Separate
    <2>2. \A x : ~(Holds(m, k, x) /\ Holds(t, k, x))
      BY <1>7, <2>1, DisjointIs
    <2>3. Disjoint(m, t, k) /\ Disjoint(t, m, k)
      BY <2>2, DisjointIs
    <2>4. Holds(m, k, x0)
      BY <1>7, <1>8
    <2> QED BY <2>2, <2>3, <2>4
  <1>11. MergeTwo(h) = rest \cup {m}
    BY DEF MergeTwo, a, b, m
  <1>12. IsFiniteSet(rest \cup {m}) /\ Cardinality(rest \cup {m}) = Cardinality(h) - 1
    <2>1. m \notin rest
      BY <1>10
    <2> HIDE DEF rest
    <2>2. IsFiniteSet(rest \cup {m}) /\ Cardinality(rest \cup {m}) = Cardinality(rest) + 1
      BY <1>5, <2>1, FS_AddElement
    <2> QED BY <1>1, <1>5, <2>2
  <1>13. Separate(rest \cup {m}, k, lengths, even, bounds)
    <2>1. \A s \in rest : IsState(s, k, lengths, even, bounds)
      BY <1>1 DEF Separate
    <2>2. \A s, t \in rest : s # t => Disjoint(s, t, k)
      BY <1>1 DEF Separate
    <2> HIDE DEF rest
    <2> QED BY <1>9, <1>10, <1>12, <2>1, <2>2 DEF Separate
  <1>14. ASSUME NEW x \in 1 .. Len(lengths) PROVE \E s \in rest \cup {m} : Holds(s, k, x)
    <2>1. PICK s \in h : Holds(s, k, x)
      BY DEF IsHeap
    <2>2. CASE s \in rest
      BY <2>1, <2>2
    <2>3. CASE s \in {a, b}
      <3>1. Holds(m, k, x)
        BY <1>7, <2>1, <2>3
      <3> QED BY <3>1
    <2> QED BY <2>2, <2>3
  <1> QED BY <1>11, <1>12, <1>13, <1>14 DEF IsHeap

-----------------------------------------------------------------------------
(* The loop ends with one state that holds every item.                      *)
LEMMA MergeAllIsState ==
  ASSUME NEW lengths \in Seq(Nat \ {0}), NEW k \in Nat \ {0}, NEW even,
         NEW bounds \in SUBSET Int,
         NEW initial, IsHeap(initial, k, lengths, even, bounds), initial # {}
  PROVE  /\ IsState(MergeAll(initial), k, lengths, even, bounds)
         /\ \A x \in 1 .. Len(lengths) : Holds(MergeAll(initial), k, x)
PROOF
  <1> DEFINE n == Cardinality(initial) - 1
             Ok(h) == IsHeap(h, k, lengths, even, bounds)
             H == {h \in SUBSET [1 .. k -> SetsOver(Len(lengths))] : Ok(h)}
             step == [p \in H \X (1 .. n) |->
                         IF Cardinality(p[1]) > 1 THEN MergeTwo(p[1]) ELSE p[1]]
             Eq(g) == g = [i \in 0 .. n |->
                              IF i = 0 THEN initial ELSE MergeTwo(g[i - 1])]
  <1>1. n \in Nat /\ Cardinality(initial) = n + 1
    <2>1. IsFiniteSet(initial)
      BY DEF IsHeap, Separate
    <2>2. Cardinality(initial) \in Nat /\ Cardinality(initial) # 0
      BY <2>1, FS_CardinalityType, FS_EmptySet
    <2> QED BY <2>2
  <1>2. ASSUME NEW h, Ok(h) PROVE h \in H
    <2> SUFFICES ASSUME NEW s \in h PROVE s \in [1 .. k -> SetsOver(Len(lengths))]
      BY <1>2
    <2> QED BY <1>2 DEF IsHeap, Separate, IsState, Kept, Sound
  <1>3. initial \in H
    BY <1>2
  <1>4. ASSUME NEW h \in H, Cardinality(h) > 1
        PROVE  MergeTwo(h) \in H /\ Cardinality(MergeTwo(h)) = Cardinality(h) - 1
    <2>1. Ok(MergeTwo(h)) /\ Cardinality(MergeTwo(h)) = Cardinality(h) - 1
      BY <1>4, MergeTwoKeeps
    <2> HIDE DEF H
    <2> QED BY <1>2, <2>1
  <1>5. step \in [H \X (1 .. n) -> H]
    <2> SUFFICES ASSUME NEW p \in H \X (1 .. n)
                 PROVE  (IF Cardinality(p[1]) > 1 THEN MergeTwo(p[1]) ELSE p[1]) \in H
      OBVIOUS
    <2>1. p[1] \in H
      <3> HIDE DEF H
      <3> QED OBVIOUS
    <2> HIDE DEF H
    <2> QED BY <1>4, <2>1
  <1>6. \E f : Iterates(f, H, initial, n, step)
    <2> HIDE DEF H, n, step
    <2> QED BY <1>1, <1>3, <1>5, IterationExists
  <1>7. PICK f : Iterates(f, H, initial, n, step)
    BY <1>6
  <1> HIDE DEF H
  <1>8. f \in [0 .. n -> H] /\ f[0] = initial
        /\ \A i \in 1 .. n : f[i] = step[<<f[i - 1], i>>]
    <2> HIDE DEF n, step
    <2> QED BY <1>7 DEF Iterates
  <1>9. ASSUME NEW i \in 1 .. n
        PROVE  /\ f[i - 1] \in H
               /\ f[i] = IF Cardinality(f[i - 1]) > 1 THEN MergeTwo(f[i - 1])
                         ELSE f[i - 1]
    <2>1. f[i - 1] \in H
      <3>1. i - 1 \in 0 .. n
        BY <1>1
      <3> HIDE DEF n, step
      <3> QED BY <1>8, <3>1
    <2>2. <<f[i - 1], i>> \in H \X (1 .. n)
      <3> HIDE DEF n
      <3> QED BY <2>1
    <2> QED BY <1>8, <2>1, <2>2
  <1> HIDE DEF step
  <1> DEFINE Good == {i \in 0 .. n : Cardinality(f[i]) = n + 1 - i}
  <1>10. Good = 0 .. n
    <2>1. Good \in SUBSET (0 .. n)
      OBVIOUS
    <2>2. 0 \in Good
      BY <1>1, <1>8
    <2>3. ASSUME NEW i \in 1 .. n, i - 1 \in Good PROVE i \in Good
      <3>1. Cardinality(f[i - 1]) = n + 1 - (i - 1)
        BY <2>3
      <3> HIDE DEF n
      <3>2. Cardinality(f[i - 1]) > 1
        BY <1>1, <3>1
      <3>3. Cardinality(f[i]) = Cardinality(f[i - 1]) - 1
        BY <1>4, <1>9, <3>2
      <3>4. Cardinality(f[i]) = n + 1 - i
        BY <1>1, <3>1, <3>3
      <3> QED BY <1>1, <3>4
    <2> HIDE DEF Good, n
    <2> QED BY <1>1, <2>1, <2>2, <2>3, UpTo
  <1>11. ASSUME NEW i \in 0 .. n PROVE Cardinality(f[i]) = n + 1 - i
    <2>1. i \in Good
      <3> HIDE DEF Good, n
      <3> QED BY <1>10, <1>11
    <2> QED BY <2>1
  <1> HIDE DEF Good, n
  <1>12. ASSUME NEW i \in 1 .. n PROVE f[i] = MergeTwo(f[i - 1])
    <2>1. i - 1 \in 0 .. n /\ n + 1 - (i - 1) > 1
      BY <1>1
    <2>2. Cardinality(f[i - 1]) > 1
      BY <1>11, <2>1
    <2> QED BY <1>9, <2>2
  <1>13. Eq(f)
    <2> DEFINE g == [i \in 0 .. n |-> IF i = 0 THEN initial ELSE MergeTwo(f[i - 1])]
    <2>1. ASSUME NEW i \in 0 .. n PROVE f[i] = g[i]
      <3>1. CASE i = 0
        BY <1>8, <3>1
      <3>2. CASE i # 0
        <4>1. i \in 1 .. n
          BY <1>1, <3>2
        <4> QED BY <1>12, <3>2, <4>1
      <3> QED BY <3>1, <3>2
    <2>2. f = [i \in 0 .. n |-> f[i]] /\ g = [i \in 0 .. n |-> g[i]]
      BY <1>8
    <2>3. f = g
      <3> HIDE DEF g
      <3> QED BY <2>1, <2>2
    <2> QED BY <2>3
  <1> DEFINE e == CHOOSE g : Eq(g)
  <1>14. Eq(e)
    <2> HIDE DEF Eq
    <2> QED BY <1>13
  <1>15. MergeAll(initial) = Popped(e[n])
    BY DEF MergeAll, n
  <1> HIDE DEF e
  <1>16. e = [i \in 0 .. n |-> IF i = 0 THEN initial ELSE MergeTwo(e[i - 1])]
    BY <1>14
  <1> DEFINE Same == {i \in 0 .. n : e[i] = f[i]}
  <1>17. Same = 0 .. n
    <2>1. Same \in SUBSET (0 .. n)
      OBVIOUS
    <2>2. 0 \in Same
      BY <1>1, <1>8, <1>16
    <2>3. ASSUME NEW i \in 1 .. n, i - 1 \in Same PROVE i \in Same
      <3>1. i \in 0 .. n /\ i # 0 /\ e[i - 1] = f[i - 1]
        BY <1>1, <2>3
      <3>2. e[i] = MergeTwo(e[i - 1])
        BY <1>16, <3>1
      <3> QED BY <1>12, <3>1, <3>2
    <2> HIDE DEF Same
    <2> QED BY <1>1, <2>1, <2>2, <2>3, UpTo
  <1>18. e[n] = f[n] /\ n \in 0 .. n
    <2>1. n \in Same
      <3> HIDE DEF Same
      <3> QED BY <1>1, <1>17
    <2> QED BY <2>1
  <1> HIDE DEF Same
  <1> DEFINE last == f[n]
             p == Popped(last)
  <1>19. Ok(last) /\ Cardinality(last) = 1
    <2>1. f[n] \in H
      BY <1>8, <1>18
    <2>2. Cardinality(f[n]) = n + 1 - n
      BY <1>11, <1>18
    <2> QED BY <1>1, <2>1, <2>2 DEF H
  <1> HIDE DEF last
  <1>20. p \in last /\ last = {p}
    <2>1. IsFiniteSet(last) /\ Separate(last, k, lengths, even, bounds)
      BY <1>19 DEF IsHeap, Separate
    <2>2. last # {}
      <3>1. Cardinality({}) = 0
        BY FS_EmptySet
      <3>2. Cardinality(last) # 0
        BY <1>19
      <3> QED BY <3>1, <3>2, Zenon
    <2>3. p \in last
      BY <2>1, <2>2, PoppedIsMember
    <2> HIDE DEF p
    <2>4. IsFiniteSet(last \ {p}) /\ Cardinality(last \ {p}) = 0
      BY <1>19, <2>1, <2>3, FS_RemoveElement
    <2>5. last \ {p} = {}
      BY <2>4, FS_EmptySet
    <2> QED BY <2>3, <2>5
  <1>21. MergeAll(initial) = p
    BY <1>15, <1>18 DEF last
  <1> HIDE DEF p
  <1> QED BY <1>19, <1>20, <1>21 DEF IsHeap, Separate

-----------------------------------------------------------------------------
(* The first states.                                                        *)
Sorts(place, lengths) ==
    /\ Permutes(place, Len(lengths))
    /\ \A i, j \in 1 .. Len(lengths) :
           i <= j => lengths[place[i]] <= lengths[place[j]]

(* sorted_seqlen_list has every position once, by length.                   *)
LEMMA ByLengthSorts ==
  ASSUME NEW lengths \in Seq(Nat)
  PROVE  Sorts(ByLength(lengths), lengths)
PROOF
  <1> DEFINE n == Len(lengths)
             order == {p \in PositionPairs(lengths) :
                          \/ lengths[p[1]] < lengths[p[2]]
                          \/ lengths[p[1]] = lengths[p[2]] /\ p[1] < p[2]}
             place == ByLength(lengths)
  <1>1. n \in Nat /\ DOMAIN lengths = 1 .. n /\ \A i \in 1 .. n : lengths[i] \in Nat
    OBVIOUS
  <1>2. ASSUME NEW i \in 1 .. n, NEW j \in 1 .. n
        PROVE  <<i, j>> \in order <=> \/ lengths[i] < lengths[j]
                                      \/ lengths[i] = lengths[j] /\ i < j
    BY <1>1 DEF PositionPairs
  <1>3. place = InOrder(1 .. n, order)
    BY <1>1 DEF ByLength
  <1> HIDE DEF order, n, place
  <1>4. StrictOrder(1 .. n, order)
    <2>1. \A x \in 1 .. n : <<x, x>> \notin order
      BY <1>1, <1>2
    <2>2. ASSUME NEW x \in 1 .. n, NEW y \in 1 .. n, x # y
          PROVE  <<x, y>> \in order \/ <<y, x>> \in order
      <3>1. lengths[x] \in Nat /\ lengths[y] \in Nat
        BY <1>1
      <3> QED BY <1>1, <1>2, <2>2, <3>1
    <2>3. ASSUME NEW x \in 1 .. n, NEW y \in 1 .. n, NEW z \in 1 .. n,
                 <<x, y>> \in order, <<y, z>> \in order
          PROVE  <<x, z>> \in order
      <3>1. lengths[x] \in Nat /\ lengths[y] \in Nat /\ lengths[z] \in Nat
        BY <1>1
      <3>2. \/ lengths[x] < lengths[y]
            \/ lengths[x] = lengths[y] /\ x < y
        BY <1>2, <2>3
      <3>3. \/ lengths[y] < lengths[z]
            \/ lengths[y] = lengths[z] /\ y < z
        BY <1>2, <2>3
      <3>4. \/ lengths[x] < lengths[z]
            \/ lengths[x] = lengths[z] /\ x < z
        BY <1>1, <3>1, <3>2, <3>3
      <3> QED BY <1>2, <3>4
    <2> QED BY <2>1, <2>2, <2>3 DEF StrictOrder
  <1>5. PutsInOrder(place, n, order)
    BY <1>1, <1>3, <1>4, OrderOfPositions
  <1>6. ASSUME NEW i \in 1 .. n, NEW j \in 1 .. n, i <= j
        PROVE  lengths[place[i]] <= lengths[place[j]]
    <2>1. place[i] \in 1 .. n /\ place[j] \in 1 .. n
      BY <1>5 DEF PutsInOrder, Permutes
    <2>2. lengths[place[i]] \in Nat /\ lengths[place[j]] \in Nat
      BY <1>1, <2>1
    <2>3. CASE i = j
      BY <2>2, <2>3
    <2>4. CASE i < j
      <3>1. <<place[i], place[j]>> \in order
        BY <1>5, <2>4 DEF PutsInOrder
      <3>2. \/ lengths[place[i]] < lengths[place[j]]
            \/ lengths[place[i]] = lengths[place[j]]
        BY <1>2, <2>1, <3>1
      <3> QED BY <2>2, <3>2
    <2>5. i = j \/ i < j
      BY <1>1, <1>6
    <2> QED BY <2>3, <2>4, <2>5
  <1> QED BY <1>5, <1>6 DEF Sorts, PutsInOrder, n, place

(* How far apart the lengths of the items are, and of no item if they are   *)
(* fewer than k.                                                            *)
Spans(items, lengths, k, d) ==
    /\ \A a, b \in 1 .. Len(items) : lengths[items[a]] - lengths[items[b]] <= d
    /\ Len(items) < k => \A a \in 1 .. Len(items) : lengths[items[a]] <= d

(* State.__init__ gives one position to each of the first sets.             *)
LEMMA StateOfIs ==
  ASSUME NEW lengths \in Seq(Nat \ {0}), NEW k \in Nat \ {0}, NEW even,
         NEW bounds \in SUBSET Int,
         NEW items \in Seq(1 .. Len(lengths)), Single(items), Len(items) \in 1 .. k,
         even => Len(items) = k, \E d \in bounds : Spans(items, lengths, k, d)
  PROVE  /\ IsState(StateOf(items, k, lengths), k, lengths, even, bounds)
         /\ \A x : Holds(StateOf(items, k, lengths), k, x) <=> In(x, items)
PROOF
  <1> DEFINE n == Len(lengths)
             m == Len(items)
             r == [j \in 1 .. k |-> IF j <= m THEN SetOf(items[j], lengths)
                                    ELSE EmptySet]
  <1>1. /\ n \in Nat /\ m \in Nat /\ \A j \in 1 .. m : items[j] \in 1 .. n
        /\ \A p \in 1 .. n : lengths[p] \in Nat /\ lengths[p] > 0
        /\ lengths \in Seq(Nat)
    <2>1. n \in Nat /\ m \in Nat
      OBVIOUS
    <2>2. ASSUME NEW j \in 1 .. m PROVE items[j] \in 1 .. n
      <3> HIDE DEF r
      <3>1. j \in 1 .. Len(items)
        OBVIOUS
      <3>2. items[j] \in 1 .. Len(lengths)
        BY <3>1
      <3> QED BY ONLY <3>2 DEF n
    <2>3. ASSUME NEW p \in 1 .. n PROVE lengths[p] \in Nat /\ lengths[p] > 0
      <3> HIDE DEF r
      <3>1. lengths[p] \in Nat \ {0}
        OBVIOUS
      <3> QED BY ONLY <3>1
    <2>4. lengths \in Seq(Nat)
      <3> HIDE DEF n, m, r
      <3> QED OBVIOUS
    <2> QED BY <2>1, <2>2, <2>3, <2>4
  <1>2. ASSUME NEW j \in 1 .. k, j <= m
        PROVE  /\ j \in 1 .. m
               /\ r[j].sum = lengths[items[j]] /\ r[j].items = <<items[j]>>
               /\ r[j] \in SetsOver(n)
    <2>1. j \in 1 .. m /\ r[j] = SetOf(items[j], lengths) /\ items[j] \in 1 .. n
      BY <1>1, <1>2
    <2> DEFINE e == items[j]
    <2> HIDE DEF r, n, e
    <2>2. <<items[j]>> \in Seq(1 .. n) /\ lengths[items[j]] \in Nat
      <3>1. e \in 1 .. n /\ lengths[e] \in Nat
        BY <1>1, <2>1 DEF e
      <3>2. <<e>> \in Seq(1 .. n)
        BY <3>1
      <3> QED BY <3>1, <3>2 DEF e
    <2> HIDE DEF r
    <2> QED BY <2>1, <2>2 DEF SetOf, SetsOver
  <1>3. ASSUME NEW j \in 1 .. k, ~(j <= m)
        PROVE  r[j].sum = 0 /\ r[j].items = <<>> /\ r[j] \in SetsOver(n)
    <2>1. r[j] = EmptySet
      BY <1>3
    <2> HIDE DEF r
    <2> QED BY <2>1 DEF EmptySet, SetsOver
  <1>4. r \in [1 .. k -> SetsOver(n)]
    <2>1. \A j \in 1 .. k : r[j] \in SetsOver(n)
      BY <1>2, <1>3
    <2> QED BY <2>1
  <1>5. StateOf(items, k, lengths) = SortSets(r)
    BY DEF StateOf
  <1> HIDE DEF r, m, n
  <1>6. ASSUME NEW j \in 1 .. k
        PROVE  /\ j <= m => Len(r[j].items) = 1 /\ Range(r[j].items) = {items[j]}
               /\ ~(j <= m) => Len(r[j].items) = 0 /\ Range(r[j].items) = {}
               /\ \A x : In(x, r[j].items) <=> j <= m /\ x = items[j]
    <2>1. CASE j <= m
      <3>1. r[j].items = <<items[j]>>
        BY <1>2, <2>1
      <3>2. Len(<<items[j]>>) = 1 /\ <<items[j]>>[1] = items[j]
            /\ Range(<<items[j]>>) = {items[j]}
        BY DEF Range
      <3>3. \A x : In(x, <<items[j]>>) <=> x = items[j]
        BY DEF In
      <3> QED BY <2>1, <3>1, <3>2, <3>3
    <2>2. CASE ~(j <= m)
      <3>1. r[j].items = <<>>
        BY <1>3, <2>2
      <3>2. Len(<<>>) = 0 /\ Range(<<>>) = {}
        BY DEF Range
      <3>3. \A x : ~In(x, <<>>)
        BY DEF In
      <3> QED BY <2>2, <3>1, <3>2, <3>3
    <2> QED BY <2>1, <2>2
  <1>7. Sound(r, k, lengths)
    <2>1. ASSUME NEW j \in 1 .. k PROVE Single(r[j].items)
      <3>1. Len(r[j].items) = 1 \/ Len(r[j].items) = 0
        BY <1>6
      <3> DEFINE u == r[j].items
      <3>2. Len(u) = 1 \/ Len(u) = 0
        BY <3>1
      <3>3. Single(u)
        <4> HIDE DEF u
        <4> QED BY <3>2 DEF Single
      <3> QED BY <3>3
    <2>2. ASSUME NEW i \in 1 .. k, NEW j \in 1 .. k, i # j
          PROVE  Apart(r[i].items, r[j].items)
      <3> SUFFICES ASSUME NEW x, In(x, r[i].items), In(x, r[j].items) PROVE FALSE
        BY ApartIs
      <3>1. i <= m /\ j <= m /\ items[i] = items[j]
        BY <1>6
      <3>2. i \in 1 .. m /\ j \in 1 .. m
        BY <1>2, <3>1
      <3> QED BY <2>2, <3>1, <3>2 DEF Single, m
    <2>3. ASSUME NEW j \in 1 .. k
          PROVE  r[j].sum = SumOver(lengths, Range(r[j].items))
      <3>1. CASE j <= m
        <4>1. items[j] \in 1 .. Len(lengths)
          BY <1>1, <1>2, <3>1 DEF n
        <4>2. SumOver(lengths, {items[j]}) = lengths[items[j]]
          BY <1>1, <4>1, SumOfOne
        <4> QED BY <1>2, <1>6, <3>1, <4>2
      <3>2. CASE ~(j <= m)
        BY <1>1, <1>3, <1>6, <3>2, SumOfNone
      <3> QED BY <3>1, <3>2
    <2> QED BY <1>4, <2>1, <2>2, <2>3 DEF Sound, n
  <1>8. Thin(r, k)
    <2>1. ASSUME NEW j \in 1 .. k PROVE Len(r[j].items) <= 1
      <3> DEFINE l == Len(r[j].items)
      <3>1. l = 1 \/ l = 0
        BY <1>6
      <3>2. l <= 1
        <4> HIDE DEF l
        <4> QED BY <3>1
      <3> QED BY <3>2
    <2> QED BY <2>1 DEF Thin
  <1>9. ASSUME even PROVE Full(r, k)
    <2>1. m = k
      BY <1>9 DEF m
    <2>2. \A j \in 1 .. k : Len(r[j].items) = 1
      BY <1>6, <2>1
    <2> QED BY <2>2 DEF Full
  <1>15. Close(r, k, bounds)
    <2>1. PICK d \in bounds : Spans(items, lengths, k, d)
      OBVIOUS
    <2>2. /\ \A a, b \in 1 .. m : lengths[items[a]] - lengths[items[b]] <= d
          /\ m < k => \A a \in 1 .. m : lengths[items[a]] <= d
          /\ d \in Int
      BY <2>1 DEF Spans, m
    <2>3. 1 \in 1 .. m /\ lengths[items[1]] \in Nat
      BY <1>1 DEF m
    <2>4. ASSUME NEW i \in 1 .. k, NEW j \in 1 .. k
          PROVE  r[i].sum - r[j].sum <= d
      <3>1. CASE i <= m /\ j <= m
        BY <1>2, <2>2, <3>1
      <3>2. CASE i <= m /\ ~(j <= m)
        <4>1. m < k
          BY <1>1, <3>2
        <4>2. /\ i \in 1 .. m /\ r[i].sum = lengths[items[i]] /\ r[j].sum = 0
          BY <1>2, <1>3, <3>2
        <4>3. lengths[items[i]] \in Nat
          BY <1>1, <4>2
        <4> DEFINE x == lengths[items[i]]
        <4>4. x <= d /\ x \in Nat
          BY <2>2, <4>1, <4>2, <4>3
        <4>5. x - 0 <= d
          <5> HIDE DEF x
          <5> QED BY <2>2, <4>4
        <4> QED BY <4>2, <4>5
      <3>3. CASE ~(i <= m)
        <4>1. m < k
          BY <1>1, <3>3
        <4>2. r[i].sum = 0 /\ lengths[items[1]] <= d
          BY <1>3, <2>2, <2>3, <3>3, <4>1
        <4>3. r[j].sum \in Nat
          BY <1>4 DEF SetsOver
        <4> DEFINE x == lengths[items[1]]
                   y == r[j].sum
        <4>4. x \in Nat /\ y \in Nat /\ x <= d
          BY <2>3, <4>2, <4>3
        <4>5. 0 - y <= d
          <5> HIDE DEF x, y
          <5> QED BY <2>2, <4>4
        <4> QED BY <4>2, <4>5
      <3> QED BY <3>1, <3>2, <3>3
    <2> QED BY <2>4 DEF Within, Close
  <1>10. Kept(r, k, lengths, even, bounds)
    BY <1>7, <1>8, <1>9, <1>15 DEF Kept
  <1>11. Rearranges(SortSets(r), r, k) /\ Descending(SortSets(r), k)
    BY <1>1, <1>4, SortRearranges
  <1>12. Kept(SortSets(r), k, lengths, even, bounds)
    BY <1>10, <1>11, RearrangedIsKept
  <1>13. ASSUME NEW x PROVE Holds(SortSets(r), k, x) <=> In(x, items)
    <2>1. Holds(SortSets(r), k, x) <=> Holds(r, k, x)
      BY <1>11, RearrangedHolds
    <2>2. ASSUME Holds(r, k, x) PROVE In(x, items)
      <3>1. PICK j \in 1 .. k : In(x, r[j].items)
        BY <2>2 DEF Holds
      <3>2. j <= m /\ x = items[j]
        BY <1>6, <3>1
      <3>3. j \in 1 .. m
        BY <1>2, <3>2
      <3> QED BY <3>2, <3>3 DEF In, m
    <2>3. ASSUME In(x, items) PROVE Holds(r, k, x)
      <3>1. PICK j \in 1 .. m : items[j] = x
        BY <2>3 DEF In, m
      <3>2. j \in 1 .. k /\ j <= m
        BY <1>1, <3>1 DEF m
      <3>3. In(x, r[j].items)
        BY <1>6, <3>1, <3>2
      <3> QED BY <3>2, <3>3 DEF Holds
    <2> QED BY <2>1, <2>2, <2>3
  <1>14. Len(SortSets(r)[1].items) > 0
    <2>1. 1 \in 1 .. Len(items)
      BY <1>1 DEF m
    <2>2. In(items[1], items)
      BY <2>1 DEF In
    <2>3. Holds(SortSets(r), k, items[1])
      BY <1>13, <2>2
    <2>4. Sound(SortSets(r), k, lengths)
      BY <1>12 DEF Kept
    <2> QED BY <1>11, <2>3, <2>4, FirstHasItems
  <1> QED BY <1>5, <1>11, <1>12, <1>13, <1>14 DEF IsState

(* Which group a place is in, and where there.                              *)
LEMMA SlotIsUnique ==
  ASSUME NEW size \in Nat \ {0}, NEW g \in Nat \ {0}, NEW h \in Nat \ {0},
         NEW i \in 1 .. size, NEW j \in 1 .. size,
         (g - 1) * size + i = (h - 1) * size + j
  PROVE  g = h
PROOF
  <1>1. ASSUME NEW a \in Nat \ {0}, NEW b \in Nat \ {0}, a < b,
               NEW x \in 1 .. size, NEW y \in 1 .. size
        PROVE  (a - 1) * size + x < (b - 1) * size + y
    <2>1. (b - 1) * size = (a - 1) * size + (b - a) * size
      OBVIOUS
    <2>2. (b - a) * size >= size
      <3>1. b - a \in Nat /\ b - a >= 1
        BY <1>1
      <3>2. (b - a) * size = (b - a - 1) * size + size
        OBVIOUS
      <3>3. (b - a - 1) * size \in Nat
        <4>1. b - a - 1 \in Nat
          BY <3>1
        <4> QED BY <4>1
      <3> QED BY <3>2, <3>3
    <2>3. (a - 1) * size \in Nat /\ (b - a) * size \in Int
      <3>1. a - 1 \in Nat
        OBVIOUS
      <3> QED BY <3>1
    <2> DEFINE p == (a - 1) * size
               q == (b - a) * size
    <2>4. (b - 1) * size = p + q /\ p \in Nat /\ q \in Int /\ q >= size
      BY <2>1, <2>2, <2>3
    <2> HIDE DEF p, q
    <2>5. p + x < p + q + y
      BY <2>4
    <2> QED BY <2>4, <2>5 DEF p
  <1>2. ~(g < h)
    <2> SUFFICES ASSUME g < h PROVE FALSE
      OBVIOUS
    <2>1. (g - 1) * size + i < (h - 1) * size + j
      BY <1>1
    <2> QED BY <2>1
  <1>3. ~(h < g)
    <2> SUFFICES ASSUME h < g PROVE FALSE
      OBVIOUS
    <2>1. (h - 1) * size + j < (g - 1) * size + i
      BY <1>1
    <2> QED BY <2>1
  <1> QED BY <1>2, <1>3

(* How far apart the lengths of each group of k are, by their order.        *)
Spreads(lengths, k) ==
    {lengths[ByLength(lengths)[g * k]]
       - lengths[ByLength(lengths)[(g - 1) * k + 1]] : g \in 1 .. Len(lengths) \div k}

(* How far apart sums may be: with equal_size the lengths of a group, else  *)
(* as much as some length.                                                  *)
Bounds(lengths, k, even) == IF even THEN Spreads(lengths, k) ELSE Range(lengths)

FirstStates(lengths, k, even) ==
    LET groups == Split(ByLength(lengths), IF even THEN k ELSE 1)
    IN  {StateOf(groups[g], k, lengths) : g \in DOMAIN groups}

(* Both are numbers.                                                        *)
LEMMA SpreadsAreNumbers ==
  ASSUME NEW lengths \in Seq(Nat), NEW k \in Nat \ {0}
  PROVE  Spreads(lengths, k) \in SUBSET Int
PROOF
  <1> DEFINE n == Len(lengths)
             sorted == ByLength(lengths)
             c == n \div k
  <1>1. n \in Nat /\ \A p \in 1 .. n : lengths[p] \in Nat
    OBVIOUS
  <1>2. \A p \in 1 .. n : sorted[p] \in 1 .. n
    BY ByLengthSorts DEF Sorts, Permutes
  <1>3. n = k * c + (n % k) /\ n % k \in Nat /\ c \in Nat
    <2>1. n \in Nat
      BY <1>1
    <2> HIDE DEF n
    <2>2. n = k * (n \div k) + (n % k) /\ n % k \in 0 .. k - 1 /\ n \div k \in Nat
      BY <2>1, DivMod
    <2> QED BY <2>2
  <1> HIDE DEF sorted, n, c
  <1>4. ASSUME NEW g \in 1 .. c PROVE g * k \in 1 .. n /\ (g - 1) * k + 1 \in 1 .. n
    <2> DEFINE a == (g - 1) * k
               b == (c - g) * k
               r == n % k
    <2>1. g - 1 \in Nat /\ c - g \in Nat
      BY <1>3
    <2>2. a \in Nat /\ b \in Nat /\ r \in Nat
      BY <1>3, <2>1
    <2>3. g * k = a + k /\ k * c = a + k + b
      BY <1>3
    <2>4. n = a + k + b + r
      BY <1>3, <2>3
    <2> HIDE DEF a, b, r
    <2>5. a + k \in 1 .. n /\ a + 1 \in 1 .. n
      BY <1>1, <2>2, <2>4
    <2> QED BY <2>3, <2>5 DEF a
  <1>5. ASSUME NEW g \in 1 .. c
        PROVE  lengths[sorted[g * k]] - lengths[sorted[(g - 1) * k + 1]] \in Int
    <2>1. lengths[sorted[g * k]] \in Nat /\ lengths[sorted[(g - 1) * k + 1]] \in Nat
      BY <1>1, <1>2, <1>4
    <2> QED BY <2>1
  <1> QED BY <1>5 DEF Spreads, c, n, sorted

LEMMA BoundsAreNumbers ==
  ASSUME NEW lengths \in Seq(Nat), NEW k \in Nat \ {0}, NEW even
  PROVE  Bounds(lengths, k, even) \in SUBSET Int
PROOF
  <1>1. Range(lengths) \in SUBSET Int
    BY DEF Range
  <1> QED BY <1>1, SpreadsAreNumbers DEF Bounds

(* The states before the loop hold every position once.                     *)
LEMMA FirstStatesAreHeap ==
  ASSUME NEW lengths \in Seq(Nat \ {0}), Len(lengths) > 0, NEW k \in Nat \ {0},
         NEW even \in BOOLEAN, even => Len(lengths) % k = 0
  PROVE  /\ IsHeap(FirstStates(lengths, k, even), k, lengths, even,
                   Bounds(lengths, k, even))
         /\ FirstStates(lengths, k, even) # {}
PROOF
  <1> DEFINE n == Len(lengths)
             N == 1 .. n
             sorted == ByLength(lengths)
             size == IF even THEN k ELSE 1
             groups == Split(sorted, size)
             c == n \div size
             bounds == Bounds(lengths, k, even)
             first == FirstStates(lengths, k, even)
             S(g) == StateOf(groups[g], k, lengths)
  <1>1. /\ n \in Nat /\ n > 0 /\ size \in 1 .. k /\ size \in Nat \ {0}
        /\ lengths \in Seq(Nat)
        /\ \A p \in 1 .. n : lengths[p] \in Nat
    OBVIOUS
  <1>2. n % size = 0 /\ c \in Nat /\ n = size * c
    <2>1. n % size = 0
      <3>1. CASE even
        BY <3>1
      <3>2. CASE ~even
        <4>1. size = 1
          BY <3>2
        <4>2. n % 1 = 0
          BY <1>1, Z3
        <4> QED BY <4>1, <4>2
      <3> QED BY <3>1, <3>2
    <2> HIDE DEF n, size
    <2>2. n = size * (n \div size) + (n % size) /\ n \div size \in Nat
      BY <1>1, DivMod
    <2> QED BY <1>1, <2>1, <2>2
  <1>3. /\ sorted \in Seq(N) /\ Len(sorted) = n
        /\ \A p, q \in 1 .. n : sorted[p] = sorted[q] => p = q
        /\ \A p \in 1 .. n : sorted[p] \in 1 .. n
        /\ \A x \in 1 .. n : \E p \in 1 .. n : sorted[p] = x
        /\ \A p, q \in 1 .. n : p <= q => lengths[sorted[p]] <= lengths[sorted[q]]
    <2>1. Sorts(sorted, lengths)
      BY <1>1, ByLengthSorts
    <2> HIDE DEF sorted
    <2>2. sorted \in [1 .. n -> N]
      BY <2>1 DEF Sorts, Permutes
    <2>3. sorted \in Seq(N) /\ Len(sorted) = n
      <3> HIDE DEF N, n
      <3> QED BY <1>1, <2>2, FunctionIsSeq
    <2> QED BY <2>1, <2>3 DEF Sorts, Permutes
  <1> HIDE DEF sorted
  <1>4. Cut(groups, sorted, size, N)
    <2> HIDE DEF size, N
    <2> QED BY <1>1, <1>3, SplitIs
  <1> HIDE DEF groups
  <1>5. /\ groups \in Seq(Seq(N)) /\ DOMAIN groups = 1 .. c /\ Len(groups) = c
        /\ \A g \in 1 .. c :
               /\ groups[g] \in Seq(N) /\ Len(groups[g]) = size
    <2>1. groups \in Seq(Seq(N)) /\ Len(groups) = c
          /\ \A g \in 1 .. c : Len(groups[g]) = size
      <3> HIDE DEF N, size, n
      <3> QED BY <1>2, <1>3, <1>4 DEF Cut
    <2> HIDE DEF N, size, c
    <2> QED BY <2>1
  <1>6. ASSUME NEW g \in 1 .. c, NEW i \in 1 .. size
        PROVE  /\ (g - 1) * size + i \in 1 .. n
               /\ groups[g][i] = sorted[(g - 1) * size + i]
    <2>1. g \in 1 .. Len(groups) /\ i \in 1 .. Len(groups[g])
      <3> HIDE DEF size, c, N
      <3> QED BY <1>5
    <2> HIDE DEF size, c, N, n
    <2> QED BY <1>3, <1>4, <2>1 DEF Cut
  <1>7. ASSUME NEW g \in 1 .. c, NEW h \in 1 .. c,
               NEW i \in 1 .. size, NEW j \in 1 .. size, groups[g][i] = groups[h][j]
        PROVE  g = h /\ i = j
    <2>1. (g - 1) * size + i = (h - 1) * size + j
      <3> DEFINE p == (g - 1) * size + i
                 q == (h - 1) * size + j
      <3>1. p \in 1 .. n /\ q \in 1 .. n /\ sorted[p] = sorted[q]
        <4> HIDE DEF size, c, N, n
        <4> QED BY <1>6, <1>7
      <3>2. p = q
        <4> HIDE DEF p, q, n
        <4> QED BY <1>3, <3>1
      <3> QED BY <3>2
    <2>2. g = h
      <3>1. g \in Nat \ {0} /\ h \in Nat \ {0}
        BY <1>2
      <3> HIDE DEF size, c, N, n
      <3> QED BY <1>1, <2>1, <3>1, SlotIsUnique
    <2>3. (g - 1) * size \in Int
      <3>1. g - 1 \in Int
        BY <1>2
      <3> HIDE DEF size, c
      <3> QED BY <1>1, <3>1
    <2> DEFINE p == (g - 1) * size
    <2>4. p + i = p + j /\ p \in Int /\ i \in Int /\ j \in Int
      <3> HIDE DEF size, c
      <3> QED BY <1>1, <2>1, <2>2, <2>3
    <2>5. i = j
      <3> HIDE DEF p
      <3> QED BY <2>4
    <2> QED BY <2>2, <2>5
  <1>8. ASSUME NEW x \in N
        PROVE  \E g \in 1 .. c : \E i \in 1 .. size : groups[g][i] = x
    <2>1. PICK p \in 1 .. n : sorted[p] = x
      BY <1>3
    <2> DEFINE q == (p - 1) \div size
               r == (p - 1) % size
    <2>2. p - 1 \in Nat /\ p - 1 < n
      BY <1>1
    <2>3. p - 1 = size * q + r /\ r \in 0 .. size - 1 /\ q \in Nat
      <3> HIDE DEF size
      <3> QED BY <1>1, <2>2, DivMod
    <2> HIDE DEF q, r, size, c, n
    <2>4. q < c
      <3> SUFFICES ASSUME c <= q PROVE FALSE
        BY <1>2, <2>3
      <3>1. size * q = size * c + size * (q - c)
        BY <1>1, <1>2, <2>3
      <3>2. size * (q - c) \in Nat
        <4>1. q - c \in Nat
          BY <1>2, <2>3
        <4> QED BY <1>1, <4>1
      <3> DEFINE a == size * q
                 b == size * (q - c)
      <3>3. a = n + b /\ b \in Nat /\ p - 1 = a + r
        BY <1>2, <2>3, <3>1, <3>2
      <3> HIDE DEF a, b
      <3> QED BY <1>1, <2>2, <2>3, <3>3
    <2>5. q + 1 \in 1 .. c /\ r + 1 \in 1 .. size
      BY <1>1, <1>2, <2>3, <2>4
    <2>6. ((q + 1) - 1) * size + (r + 1) = p
      <3>1. ((q + 1) - 1) * size = size * q
        BY <1>1, <2>3
      <3>2. size * q \in Nat
        BY <1>1, <2>3
      <3> QED BY <1>1, <2>2, <2>3, <3>1, <3>2
    <2>7. groups[q + 1][r + 1] = x
      BY <1>6, <2>1, <2>5, <2>6
    <2> QED BY <2>5, <2>7
  <1>9. first = {S(g) : g \in 1 .. c}
    BY <1>5 DEF FirstStates, groups, sorted
  <1> HIDE DEF first, c
  <1>10. ASSUME NEW g \in 1 .. c, even
         PROVE  \E d \in bounds : \A a, b \in 1 .. k :
                    lengths[groups[g][a]] - lengths[groups[g][b]] <= d
    <2>1. size = k
      BY <1>10
    <2>2. g \in 1 .. n \div k
      BY <2>1 DEF c
    <2> DEFINE lo == (g - 1) * k + 1
               hi == g * k
               d == lengths[sorted[hi]] - lengths[sorted[lo]]
    <2>3. d \in bounds
      BY <1>10, <2>2 DEF Bounds, Spreads, sorted
    <2>4. hi = (g - 1) * k + k /\ g - 1 \in Nat
      BY <1>2 DEF c
    <2> HIDE DEF size
    <2>5. lo \in 1 .. n /\ hi \in 1 .. n
      <3>1. 1 \in 1 .. k /\ k \in 1 .. k
        OBVIOUS
      <3> QED BY <1>6, <2>1, <2>4, <3>1
    <2>6. ASSUME NEW a \in 1 .. k, NEW b \in 1 .. k
          PROVE  lengths[groups[g][a]] - lengths[groups[g][b]] <= d
      <3> DEFINE p == (g - 1) * k + a
                 q == (g - 1) * k + b
      <3>1. /\ p \in 1 .. n /\ groups[g][a] = sorted[p]
            /\ q \in 1 .. n /\ groups[g][b] = sorted[q]
        BY <1>6, <2>1
      <3>2. p <= hi /\ lo <= q
        <4> DEFINE z == (g - 1) * k
        <4>1. z \in Nat
          BY <2>4
        <4>2. p = z + a /\ q = z + b /\ hi = z + k /\ lo = z + 1
          BY <2>4
        <4> HIDE DEF z, p, q, hi, lo
        <4> QED BY <4>1, <4>2
      <3> HIDE DEF p, q, hi, lo
      <3>3. /\ lengths[sorted[p]] <= lengths[sorted[hi]]
            /\ lengths[sorted[lo]] <= lengths[sorted[q]]
        BY <1>3, <2>5, <3>1, <3>2
      <3>4. /\ lengths[sorted[p]] \in Nat /\ lengths[sorted[q]] \in Nat
            /\ lengths[sorted[hi]] \in Nat /\ lengths[sorted[lo]] \in Nat
        <4>1. \A i \in 1 .. n : sorted[i] \in 1 .. n
          BY <1>3
        <4> QED BY <1>1, <2>5, <3>1, <4>1
      <3> DEFINE x == lengths[sorted[p]]
                 y == lengths[sorted[q]]
                 u == lengths[sorted[hi]]
                 v == lengths[sorted[lo]]
      <3>5. x - y <= u - v
        <4>1. x \in Nat /\ y \in Nat /\ u \in Nat /\ v \in Nat /\ x <= u /\ v <= y
          BY <3>3, <3>4
        <4> HIDE DEF x, y, u, v
        <4> QED BY <4>1
      <3> QED BY <3>1, <3>5
    <2> HIDE DEF d, bounds
    <2> QED BY <2>3, <2>6
  <1>17. ASSUME NEW g \in 1 .. c
         PROVE  \E d \in bounds : Spans(groups[g], lengths, k, d)
    <2>1. CASE even
      <3>1. Len(groups[g]) = k
        BY <1>5, <2>1
      <3>2. ~(k < k)
        OBVIOUS
      <3> HIDE DEF bounds
      <3>3. PICK d \in bounds : \A a, b \in 1 .. k :
                    lengths[groups[g][a]] - lengths[groups[g][b]] <= d
        BY <1>10, <2>1
      <3>4. Spans(groups[g], lengths, k, d)
        BY <3>1, <3>2, <3>3 DEF Spans
      <3> QED BY <3>4
    <2>2. CASE ~even
      <3>1. Len(groups[g]) = 1 /\ groups[g][1] \in 1 .. n
        <4>1. size = 1 /\ 1 \in 1 .. size
          BY <2>2
        <4> HIDE DEF size
        <4>2. Len(groups[g]) = 1 /\ groups[g] \in Seq(N)
          BY <1>5, <4>1
        <4> QED BY <4>2
      <3> DEFINE d == lengths[groups[g][1]]
      <3>2. d \in Nat /\ d \in Range(lengths)
        BY <1>1, <3>1 DEF Range
      <3>3. d \in bounds
        BY <2>2, <3>2 DEF Bounds
      <3>4. Spans(groups[g], lengths, k, d)
        <4>1. \A a \in 1 .. 1 : a = 1
          OBVIOUS
        <4>2. d - d <= d /\ d <= d
          <5> HIDE DEF d
          <5> QED BY <3>2
        <4> QED BY <3>1, <4>1, <4>2 DEF Spans
      <3> HIDE DEF d, bounds
      <3> QED BY <3>3, <3>4
    <2> QED BY <2>1, <2>2
  <1>18. bounds \in SUBSET Int
    BY <1>1, BoundsAreNumbers
  <1>11. ASSUME NEW g \in 1 .. c
         PROVE  /\ IsState(S(g), k, lengths, even, bounds)
                /\ \A x : Holds(S(g), k, x) <=> In(x, groups[g])
    <2>1. groups[g] \in Seq(1 .. n) /\ Len(groups[g]) = size
      <3> HIDE DEF size
      <3> QED BY <1>5
    <2>2. Single(groups[g])
      <3> HIDE DEF size
      <3> QED BY <1>7, <2>1 DEF Single
    <2>3. Len(groups[g]) \in 1 .. k
      BY <1>1, <2>1
    <2>4. even => Len(groups[g]) = k
      BY <2>1
    <2> HIDE DEF bounds
    <2>5. \E d \in bounds : Spans(groups[g], lengths, k, d)
      BY <1>17
    <2> QED BY <1>18, <2>1, <2>2, <2>3, <2>4, <2>5, StateOfIs
  <1> HIDE DEF S
  <1>12. ASSUME NEW g \in 1 .. c, NEW h \in 1 .. c, g # h
         PROVE  Disjoint(S(g), S(h), k)
    <2> SUFFICES ASSUME NEW x, In(x, groups[g]), In(x, groups[h]) PROVE FALSE
      BY <1>11, DisjointIs
    <2>1. PICK i \in 1 .. size : groups[g][i] = x
      <3> HIDE DEF size
      <3> QED BY <1>5 DEF In
    <2>2. PICK j \in 1 .. size : groups[h][j] = x
      <3> HIDE DEF size
      <3> QED BY <1>5 DEF In
    <2> HIDE DEF size
    <2> QED BY <1>7, <1>12, <2>1, <2>2
  <1>13. ASSUME NEW x \in 1 .. n PROVE \E s \in first : Holds(s, k, x)
    <2>1. PICK g \in 1 .. c : \E i \in 1 .. size : groups[g][i] = x
      BY <1>8
    <2>2. In(x, groups[g])
      <3> HIDE DEF size
      <3> QED BY <1>5, <2>1 DEF In
    <2> QED BY <1>9, <1>11, <2>1, <2>2
  <1>14. IsFiniteSet(first)
    <2> DEFINE f == [g \in 1 .. c |-> S(g)]
    <2>1. f \in Surjection(1 .. c, first)
      BY <1>9 DEF Surjection
    <2>2. IsFiniteSet(1 .. c)
      BY <1>2, FS_Interval DEF c
    <2> HIDE DEF f
    <2> QED BY <2>1, <2>2, FS_Surjection
  <1>15. first # {}
    BY <1>1, <1>13
  <1>16. Separate(first, k, lengths, even, bounds)
    BY <1>9, <1>11, <1>12, <1>14 DEF Separate
  <1> QED BY <1>13, <1>15, <1>16 DEF IsHeap, first

-----------------------------------------------------------------------------
(* The partitions.                                                          *)
(* The state that is left holds every position once.                        *)
LEMMA KarmarkarKarpIsState ==
  ASSUME NEW lengths \in Seq(Nat \ {0}), Len(lengths) > 0, NEW k \in Nat \ {0},
         NEW even \in BOOLEAN, even => Len(lengths) % k = 0
  PROVE  /\ IsState(KarmarkarKarp(lengths, k, even), k, lengths, even,
                    Bounds(lengths, k, even))
         /\ \A x \in 1 .. Len(lengths) : Holds(KarmarkarKarp(lengths, k, even), k, x)
PROOF
  <1> DEFINE bounds == Bounds(lengths, k, even)
             first == FirstStates(lengths, k, even)
  <1>1. lengths \in Seq(Nat)
    OBVIOUS
  <1>2. bounds \in SUBSET Int
    BY <1>1, BoundsAreNumbers
  <1>3. IsHeap(first, k, lengths, even, bounds) /\ first # {}
    BY FirstStatesAreHeap
  <1>4. KarmarkarKarp(lengths, k, even) = MergeAll(first)
    BY DEF KarmarkarKarp, FirstStates
  <1> HIDE DEF bounds, first
  <1>5. /\ IsState(MergeAll(first), k, lengths, even, bounds)
        /\ \A x \in 1 .. Len(lengths) : Holds(MergeAll(first), k, x)
    BY <1>2, <1>3, MergeAllIsState
  <1> QED BY <1>4, <1>5 DEF bounds

(* sorted() of a set of positions.                                          *)
LEMMA AscendingIs ==
  ASSUME NEW n \in Nat, NEW S \in SUBSET (0 .. n)
  PROVE  /\ IsFiniteSet(S)
         /\ Ascending(S) \in Seq(S)
         /\ Len(Ascending(S)) = Cardinality(S)
         /\ Single(Ascending(S))
         /\ \A x : In(x, Ascending(S)) <=> x \in S
         /\ \A i, j \in 1 .. Cardinality(S) :
                i < j => Ascending(S)[i] < Ascending(S)[j]
PROOF
  <1> DEFINE order == {p \in S \X S : p[1] < p[2]}
             c == Cardinality(S)
             o == Ascending(S)
  <1>1. IsFiniteSet(S) /\ c \in Nat
    <2>1. IsFiniteSet(0 .. n)
      BY FS_Interval
    <2>2. IsFiniteSet(S)
      BY <2>1, FS_Subset
    <2> QED BY <2>2, FS_CardinalityType
  <1>2. StrictOrder(S, order)
    <2>1. \A x \in S : x \in Int
      OBVIOUS
    <2>2. \A x, y \in S : <<x, y>> \in order <=> x < y
      OBVIOUS
    <2> HIDE DEF order
    <2> QED BY <2>1, <2>2 DEF StrictOrder
  <1>3. o = InOrder(S, order)
    BY DEF Ascending
  <1>4. \A x, y \in S : <<x, y>> \in order => x < y
    OBVIOUS
  <1> HIDE DEF order, c, o
  <1>5. /\ o \in [1 .. c -> S]
        /\ \A i, j \in 1 .. c : i < j => <<o[i], o[j]>> \in order
        /\ \A x \in S : \E i \in 1 .. c : o[i] = x
    BY <1>1, <1>2, <1>3, InOrderIsOrdered DEF c
  <1>6. o \in Seq(S) /\ Len(o) = c
    BY <1>1, <1>5, FunctionIsSeq
  <1>7. \A i, j \in 1 .. c : i < j => o[i] < o[j]
    BY <1>4, <1>5
  <1>8. Single(o)
    <2> SUFFICES ASSUME NEW i \in 1 .. c, NEW j \in 1 .. c, i # j
                 PROVE  o[i] # o[j]
      BY <1>6 DEF Single
    <2>1. i < j \/ j < i
      BY <1>1
    <2>2. o[i] < o[j] \/ o[j] < o[i]
      BY <1>7, <2>1
    <2>3. o[i] \in 0 .. n /\ o[j] \in 0 .. n
      BY <1>5
    <2> QED BY <2>2, <2>3
  <1>9. \A x : In(x, o) <=> x \in S
    BY <1>5, <1>6 DEF In
  <1> QED BY <1>1, <1>6, <1>7, <1>8, <1>9 DEF o, c

(* A sequence without repetition is as long as its range is large.          *)
LEMMA CountOfItems ==
  ASSUME NEW T, NEW u \in Seq(T), Single(u)
  PROVE  IsFiniteSet(Range(u)) /\ Cardinality(Range(u)) = Len(u)
PROOF
  <1> DEFINE n == Len(u)
             S == Range(u)
  <1>1. n \in Nat /\ u \in [1 .. n -> S] /\ \A x \in S : \E i \in 1 .. n : u[i] = x
    BY DEF Range
  <1>2. u \in Bijection(1 .. n, S)
    <2>1. \A i, j \in 1 .. n : u[i] = u[j] => i = j
      BY DEF Single
    <2> HIDE DEF n, S
    <2> QED BY <1>1, <2>1 DEF Bijection, Injection, Surjection, IsInjective
  <1>3. IsFiniteSet(1 .. n) /\ Cardinality(1 .. n) = n
    <2>1. n \in Nat
      BY <1>1
    <2> HIDE DEF n
    <2> QED BY <2>1, FS_Interval
  <1> HIDE DEF n, S
  <1>4. IsFiniteSet(S)
    BY <1>2, <1>3, FS_Surjection DEF Bijection
  <1>5. ExistsBijection(1 .. n, S)
    BY <1>2 DEF ExistsBijection
  <1>6. Cardinality(S) = n
    BY <1>1, <1>4, <1>5, FS_CountingElements
  <1> QED BY <1>4, <1>6 DEF n, S

(* The size of 1 .. n.                                                      *)
LEMMA IntervalSize ==
  ASSUME NEW n \in Nat
  PROVE  IsFiniteSet(1 .. n) /\ Cardinality(1 .. n) = n
  BY FS_Interval

(* With k positions or more no set of the last state is empty.              *)
LEMMA NoneIsEmpty ==
  ASSUME NEW lengths \in Seq(Nat \ {0}), NEW k \in Nat \ {0}, k <= Len(lengths), NEW s,
         Sound(s, k, lengths), Thin(s, k),
         \A x \in 1 .. Len(lengths) : Holds(s, k, x), NEW q \in 1 .. k
  PROVE  Len(s[q].items) > 0
PROOF
  <1> DEFINE n == Len(lengths)
             S == 1 .. n
             T == (1 .. k) \ {q}
             f == [x \in S |-> CHOOSE j \in 1 .. k : In(x, s[j].items)]
  <1>1. n \in Nat /\ k <= n
    OBVIOUS
  <1>2. \A j \in 1 .. k : Len(s[j].items) \in Nat
    BY SumTellsEmpty
  <1> SUFFICES ASSUME Len(s[q].items) = 0 PROVE FALSE
    BY <1>2
  <1>3. \A j \in 1 .. k : Len(s[j].items) <= 1
    BY DEF Thin
  <1>4. ASSUME NEW x \in S PROVE f[x] \in 1 .. k /\ In(x, s[f[x]].items)
    <2>1. \E j \in 1 .. k : In(x, s[j].items)
      BY DEF Holds
    <2> DEFINE j0 == CHOOSE j \in 1 .. k : In(x, s[j].items)
    <2>2. j0 \in 1 .. k /\ In(x, s[j0].items)
      BY <2>1
    <2>3. f[x] = j0
      OBVIOUS
    <2> HIDE DEF f, j0
    <2> QED BY <2>2, <2>3
  <1>5. ASSUME NEW x \in S PROVE f[x] \in T
    <2>1. ~In(x, s[q].items)
      <3> SUFFICES ASSUME In(x, s[q].items) PROVE FALSE
        OBVIOUS
      <3>1. PICK a \in 1 .. Len(s[q].items) : s[q].items[a] = x
        BY DEF In
      <3> QED BY <3>1
    <2>2. f[x] # q
      <3> HIDE DEF f, S
      <3> QED BY <1>4, <2>1
    <2> HIDE DEF f, S
    <2> QED BY <1>4, <2>2
  <1>6. f \in [S -> T]
    <2> HIDE DEF T
    <2>1. DOMAIN f = S /\ f = [x \in S |-> f[x]]
      OBVIOUS
    <2> HIDE DEF f, S
    <2> QED BY <1>5, <2>1
  <1>7. IsFiniteSet(S) /\ Cardinality(S) = n
    <2>1. n \in Nat
      BY <1>1
    <2> HIDE DEF n
    <2> QED BY <2>1, IntervalSize
  <1>8. IsFiniteSet(T) /\ Cardinality(T) = k - 1
    <2>1. IsFiniteSet(1 .. k) /\ Cardinality(1 .. k) = k
      BY FS_Interval
    <2> DEFINE K == 1 .. k
    <2>2. q \in K /\ IsFiniteSet(K) /\ Cardinality(K) = k
      BY <2>1
    <2> HIDE DEF K
    <2>3. IsFiniteSet(K \ {q}) /\ Cardinality(K \ {q}) = k - 1
      BY <2>2, FS_RemoveElement
    <2> QED BY <2>3 DEF K
  <1> HIDE DEF f, S, T
  <1>9. PICK x \in S, y \in S : x # y /\ f[x] = f[y]
    <2>1. Cardinality(T) < Cardinality(S)
      BY <1>1, <1>7, <1>8
    <2> QED BY <1>6, <1>7, <1>8, <2>1, FS_PigeonHole
  <1> DEFINE u == s[f[x]].items
  <1>10. In(x, u) /\ In(y, u) /\ Len(u) <= 1 /\ Len(u) \in Nat
    BY <1>2, <1>3, <1>4, <1>9
  <1> HIDE DEF u
  <1>11. PICK a \in 1 .. Len(u), b \in 1 .. Len(u) : u[a] = x /\ u[b] = y
    BY <1>10 DEF In
  <1>12. a = b
    BY <1>10
  <1> QED BY <1>9, <1>11, <1>12

(* As many parts as asked for, each position in exactly one of them; none   *)
(* is empty unless there are too few positions; with equal_size all have as *)
(* many, and no part more tokens than another by more than one of the       *)
(* spreads, or else by more than some length.                               *)
AreShares(parts, lengths, k, even) ==
    /\ parts \in Seq(Seq(1 .. Len(lengths)))
    /\ Len(parts) = k
    /\ Distinct(parts)
    /\ Covers(parts, Len(lengths))
    /\ k <= Len(lengths) => \A p \in 1 .. k : Len(parts[p]) > 0
    /\ even => \A p, q \in 1 .. k : Len(parts[p]) = Len(parts[q])
    /\ \E d \in Bounds(lengths, k, even) : \A p, q \in 1 .. k :
           TokensIn(parts[p], lengths) - TokensIn(parts[q], lengths) <= d

(* Parts that share no position hold each at one place.                     *)
LEMMA DistinctIs ==
  ASSUME NEW parts, \A j \in 1 .. Len(parts) : Single(parts[j]),
         \A i, j \in 1 .. Len(parts) : i # j => Apart(parts[i], parts[j])
  PROVE  Distinct(parts)
PROOF
  <1> SUFFICES ASSUME NEW i \in 1 .. Len(parts), NEW j \in 1 .. Len(parts),
                      NEW a \in 1 .. Len(parts[i]), NEW b \in 1 .. Len(parts[j]),
                      parts[i][a] = parts[j][b]
               PROVE  i = j /\ a = b
    BY DEF Distinct
  <1>1. i = j
    BY DEF Apart
  <1> QED BY <1>1 DEF Single

(* What get_seqlen_balanced_partitions makes, for any lengths.  Positions   *)
(* must only be as many as a multiple of the partitions when they are to    *)
(* have the same size, which the code asserts.                              *)
THEOREM PartitionsAreShares ==
  ASSUME NEW lengths \in Seq(Nat \ {0}), Len(lengths) > 0, NEW k \in Nat \ {0},
         NEW even \in BOOLEAN, even => Len(lengths) % k = 0
  PROVE  AreShares(Partitions(lengths, k, even), lengths, k, even)
PROOF
  <1> DEFINE n == Len(lengths)
             N == 1 .. n
             bounds == Bounds(lengths, k, even)
             s == KarmarkarKarp(lengths, k, even)
             parts == Partitions(lengths, k, even)
  <1>1. n \in Nat /\ n > 0
    OBVIOUS
  <1>2. /\ Kept(s, k, lengths, even, bounds)
        /\ \A x \in N : Holds(s, k, x)
    BY KarmarkarKarpIsState DEF IsState
  <1>3. parts = [p \in 1 .. k |-> Ascending(Range(s[p].items))]
    BY DEF Partitions
  <1> HIDE DEF s, parts
  <1>4. Sound(s, k, lengths) /\ Thin(s, k)
    BY <1>2 DEF Kept
  <1>5. ASSUME NEW p \in 1 .. k
        PROVE  /\ parts[p] \in Seq(N)
               /\ Len(parts[p]) = Len(s[p].items)
               /\ Single(parts[p])
               /\ \A x : In(x, parts[p]) <=> In(x, s[p].items)
               /\ TokensIn(parts[p], lengths) = s[p].sum
    <2> DEFINE u == s[p].items
               S == Range(u)
    <2>1. u \in Seq(N) /\ Single(u) /\ s[p].sum = SumOver(lengths, S)
      <3>1. s[p] \in SetsOver(n)
        BY <1>4 DEF Sound
      <3>2. u \in Seq(N)
        <4> HIDE DEF n
        <4> QED BY <3>1 DEF SetsOver
      <3> QED BY <1>4, <3>2 DEF Sound
    <2>2. parts[p] = Ascending(S)
      BY <1>3
    <2> HIDE DEF u
    <2>3. S \in SUBSET N /\ Cardinality(S) = Len(u)
          /\ \A x : x \in S <=> In(x, u)
      <3> HIDE DEF N
      <3> QED BY <2>1, RangeIs, CountOfItems
    <2> HIDE DEF S
    <2>4. /\ Ascending(S) \in Seq(S)
          /\ Len(Ascending(S)) = Cardinality(S)
          /\ Single(Ascending(S))
          /\ \A x : In(x, Ascending(S)) <=> x \in S
      <3>1. S \in SUBSET (0 .. n)
        BY <2>3
      <3> HIDE DEF n, N
      <3> QED BY <1>1, <3>1, AscendingIs
    <2> DEFINE v == Ascending(S)
    <2> HIDE DEF v, N
    <2>5. v \in Seq(S) /\ Len(v) = Cardinality(S) /\ Single(v)
          /\ \A x : In(x, v) <=> x \in S
      BY <2>4 DEF v
    <2>6. v \in Seq(N)
      BY <2>3, <2>5
    <2>7. Range(v) = S
      <3>1. \A x : x \in Range(v) <=> x \in S
        BY <2>5, RangeIs
      <3> QED BY <3>1
    <2>8. TokensIn(v, lengths) = s[p].sum
      BY <2>1, <2>7 DEF TokensIn
    <2> QED BY <2>2, <2>3, <2>5, <2>6, <2>8 DEF v, u
  <1> DEFINE A == Seq(N)
  <1>6. parts \in Seq(A) /\ Len(parts) = k
    <2>1. parts \in [1 .. k -> A]
      <3>1. \A p \in 1 .. k : parts[p] \in A
        BY <1>5
      <3> HIDE DEF A
      <3> QED BY <1>3, <3>1
    <2> HIDE DEF A
    <2> QED BY <2>1, FunctionIsSeq
  <1>7. Distinct(parts)
    <2>1. ASSUME NEW i \in 1 .. k, NEW j \in 1 .. k, i # j
          PROVE  Apart(parts[i], parts[j])
      <3>1. Apart(s[i].items, s[j].items)
        BY <1>4, <2>1 DEF Sound
      <3>2. \A x : ~(In(x, parts[i]) /\ In(x, parts[j]))
        BY <1>5, <3>1, ApartIs
      <3> QED BY <3>2, ApartIs
    <2> HIDE DEF A, N
    <2> QED BY <1>5, <1>6, <2>1, DistinctIs
  <1>8. Covers(parts, n)
    <2> SUFFICES ASSUME NEW x \in N
                 PROVE  \E i \in 1 .. k : \E a \in 1 .. Len(parts[i]) : parts[i][a] = x
      BY <1>6 DEF Covers
    <2>1. PICK j \in 1 .. k : In(x, s[j].items)
      BY <1>2 DEF Holds
    <2>2. In(x, parts[j])
      BY <1>5, <2>1
    <2> QED BY <2>2 DEF In
  <1>9. ASSUME k <= n, NEW p \in 1 .. k PROVE Len(parts[p]) > 0
    <2>1. Len(s[p].items) > 0
      BY <1>2, <1>4, <1>9, NoneIsEmpty
    <2> QED BY <1>5, <2>1
  <1>10. ASSUME even, NEW p \in 1 .. k, NEW q \in 1 .. k
         PROVE  Len(parts[p]) = Len(parts[q])
    <2>1. Len(s[p].items) = Len(s[q].items)
      BY <1>2, <1>10 DEF Kept, Full
    <2> QED BY <1>5, <2>1
  <1>11. \E d \in bounds : \A p, q \in 1 .. k :
             TokensIn(parts[p], lengths) - TokensIn(parts[q], lengths) <= d
    <2>1. PICK d \in bounds : Within(s, k, d)
      BY <1>2 DEF Kept, Close
    <2> HIDE DEF bounds
    <2>2. ASSUME NEW p \in 1 .. k, NEW q \in 1 .. k
          PROVE  TokensIn(parts[p], lengths) - TokensIn(parts[q], lengths) <= d
      <3>1. s[p].sum - s[q].sum <= d
        BY <2>1 DEF Within
      <3> QED BY <1>5, <3>1
    <2> QED BY <2>2
  <1> QED BY <1>6, <1>7, <1>8, <1>9, <1>10, <1>11 DEF AreShares, parts

-----------------------------------------------------------------------------
(* The micro-batches.                                                       *)
AreMicroBatches(parts, n, num) ==
    /\ parts \in Seq(Seq(1 .. n))
    /\ Len(parts) = num
    /\ Distinct(parts)
    /\ Covers(parts, n)
    /\ \A p \in 1 .. num : Len(parts[p]) > 0

(* Sorting the micro-batches keeps what is said of them.                    *)
LEMMA MovedAreMicroBatches ==
  ASSUME NEW n \in Nat, NEW num \in Nat, NEW parts, AreMicroBatches(parts, n, num),
         NEW place, Permutes(place, num)
  PROVE  AreMicroBatches(Reorder(parts, place), n, num)
PROOF
  <1> DEFINE moved == Reorder(parts, place)
             A == Seq(1 .. n)
  <1>1. /\ parts \in Seq(A) /\ Len(parts) = num
        /\ \A i \in 1 .. num : place[i] \in 1 .. num
        /\ \A i, j \in 1 .. num : place[i] = place[j] => i = j
        /\ \A j \in 1 .. num : \E i \in 1 .. num : place[i] = j
        /\ DOMAIN place = 1 .. num
    BY DEF AreMicroBatches, Permutes
  <1>2. moved = [i \in 1 .. num |-> parts[place[i]]]
    BY <1>1 DEF Reorder
  <1> HIDE DEF moved, A
  <1>3. moved \in Seq(A) /\ Len(moved) = num
        /\ \A i \in 1 .. num : moved[i] = parts[place[i]]
    <2>1. moved \in [1 .. num -> A]
      BY <1>1, <1>2
    <2>2. moved \in Seq(A) /\ Len(moved) = num
      BY <2>1, FunctionIsSeq
    <2> QED BY <1>2, <2>2
  <1>4. Distinct(moved)
    <2>1. \A p \in 1 .. num : Single(parts[p])
      BY <1>1 DEF AreMicroBatches, Distinct, Single
    <2>2. \A p, q \in 1 .. num : p # q => Apart(parts[p], parts[q])
      BY <1>1 DEF AreMicroBatches, Distinct, Apart
    <2>3. \A i \in 1 .. num : Single(moved[i])
      BY <1>1, <1>3, <2>1
    <2>4. ASSUME NEW i \in 1 .. num, NEW j \in 1 .. num, i # j
          PROVE  Apart(moved[i], moved[j])
      <3>1. place[i] \in 1 .. num /\ place[j] \in 1 .. num /\ place[i] # place[j]
        BY <1>1, <2>4
      <3>2. Apart(parts[place[i]], parts[place[j]])
        BY ONLY <2>2, <3>1
      <3>3. moved[i] = parts[place[i]] /\ moved[j] = parts[place[j]]
        BY <1>3
      <3> QED BY ONLY <3>2, <3>3
    <2>5. /\ \A i \in 1 .. Len(moved) : Single(moved[i])
          /\ \A i, j \in 1 .. Len(moved) : i # j => Apart(moved[i], moved[j])
      BY ONLY <1>3, <2>3, <2>4
    <2> QED BY ONLY <2>5, DistinctIs
  <1>5. Covers(moved, n)
    <2> SUFFICES ASSUME NEW x \in 1 .. n
                 PROVE  \E i \in 1 .. num : \E a \in 1 .. Len(moved[i]) : moved[i][a] = x
      BY <1>3 DEF Covers
    <2>1. PICK j \in 1 .. num : \E a \in 1 .. Len(parts[j]) : parts[j][a] = x
      BY <1>1 DEF AreMicroBatches, Covers
    <2>2. PICK i \in 1 .. num : place[i] = j
      BY <1>1
    <2>3. moved[i] = parts[j]
      BY <1>3, <2>2
    <2> QED BY <2>1, <2>3
  <1>6. \A i \in 1 .. num : Len(moved[i]) > 0
    BY <1>1, <1>3 DEF AreMicroBatches
  <1> QED BY <1>3, <1>4, <1>5, <1>6 DEF AreMicroBatches, A, moved

(* They are told apart by their work and their first position.              *)
LEMMA MostWorkFirstIsOrder ==
  ASSUME NEW lengths \in Seq(Nat), NEW num \in Nat, NEW parts,
         AreMicroBatches(parts, Len(lengths), num)
  PROVE  StrictOrder(1 .. num, MostWorkFirst(parts, lengths))
PROOF
  <1> DEFINE n == Len(lengths)
             order == MostWorkFirst(parts, lengths)
             f == [j \in 1 .. num |-> SquaresIn(parts[j], lengths)]
             g == [j \in 1 .. num |-> parts[j][1]]
             h == [j \in 1 .. num |-> 0]
             squares == [i \in DOMAIN lengths |-> lengths[i] * lengths[i]]
  <1>1. /\ parts \in Seq(Seq(1 .. n)) /\ Len(parts) = num /\ DOMAIN parts = 1 .. num
        /\ Distinct(parts) /\ \A p \in 1 .. num : Len(parts[p]) > 0
    BY DEF AreMicroBatches
  <1>2. squares \in Seq(Nat)
    <2>1. n \in Nat /\ DOMAIN lengths = 1 .. n /\ \A i \in 1 .. n : lengths[i] \in Nat
      OBVIOUS
    <2>2. \A i \in 1 .. n : lengths[i] * lengths[i] \in Nat
      BY <2>1
    <2>3. squares \in [1 .. n -> Nat]
      BY <2>1, <2>2
    <2> HIDE DEF squares, n
    <2> QED BY <2>1, <2>3, FunctionIsSeq
  <1>3. ASSUME NEW j \in 1 .. num
        PROVE  /\ f[j] \in Nat /\ g[j] \in Nat /\ h[j] \in Nat
               /\ f[j] = SquaresIn(parts[j], lengths) /\ g[j] = parts[j][1]
    <2>1. SquaresIn(parts[j], lengths) \in Nat
      BY <1>2, SumIsNat DEF SquaresIn
    <2>2. parts[j] \in Seq(1 .. n) /\ 1 \in 1 .. Len(parts[j])
      BY <1>1
    <2>3. parts[j][1] \in 1 .. n
      BY <2>2
    <2> QED BY <2>1, <2>3
  <1>4. f \in [1 .. num -> Nat] /\ g \in [1 .. num -> Nat] /\ h \in [1 .. num -> Nat]
    BY <1>3
  <1>5. ASSUME NEW i \in 1 .. num, NEW j \in 1 .. num, i # j PROVE g[i] # g[j]
    <2>1. 1 \in 1 .. Len(parts[i]) /\ 1 \in 1 .. Len(parts[j])
      BY <1>1
    <2>2. parts[i][1] # parts[j][1]
      BY <1>1, <1>5, <2>1 DEF Distinct
    <2> QED BY <1>3, <2>2
  <1>6. ASSUME NEW i \in 1 .. num, NEW j \in 1 .. num
        PROVE  <<i, j>> \in order <=> f[i] > f[j] \/ (f[i] = f[j] /\ g[i] > g[j])
    <2>1. <<i, j>> \in order <=>
              \/ SquaresIn(parts[i], lengths) > SquaresIn(parts[j], lengths)
              \/ /\ SquaresIn(parts[i], lengths) = SquaresIn(parts[j], lengths)
                 /\ MinOrZero(parts[i]) > MinOrZero(parts[j])
      BY <1>1 DEF MostWorkFirst, PositionPairs
    <2>2. ASSUME NEW k \in 1 .. num PROVE MinOrZero(parts[k]) = parts[k][1]
      <3>1. parts[k] # <<>>
        BY <1>1
      <3> QED BY ONLY <3>1 DEF MinOrZero
    <2> HIDE DEF f, g, order
    <2> QED BY <1>3, <2>1, <2>2
  <1>7. \A i \in 1 .. num : h[i] = 0
    OBVIOUS
  <1> HIDE DEF f, g, h, order
  <1>8. ASSUME NEW i \in 1 .. num, NEW j \in 1 .. num
        PROVE  <<i, j>> \in order <=> \/ Precedes(f, g, h, i, j)
                                      \/ ~Precedes(f, g, h, j, i) /\ i < j
    <2>1. Precedes(f, g, h, i, j) <=> <<i, j>> \in order
      BY <1>6, <1>7 DEF Precedes, Above
    <2>2. ~Precedes(f, g, h, j, i) /\ i < j => <<i, j>> \in order
      <3>1. i < j => g[i] # g[j]
        BY <1>5
      <3>2. Precedes(f, g, h, j, i) <=> f[j] > f[i] \/ (f[j] = f[i] /\ g[j] > g[i])
        BY <1>7 DEF Precedes, Above
      <3>3. f[i] \in Nat /\ f[j] \in Nat /\ g[i] \in Nat /\ g[j] \in Nat
        BY <1>3
      <3> QED BY <1>6, <3>1, <3>2, <3>3
    <2> QED BY <2>1, <2>2
  <1>9. StrictOrder(1 .. num, order)
    BY <1>4, <1>8, KeysOrder
  <1> QED BY <1>9 DEF order

(* Tokens that differ by at most some length.                               *)
CloseParts(parts, lengths, num) ==
    \E d \in Range(lengths) : \A p, q \in 1 .. num :
        TokensIn(parts[p], lengths) - TokensIn(parts[q], lengths) <= d

(* What rearrange_micro_batches makes of the positions of a rank, as long   *)
(* as it is asked for no more micro-batches than there are positions.       *)
THEOREM MicroBatchesAreShares ==
  ASSUME NEW lengths \in Seq(Nat \ {0}), NEW num \in 1 .. Len(lengths)
  PROVE  /\ AreMicroBatches(MicroBatches(lengths, num), Len(lengths), num)
         /\ CloseParts(MicroBatches(lengths, num), lengths, num)
PROOF
  <1> DEFINE n == Len(lengths)
             parts == Partitions(lengths, num, FALSE)
             order == MostWorkFirst(parts, lengths)
             place == InOrder(1 .. num, order)
  <1>1. n \in Nat /\ n > 0 /\ num \in Nat \ {0} /\ num <= n /\ lengths \in Seq(Nat)
    OBVIOUS
  <1>2. AreShares(parts, lengths, num, FALSE)
    BY <1>1, PartitionsAreShares
  <1> HIDE DEF parts
  <1>3. AreMicroBatches(parts, n, num)
    BY <1>1, <1>2 DEF AreShares, AreMicroBatches
  <1>4. StrictOrder(1 .. num, order)
    BY <1>1, <1>3, MostWorkFirstIsOrder
  <1> HIDE DEF order
  <1>5. Permutes(place, num)
    BY <1>1, <1>4, OrderOfPositions DEF PutsInOrder
  <1>6. DOMAIN parts = 1 .. num
    BY <1>3 DEF AreMicroBatches
  <1>7. MicroBatches(lengths, num) = Reorder(parts, place)
    BY <1>6 DEF MicroBatches, parts, order
  <1> HIDE DEF place, n
  <1>8. AreMicroBatches(Reorder(parts, place), n, num)
    BY <1>1, <1>3, <1>5, MovedAreMicroBatches
  <1>9. CloseParts(Reorder(parts, place), lengths, num)
    <2>1. PICK d \in Range(lengths) : \A p, q \in 1 .. num :
              TokensIn(parts[p], lengths) - TokensIn(parts[q], lengths) <= d
      BY <1>2 DEF AreShares, Bounds
    <2>2. ASSUME NEW p \in 1 .. num
          PROVE  place[p] \in 1 .. num /\ Reorder(parts, place)[p] = parts[place[p]]
      BY <1>5 DEF Permutes, Reorder
    <2>3. ASSUME NEW p \in 1 .. num, NEW q \in 1 .. num
          PROVE  TokensIn(Reorder(parts, place)[p], lengths)
                   - TokensIn(Reorder(parts, place)[q], lengths) <= d
      BY <2>1, <2>2
    <2> QED BY <2>3 DEF CloseParts
  <1> QED BY <1>7, <1>8, <1>9 DEF n

(* A rank never asks for more micro-batches than it has rows.               *)
LEMMA NumMicroBatchesIs ==
  ASSUME NEW lengths \in Seq(Nat \ {0}), Len(lengths) > 0, NEW max \in Nat \ {0}
  PROVE  NumMicroBatches(lengths, max) \in 1 .. Len(lengths)
PROOF
  <1> DEFINE n == Len(lengths)
             t == SumOver(lengths, DOMAIN lengths)
             q == (t + max - 1) \div max
  <1>1. n \in Nat /\ n > 0 /\ lengths \in Seq(Nat)
    OBVIOUS
  <1>2. t \in Nat /\ t > 0
    <2>1. 1 \in 1 .. Len(lengths) /\ 1 \in DOMAIN lengths
      OBVIOUS
    <2> QED BY <1>1, <2>1, SumIsNat, SumIsPositive
  <1> HIDE DEF t, n
  <1>3. q \in Nat /\ q >= 1
    <2> DEFINE a == t + max - 1
               r == a % max
    <2>1. a \in Nat /\ a >= max
      BY <1>2
    <2>2. a = max * q + r /\ r \in 0 .. max - 1 /\ q \in Nat
      <3> HIDE DEF a
      <3>1. a = max * (a \div max) + (a % max) /\ a % max \in 0 .. max - 1
            /\ a \div max \in Nat
        BY <2>1, DivMod
      <3> QED BY <3>1 DEF a
    <2> HIDE DEF a, q, r
    <2>3. q # 0
      <3> SUFFICES ASSUME q = 0 PROVE FALSE
        OBVIOUS
      <3>1. max * q = 0
        OBVIOUS
      <3> QED BY <2>1, <2>2, <3>1
    <2> QED BY <2>2, <2>3
  <1>4. NumMicroBatches(lengths, max) = IF n < q THEN n ELSE q
    BY DEF NumMicroBatches, Smaller, CeilDiv, n, t
  <1> HIDE DEF q
  <1>5. NumMicroBatches(lengths, max) \in 1 .. n
    BY <1>1, <1>3, <1>4
  <1> QED BY <1>5 DEF n

(* Micro-batches of at least m tokens, one of them with e more, have        *)
(* together as many tokens.                                                 *)
LEMMA TokensAddUp ==
  ASSUME NEW lengths \in Seq(Nat), NEW num \in Nat, NEW parts,
         AreMicroBatches(parts, Len(lengths), num),
         NEW m \in Nat, NEW e \in Nat, NEW x \in 1 .. num,
         \A p \in 1 .. num : TokensIn(parts[p], lengths) >= m,
         TokensIn(parts[x], lengths) >= m + e
  PROVE  SumOver(lengths, DOMAIN lengths) >= num * m + e
PROOF
  <1> DEFINE n == Len(lengths)
             N == 1 .. n
             R(p) == Range(parts[p])
             U(j) == UNION {R(p) : p \in 1 .. j}
             extra(j) == IF x <= j THEN e ELSE 0
             Good == {j \in 0 .. num : SumOver(lengths, U(j)) >= j * m + extra(j)}
  <1>1. ASSUME NEW p \in 1 .. num
        PROVE  R(p) \in SUBSET N /\ \A y : y \in R(p) <=> In(y, parts[p])
    <2> DEFINE A == Seq(N)
    <2>1. parts \in Seq(A) /\ Len(parts) = num
      BY DEF AreMicroBatches
    <2> HIDE DEF A
    <2>2. parts[p] \in A
      BY <2>1
    <2> HIDE DEF N
    <2>3. parts[p] \in Seq(N)
      BY <2>2 DEF A
    <2> QED BY <2>3, RangeIs
  <1>2. ASSUME NEW p \in 1 .. num, NEW q \in 1 .. num, p # q
        PROVE  R(p) \cap R(q) = {}
    <2> SUFFICES ASSUME NEW y, In(y, parts[p]), In(y, parts[q]) PROVE FALSE
      BY <1>1
    <2>1. Len(parts) = num /\ Distinct(parts)
      BY DEF AreMicroBatches
    <2> QED BY <1>2, <2>1 DEF In, Distinct
  <1>3. UNION {R(p) : p \in 1 .. num} = DOMAIN lengths
    <2>1. DOMAIN lengths = N
      OBVIOUS
    <2>2. ASSUME NEW y \in N PROVE \E p \in 1 .. num : In(y, parts[p])
      BY DEF AreMicroBatches, Covers, In
    <2> HIDE DEF R, N
    <2> QED BY <1>1, <2>1, <2>2
  <1> HIDE DEF R
  <1>4. 0 \in Good
    <2>1. U(0) = {} /\ extra(0) = 0
      OBVIOUS
    <2>2. SumOver(lengths, {}) = 0
      BY SumOfNone
    <2>3. 0 * m + 0 = 0 /\ 0 \in 0 .. num
      OBVIOUS
    <2> HIDE DEF U, extra
    <2>4. SumOver(lengths, U(0)) = 0 /\ 0 * m + extra(0) = 0
      BY <2>1, <2>2, <2>3
    <2>5. SumOver(lengths, U(0)) >= 0 * m + extra(0)
      BY <2>4
    <2> QED BY <2>3, <2>5
  <1>5. ASSUME NEW j \in 1 .. num, j - 1 \in Good PROVE j \in Good
    <2> DEFINE a == SumOver(lengths, U(j - 1))
               b == SumOver(lengths, R(j))
               c == (j - 1) * m
    <2>1. U(j) = U(j - 1) \cup R(j)
      <3>1. 1 .. j = (1 .. j - 1) \cup {j}
        OBVIOUS
      <3> QED BY <3>1
    <2>2. U(j - 1) \cap R(j) = {}
      <3>1. \A p \in 1 .. j - 1 : p \in 1 .. num /\ p # j
        OBVIOUS
      <3> QED BY <1>2, <3>1
    <2> HIDE DEF U
    <2>3. SumOver(lengths, U(j)) = a + b
      BY <2>1, <2>2, SumOfUnion
    <2>4. a \in Nat /\ b \in Nat
      BY SumIsNat
    <2>5. b >= m /\ (j = x => b >= m + e)
      BY DEF R, TokensIn
    <2>6. c \in Nat /\ j * m = c + m
      <3>1. j - 1 \in Nat
        OBVIOUS
      <3>2. j * m = ((j - 1) + 1) * m
        OBVIOUS
      <3> QED BY <3>1, <3>2
    <2>7. a >= c + extra(j - 1)
      BY <1>5
    <2> HIDE DEF a, b, c
    <2>8. a + b >= (c + m) + extra(j)
      <3>1. CASE j = x
        BY <2>4, <2>5, <2>6, <2>7, <3>1
      <3>2. CASE j # x
        <4>1. extra(j) = extra(j - 1) /\ extra(j) \in Nat
          BY <3>2
        <4> HIDE DEF extra
        <4> QED BY <2>4, <2>5, <2>6, <2>7, <4>1
      <3> QED BY <3>1, <3>2
    <2> HIDE DEF extra
    <2>9. SumOver(lengths, U(j)) >= j * m + extra(j)
      BY <2>3, <2>6, <2>8
    <2> QED BY <2>9
  <1>6. Good = 0 .. num
    <2>1. Good \in SUBSET (0 .. num)
      OBVIOUS
    <2> HIDE DEF Good
    <2> QED BY <1>4, <1>5, <2>1, UpTo
  <1>7. num \in Good
    <2> HIDE DEF Good
    <2> QED BY <1>6
  <1>8. extra(num) = e
    OBVIOUS
  <1>9. SumOver(lengths, U(num)) >= num * m + extra(num)
    BY <1>7
  <1>10. U(num) = DOMAIN lengths
    BY <1>3
  <1> HIDE DEF U, extra, Good
  <1> QED BY <1>8, <1>9, <1>10

(* The number of micro-batches a rank wants is enough, on average, when no  *)
(* row is longer than max_token_len, as rearrange_micro_batches asserts.    *)
LEMMA WantedIsEnough ==
  ASSUME NEW lengths \in Seq(Nat \ {0}), NEW max \in Nat \ {0},
         \A i \in 1 .. Len(lengths) : lengths[i] <= max
  PROVE  SumOver(lengths, DOMAIN lengths) <= NumMicroBatches(lengths, max) * max
PROOF
  <1> DEFINE n == Len(lengths)
             t == SumOver(lengths, DOMAIN lengths)
             q == (t + max - 1) \div max
  <1>1. n \in Nat /\ lengths \in Seq(Nat) /\ DOMAIN lengths = 1 .. n
    OBVIOUS
  <1>2. t \in Nat
    BY <1>1, SumIsNat
  <1>3. t <= n * max
    <2>1. PICK f : SumsBy(lengths, DOMAIN lengths, f) /\ t = f[n]
      BY <1>1, SumSteps
    <2>2. /\ f[0] = 0
          /\ \A i \in 0 .. n : f[i] \in Nat
          /\ \A i \in 1 .. n : f[i] = f[i - 1] + lengths[i]
                               /\ lengths[i] \in Nat /\ lengths[i] <= max
      <3>1. f \in [0 .. n -> Nat] /\ f[0] = 0
            /\ \A i \in 1 .. n : f[i] = IF i \in DOMAIN lengths THEN f[i - 1] + lengths[i]
                                        ELSE f[i - 1]
        BY <2>1 DEF SumsBy
      <3>2. \A i \in 1 .. n : lengths[i] \in Nat /\ lengths[i] <= max
        OBVIOUS
      <3> QED BY <1>1, <3>1, <3>2
    <2> DEFINE Good == {i \in 0 .. n : f[i] <= i * max}
    <2> HIDE DEF n, t
    <2>3. 0 \in Good
      BY <1>1, <2>2
    <2>4. ASSUME NEW i \in 1 .. n, i - 1 \in Good PROVE i \in Good
      <3> DEFINE a == f[i - 1]
                 b == (i - 1) * max
                 l == lengths[i]
      <3>1. a \in Nat /\ l \in Nat /\ l <= max /\ f[i] = a + l /\ a <= b
        BY <1>1, <2>2, <2>4
      <3>2. b \in Nat /\ i * max = b + max
        <4>1. i - 1 \in Nat /\ i \in Nat
          BY <1>1
        <4>2. i * max = ((i - 1) + 1) * max
          BY <4>1
        <4> QED BY <4>1, <4>2
      <3> HIDE DEF a, b, l
      <3>3. f[i] <= i * max
        BY <3>1, <3>2
      <3> QED BY <1>1, <3>3
    <2>5. Good = 0 .. n
      <3>1. Good \in SUBSET (0 .. n)
        OBVIOUS
      <3> HIDE DEF Good
      <3> QED BY <1>1, <2>3, <2>4, <3>1, UpTo
    <2>6. n \in Good
      <3> HIDE DEF Good
      <3> QED BY <1>1, <2>5
    <2> QED BY <2>1, <2>6
  <1> HIDE DEF n, t
  <1>4. t <= q * max
    <2> DEFINE a == t + max - 1
               b == max * q
               r == a % max
    <2>1. a \in Nat /\ a = t + max - 1
      BY <1>2
    <2>2. a = b + r /\ r \in 0 .. max - 1 /\ q \in Nat
      <3> HIDE DEF a
      <3>1. a = max * (a \div max) + (a % max) /\ a % max \in 0 .. max - 1
            /\ a \div max \in Nat
        BY <2>1, DivMod
      <3> QED BY <3>1 DEF a
    <2>3. b = q * max /\ b \in Nat
      <3> HIDE DEF a, q, r
      <3> QED BY <2>2
    <2> HIDE DEF a, b, q, r
    <2>4. t <= b
      BY <1>2, <2>1, <2>2, <2>3
    <2> QED BY <2>3, <2>4
  <1>5. NumMicroBatches(lengths, max) = IF n < q THEN n ELSE q
    BY DEF NumMicroBatches, Smaller, CeilDiv, n, t
  <1> HIDE DEF q
  <1> QED BY <1>3, <1>4, <1>5 DEF t

(* So no micro-batch goes beyond max_token_len by a whole row: all of them  *)
(* would have max_token_len tokens then, and one of them more.              *)
LEMMA MicroBatchesNearFit ==
  ASSUME NEW lengths \in Seq(Nat \ {0}), NEW max \in Nat \ {0},
         \A i \in 1 .. Len(lengths) : lengths[i] <= max,
         NEW num \in 1 .. Len(lengths), NumMicroBatches(lengths, max) <= num,
         NEW p \in 1 .. num
  PROVE  \E i \in 1 .. Len(lengths) :
             TokensIn(MicroBatches(lengths, num)[p], lengths) < max + lengths[i]
PROOF
  <1> DEFINE parts == MicroBatches(lengths, num)
             T(q) == TokensIn(parts[q], lengths)
             t == SumOver(lengths, DOMAIN lengths)
             w == NumMicroBatches(lengths, max)
  <1>1. lengths \in Seq(Nat) /\ num \in Nat /\ Len(lengths) > 0
    OBVIOUS
  <1>2. AreMicroBatches(parts, Len(lengths), num) /\ CloseParts(parts, lengths, num)
    BY MicroBatchesAreShares
  <1> HIDE DEF parts
  <1>3. PICK d \in Range(lengths) : \A y, z \in 1 .. num : T(y) - T(z) <= d
    BY <1>2 DEF CloseParts
  <1>4. PICK i \in 1 .. Len(lengths) : lengths[i] = d
    BY <1>3 DEF Range
  <1>5. d \in Nat /\ d > 0
    <2>1. lengths[i] \in Nat \ {0}
      OBVIOUS
    <2> QED BY <1>4, <2>1
  <1>6. \A q : T(q) \in Nat
    BY <1>1, SumIsNat DEF TokensIn
  <1>7. T(p) < max + d
    <2> SUFFICES ASSUME T(p) >= max + d PROVE FALSE
      BY <1>5, <1>6
    <2>1. ASSUME NEW q \in 1 .. num PROVE T(q) >= max
      <3>1. T(p) - T(q) <= d
        BY <1>3
      <3> HIDE DEF T
      <3> QED BY <1>5, <1>6, <3>1
    <2>2. t >= num * max + d
      BY <1>1, <1>2, <1>5, <2>1, TokensAddUp
    <2>3. t <= w * max
      BY WantedIsEnough
    <2>4. w \in Nat /\ w <= num
      BY <1>1, NumMicroBatchesIs
    <2>5. t \in Nat
      BY <1>1, SumIsNat
    <2> HIDE DEF t, w
    <2>6. w * max <= num * max
      <3> DEFINE a == w * max
                 b == (num - w) * max
      <3>1. num - w \in Nat /\ num * max = a + b
        BY <1>1, <2>4
      <3>2. a \in Nat /\ b \in Nat
        BY <2>4, <3>1
      <3> HIDE DEF a, b
      <3>3. a <= num * max
        BY <3>1, <3>2
      <3> QED BY <3>3 DEF a
    <2> DEFINE a == w * max
               b == num * max
    <2>7. a <= b /\ t <= a /\ t >= b + d /\ a \in Nat /\ b \in Nat
      BY <1>1, <2>2, <2>3, <2>4, <2>6
    <2> HIDE DEF a, b
    <2> QED BY <1>5, <2>5, <2>7
  <1> QED BY <1>4, <1>7 DEF parts

(* Without dynamic micro-batches a rank cuts its positions in turn.         *)
LEMMA SplitsAreMicroBatches ==
  ASSUME NEW n \in Nat \ {0}, NEW size \in Nat \ {0}, NEW rows,
         rows = [i \in 1 .. n |-> i]
  PROVE  /\ AreMicroBatches(Split(rows, size), n, CeilDiv(n, size))
         /\ FlattenSeq(Split(rows, size)) = rows
         /\ CeilDiv(n, size) \in 1 .. n
PROOF
  <1> DEFINE N == 1 .. n
             pieces == Split(rows, size)
             c == CeilDiv(n, size)
  <1>1. rows \in Seq(N) /\ Len(rows) = n /\ \A i \in 1 .. n : rows[i] = i
    <2>1. rows \in [1 .. n -> N]
      OBVIOUS
    <2> HIDE DEF N
    <2> QED BY <2>1, FunctionIsSeq
  <1>2. Cut(pieces, rows, size, N)
    <2> HIDE DEF N
    <2> QED BY <1>1, SplitIs
  <1>3. /\ pieces \in Seq(Seq(N)) /\ Len(pieces) = c
        /\ FlattenSeq(pieces) = rows
        /\ \A j \in 1 .. c : \A i \in 1 .. Len(pieces[j]) :
               (j - 1) * size + i \in 1 .. n
               /\ pieces[j][i] = rows[(j - 1) * size + i]
    <2> HIDE DEF N, pieces
    <2> QED BY <1>1, <1>2 DEF Cut, CeilDiv
  <1>4. c \in Nat /\ (c - 1) * size < n /\ c * size >= n /\ c >= 1
    <2> DEFINE a == n + size - 1
               r == a % size
    <2>1. a = size * c + r /\ r \in 0 .. size - 1 /\ c \in Nat /\ a \in Nat
      <3>1. a \in Nat
        OBVIOUS
      <3> HIDE DEF a
      <3>2. a = size * (a \div size) + (a % size) /\ a % size \in 0 .. size - 1
            /\ a \div size \in Nat
        BY <3>1, DivMod
      <3> QED BY <3>1, <3>2 DEF CeilDiv, a
    <2> DEFINE p == size * c
    <2>2. p \in Nat /\ n + size - 1 = p + r
      BY <2>1
    <2>3. (c - 1) * size = p - size /\ c * size = p
      BY <2>1
    <2>4. c # 0
      <3> SUFFICES ASSUME c = 0 PROVE FALSE
        OBVIOUS
      <3>1. p = 0
        OBVIOUS
      <3> HIDE DEF p, r, c
      <3> QED BY <2>1, <2>2, <3>1
    <2> HIDE DEF p, r, c
    <2> QED BY <2>1, <2>2, <2>3, <2>4
  <1>5. c <= n
    <2> SUFFICES ASSUME n < c PROVE FALSE
      BY <1>4
    <2> DEFINE p == (c - 1) * size
    <2>1. p = (c - 1) + (c - 1) * (size - 1)
      BY <1>4
    <2>2. (c - 1) * (size - 1) \in Nat
      <3>1. c - 1 \in Nat /\ size - 1 \in Nat
        BY <1>4
      <3> HIDE DEF c
      <3> QED BY <3>1
    <2>3. p < n
      BY <1>4
    <2> HIDE DEF p, c
    <2> QED BY <1>4, <2>1, <2>2, <2>3
  <1>6. ASSUME NEW j \in 1 .. c
        PROVE  /\ Len(pieces[j]) > 0
               /\ (j - 1) * size + Len(pieces[j]) = IF j * size < n THEN j * size ELSE n
    <2> DEFINE lo == (j - 1) * size
               end == IF j * size < n THEN j * size ELSE n
    <2>1. lo \in Nat /\ j * size = lo + size
      <3>1. j - 1 \in Nat
        BY <1>4
      <3> HIDE DEF c
      <3> QED BY <3>1
    <2>2. lo < n
      <3>1. (c - 1) * size = lo + (c - j) * size
        BY <1>4
      <3>2. (c - j) * size \in Nat
        <4>1. c - j \in Nat
          BY <1>4
        <4> HIDE DEF c
        <4> QED BY <4>1
      <3> HIDE DEF c, lo
      <3> QED BY <1>4, <2>1, <3>1, <3>2
    <2>3. end \in Nat /\ lo + 1 <= end /\ end <= n
      <3> HIDE DEF lo
      <3> QED BY <2>1, <2>2
    <2>4. pieces[j] = SubSeq(rows, lo + 1, end)
      BY <1>1, <1>4 DEF Split, CeilDiv
    <2> HIDE DEF lo, end
    <2>5. Len(pieces[j]) = end - lo
      BY <1>1, <2>1, <2>3, <2>4
    <2>6. Len(pieces[j]) > 0 /\ lo + Len(pieces[j]) = end
      BY <2>1, <2>3, <2>5
    <2> QED BY <2>6 DEF lo, end
  <1>7. Distinct(pieces)
    <2> SUFFICES ASSUME NEW i \in 1 .. Len(pieces), NEW j \in 1 .. Len(pieces),
                        NEW a \in 1 .. Len(pieces[i]), NEW b \in 1 .. Len(pieces[j]),
                        pieces[i][a] = pieces[j][b]
                 PROVE  i = j /\ a = b
      BY DEF Distinct
    <2>5. i \in 1 .. c /\ j \in 1 .. c
      BY <1>3
    <2>1. (i - 1) * size + a = (j - 1) * size + b
      <3> DEFINE p == (i - 1) * size + a
                 q == (j - 1) * size + b
      <3>1. /\ p \in 1 .. n /\ pieces[i][a] = rows[p]
            /\ q \in 1 .. n /\ pieces[j][b] = rows[q]
        <4> HIDE DEF pieces, c
        <4> QED BY <1>3, <2>5
      <3> HIDE DEF p, q, pieces
      <3>2. rows[p] = p /\ rows[q] = q
        BY <1>1, <3>1
      <3>3. p = q
        BY <3>1, <3>2
      <3> QED BY <3>3 DEF p, q
    <2>2. a \in 1 .. size /\ b \in 1 .. size
      <3>1. ASSUME NEW h \in 1 .. c PROVE Len(pieces[h]) <= size /\ Len(pieces[h]) \in Nat
        <4> DEFINE lo == (h - 1) * size
                   l == Len(pieces[h])
        <4>1. h - 1 \in Nat /\ pieces[h] \in Seq(N)
          BY <1>3, <1>4
        <4>2. lo \in Nat /\ h * size = lo + size /\ l \in Nat
          BY <4>1
        <4>3. lo + l = IF h * size < n THEN h * size ELSE n
          BY <1>6
        <4> HIDE DEF lo, l
        <4>4. l <= size
          BY <4>2, <4>3
        <4> QED BY <4>2, <4>4 DEF l
      <3> HIDE DEF pieces, c
      <3> QED BY <2>5, <3>1
    <2>3. i = j
      <3>1. i \in Nat \ {0} /\ j \in Nat \ {0}
        BY <1>4, <2>5
      <3> HIDE DEF pieces, c
      <3> QED BY <2>1, <2>2, <3>1, SlotIsUnique
    <2> DEFINE lo == (i - 1) * size
    <2>4. lo \in Nat /\ lo + a = lo + b
      <3>1. i - 1 \in Nat
        BY <1>4, <2>5
      <3> HIDE DEF pieces, c
      <3> QED BY <2>1, <2>3, <3>1
    <2> HIDE DEF lo, pieces
    <2> QED BY <2>2, <2>3, <2>4
  <1>8. Covers(pieces, n)
    <2>1. Permutes(rows, n)
      BY <1>1 DEF Permutes
    <2> SUFFICES ASSUME NEW x \in 1 .. n
                 PROVE  \E i \in 1 .. Len(pieces) :
                            \E a \in 1 .. Len(pieces[i]) : pieces[i][a] = x
      BY DEF Covers
    <2> DEFINE q == (x - 1) \div size
               r == (x - 1) % size
    <2>2. x - 1 = size * q + r /\ r \in 0 .. size - 1 /\ q \in Nat
      <3>1. x - 1 \in Nat
        OBVIOUS
      <3> QED BY <3>1, DivMod
    <2> HIDE DEF q, r
    <2>3. q < c
      <3> SUFFICES ASSUME c <= q PROVE FALSE
        BY <1>4, <2>2
      <3>1. size * q = c * size + (q - c) * size
        BY <1>4, <2>2
      <3>2. (q - c) * size \in Nat
        <4>1. q - c \in Nat
          BY <1>4, <2>2
        <4> HIDE DEF c
        <4> QED BY <4>1
      <3> DEFINE a == size * q
                 b == c * size
                 d == (q - c) * size
      <3>3. a = b + d /\ d \in Nat /\ b >= n /\ x - 1 = a + r /\ b \in Int
        BY <1>4, <2>2, <3>1, <3>2
      <3> HIDE DEF a, b, d, c
      <3> QED BY <2>2, <3>3
    <2>4. q + 1 \in 1 .. c /\ (q + 1) - 1 = q
      BY <1>4, <2>2, <2>3
    <2> DEFINE lo == q * size
               l == Len(pieces[q + 1])
    <2>5. lo + l = (IF (q + 1) * size < n THEN (q + 1) * size ELSE n)
      BY <1>6, <2>4
    <2>6. lo \in Nat /\ (q + 1) * size = lo + size /\ x - 1 = lo + r
      BY <2>2
    <2>7. l \in Nat
      BY <1>3, <2>4
    <2>8. r + 1 \in 1 .. l
      <3> DEFINE hi == (q + 1) * size
      <3>1. lo + l = (IF hi < n THEN hi ELSE n) /\ hi = lo + size /\ x - 1 = lo + r
            /\ lo \in Nat /\ l \in Nat /\ r \in 0 .. size - 1
        BY <2>2, <2>5, <2>6, <2>7
      <3> HIDE DEF lo, l, hi
      <3> QED BY <3>1
    <2>9. pieces[q + 1][r + 1] = rows[lo + (r + 1)]
      <3> DEFINE j == q + 1
                 i == r + 1
      <3>1. j \in 1 .. c /\ i \in 1 .. Len(pieces[j]) /\ j - 1 = q
        BY ONLY <2>4, <2>8 DEF l
      <3> HIDE DEF pieces, c, i, j
      <3>2. pieces[j][i] = rows[(j - 1) * size + i]
        BY ONLY <1>3, <3>1
      <3>3. pieces[j][i] = rows[lo + i]
        BY ONLY <3>1, <3>2 DEF lo
      <3> QED BY ONLY <3>3 DEF i, j
    <2>10. lo + (r + 1) = x
      <3> HIDE DEF lo
      <3> QED BY <2>2, <2>6
    <2>11. q + 1 \in 1 .. Len(pieces) /\ rows[x] = x
      BY <1>1, <1>3, <2>4
    <2> HIDE DEF pieces, lo
    <2> QED BY <2>8, <2>9, <2>10, <2>11
  <1>9. \A j \in 1 .. c : Len(pieces[j]) > 0
    BY <1>6
  <1>10. c \in 1 .. n
    BY <1>4, <1>5
  <1> HIDE DEF pieces, c
  <1>11. AreMicroBatches(pieces, n, c)
    BY <1>3, <1>7, <1>8, <1>9 DEF AreMicroBatches
  <1> QED BY <1>3, <1>10, <1>11 DEF pieces, c

(* The largest of a set of numbers.                                         *)
LEMMA MaxIs ==
  ASSUME NEW n \in Nat, NEW S \in SUBSET (0 .. n), S # {}
  PROVE  Max(S) \in S /\ \A x \in S : x <= Max(S)
PROOF
  <1> DEFINE R == {m \in 0 .. n : n - m \in S}
  <1>1. PICK x0 \in S : TRUE
    OBVIOUS
  <1>2. n - x0 \in R
    BY <1>1
  <1>3. R \in SUBSET Nat /\ R # {}
    BY <1>2
  <1>4. PICK m \in R : \A x \in R : m <= x
    <2> HIDE DEF R
    <2> QED BY <1>3, LeastExists
  <1>5. n - m \in S /\ \A x \in S : x <= n - m
    <2>1. n - m \in S /\ m \in 0 .. n
      OBVIOUS
    <2>2. ASSUME NEW x \in S PROVE x <= n - m
      <3>1. x \in 0 .. n /\ n - x \in 0 .. n /\ n - (n - x) = x
        OBVIOUS
      <3>2. n - x \in R
        BY <3>1
      <3>3. m <= n - x
        BY <1>4, <3>2
      <3> QED BY <2>1, <3>1, <3>3
    <2> QED BY <2>1, <2>2
  <1>6. \E x \in S : \A y \in S : x >= y
    BY <1>5
  <1>7. Max(S) \in S /\ \A y \in S : Max(S) >= y
    BY <1>6 DEF Max
  <1> QED BY <1>7

-----------------------------------------------------------------------------
(* The ranks of a megatron mesh.                                            *)
LEMMA GrowsAtLeast ==
  ASSUME NEW c \in Nat, NEW f \in [1 .. c -> Int], \A i \in 1 .. c : f[i] >= 0,
         \A i, j \in 1 .. c : i < j => f[i] < f[j]
  PROVE  \A i \in 1 .. c : f[i] >= i - 1
PROOF
  <1> DEFINE Good == {i \in 0 .. c : i = 0 \/ f[i] >= i - 1}
  <1>1. Good \in SUBSET (0 .. c) /\ 0 \in Good
    OBVIOUS
  <1>2. ASSUME NEW i \in 1 .. c, i - 1 \in Good PROVE i \in Good
    <2>1. CASE i = 1
      BY <2>1
    <2>2. CASE i # 1
      <3>1. i - 1 \in 1 .. c /\ i - 1 < i
        BY <2>2
      <3>2. f[i - 1] < f[i] /\ f[i - 1] >= i - 2 /\ f[i - 1] \in Int /\ f[i] \in Int
        BY <1>2, <2>2, <3>1
      <3> QED BY <3>2
    <2> QED BY <2>1, <2>2
  <1>3. Good = 0 .. c
    <2> HIDE DEF Good
    <2> QED BY <1>1, <1>2, UpTo
  <1>4. ASSUME NEW i \in 1 .. c PROVE f[i] >= i - 1
    <2>1. i \in Good /\ i # 0
      <3> HIDE DEF Good
      <3> QED BY <1>3
    <2> QED BY <2>1
  <1> QED BY <1>4

(* c numbers below c that grow are 0, 1, 2 and so on.                       *)
LEMMA GrowsByOne ==
  ASSUME NEW c \in Nat, NEW f \in [1 .. c -> 0 .. c - 1],
         \A i, j \in 1 .. c : i < j => f[i] < f[j]
  PROVE  \A i \in 1 .. c : f[i] = i - 1
PROOF
  <1> DEFINE g == [i \in 1 .. c |-> c - 1 - f[c + 1 - i]]
  <1>1. \A i \in 1 .. c : f[i] \in 0 .. c - 1 /\ c + 1 - i \in 1 .. c
    OBVIOUS
  <1>2. \A i \in 1 .. c : f[i] >= i - 1
    <2>1. f \in [1 .. c -> Int] /\ \A i \in 1 .. c : f[i] >= 0
      BY <1>1
    <2> QED BY <2>1, GrowsAtLeast
  <1>3. ASSUME NEW i \in 1 .. c
        PROVE  g[i] = c - 1 - f[c + 1 - i] /\ g[i] \in Int /\ g[i] >= 0
    BY <1>1
  <1>4. ASSUME NEW i \in 1 .. c, NEW j \in 1 .. c, i < j PROVE g[i] < g[j]
    <2> DEFINE p == c + 1 - i
               q == c + 1 - j
    <2>1. p \in 1 .. c /\ q \in 1 .. c /\ q < p
      BY <1>4
    <2>2. f[q] < f[p] /\ f[q] \in 0 .. c - 1 /\ f[p] \in 0 .. c - 1
      <3> HIDE DEF p, q
      <3> QED BY <1>1, <2>1
    <2>3. g[i] = c - 1 - f[p] /\ g[j] = c - 1 - f[q]
      OBVIOUS
    <2> HIDE DEF p, q, g
    <2> QED BY <2>2, <2>3
  <1>5. g \in [1 .. c -> Int]
    BY <1>3
  <1>6. \A i \in 1 .. c : g[i] >= i - 1
    <2> HIDE DEF g
    <2> QED BY <1>3, <1>4, <1>5, GrowsAtLeast
  <1>7. ASSUME NEW i \in 1 .. c PROVE f[i] = i - 1
    <2> DEFINE p == c + 1 - i
    <2>1. p \in 1 .. c /\ c + 1 - p = i /\ p - 1 = c - i
      OBVIOUS
    <2>2. g[p] >= p - 1 /\ g[p] = c - 1 - f[c + 1 - p]
      <3> HIDE DEF p, g
      <3> QED BY <1>3, <1>6, <2>1
    <2>3. c - 1 - f[i] >= c - i
      <3> HIDE DEF p, g
      <3> QED BY <2>1, <2>2
    <2>4. f[i] \in 0 .. c - 1 /\ f[i] >= i - 1
      BY <1>1, <1>2
    <2> QED BY <2>3, <2>4
  <1> QED BY <1>7

(* Quotient and remainder are unique.                                       *)
LEMMA DivIs ==
  ASSUME NEW q \in Nat, NEW b \in Nat \ {0}, NEW r \in 0 .. b - 1
  PROVE  (b * q + r) \div b = q /\ (b * q + r) % b = r
PROOF
  <1> DEFINE a == b * q + r
             d == a \div b
             e == a % b
             x == b * q
  <1>1. x \in Nat /\ a = x + r /\ a \in Nat
    OBVIOUS
  <1>2. a = b * d + e /\ e \in 0 .. b - 1 /\ d \in Nat
    <2> HIDE DEF a
    <2> QED BY <1>1, DivMod
  <1> HIDE DEF d, e
  <1>3. ~(q < d)
    <2> SUFFICES ASSUME q < d PROVE FALSE
      OBVIOUS
    <2>1. b * d = b * q + b + b * (d - q - 1)
      BY <1>2
    <2>2. b * (d - q - 1) \in Nat
      <3>1. d - q - 1 \in Nat
        BY <1>2
      <3> QED BY <3>1
    <2> DEFINE y == b * (d - q - 1)
               z == b * d
    <2>3. z = x + b + y /\ a = z + e /\ y \in Nat
      BY <1>2, <2>1, <2>2
    <2> HIDE DEF x, y, z, a
    <2> QED BY <1>1, <1>2, <2>3
  <1>4. ~(d < q)
    <2> SUFFICES ASSUME d < q PROVE FALSE
      OBVIOUS
    <2>1. b * q = b * d + b + b * (q - d - 1)
      BY <1>2
    <2>2. b * (q - d - 1) \in Nat
      <3>1. q - d - 1 \in Nat
        BY <1>2
      <3> QED BY <3>1
    <2> DEFINE y == b * (q - d - 1)
               z == b * d
    <2>3. x = z + b + y /\ a = z + e /\ y \in Nat /\ z \in Nat
      BY <1>2, <2>1, <2>2
    <2> HIDE DEF x, y, z, a
    <2> QED BY <1>1, <1>2, <2>3
  <1>5. d = q
    BY <1>2, <1>3, <1>4
  <1>6. e = r
    <2>1. a = x + e
      BY <1>2, <1>5
    <2> HIDE DEF x, a
    <2> QED BY <1>1, <1>2, <2>1
  <1> QED BY <1>5, <1>6 DEF d, e

===============================================================================
