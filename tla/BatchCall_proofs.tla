-------------------------- MODULE BatchCall_proofs --------------------------
(***************************************************************************)
(* A call of the workers gives the driver its own rows back, for batches   *)
(* of any size, any lengths and any number of ranks.                       *)
(***************************************************************************)
EXTENDS MCBatchCall, SeqlenBalancing_proofs

-----------------------------------------------------------------------------
(* The ranks of a megatron mesh.                                            *)
IsMesh(m) ==
    /\ m.tp \in Nat \ {0} /\ m.cp \in Nat \ {0}
    /\ m.dp \in Nat \ {0} /\ m.pp \in Nat \ {0}

(* The rank that is collected for data rank e.                              *)
RankFor(m, e) == (m.tp * m.cp) * (m.dp * (m.pp - 1) + e)

(* Multiplication is associative.                                           *)
LEMMA TimesAssociates ==
  ASSUME NEW a \in Nat, NEW b \in Nat, NEW c \in Nat
  PROVE  a * (b * c) = (a * b) * c
  BY Z3

(* A rank that is collected is the one for its data rank.                   *)
LEMMA CollectedIsRankFor ==
  ASSUME NEW m, IsMesh(m), NEW r \in Nat, IsCollected(m, r)
  PROVE  DpRank(m, r) \in 0 .. m.dp - 1 /\ r = RankFor(m, DpRank(m, r))
PROOF
  <1> DEFINE t == m.tp
             u == m.cp
             d == m.dp
             a == t * u
             x == r \div t
             y == x \div u
             z == y \div d
             e == y % d
  <1>1. t \in Nat \ {0} /\ u \in Nat \ {0} /\ d \in Nat \ {0} /\ a \in Nat \ {0}
    <2>1. t \in Nat \ {0} /\ u \in Nat \ {0} /\ d \in Nat \ {0}
      BY DEF IsMesh
    <2> HIDE DEF t, u
    <2>2. t * u \in Nat /\ t * u # 0
      BY <2>1, Z3
    <2> QED BY <2>1, <2>2
  <1>2. r % t = 0 /\ x % u = 0
    BY DEF IsCollected, TpRank, CpRank
  <1>3. m.pp - 1 = r \div (t * u * d)
    BY DEF IsCollected, PpRank
  <1>3a. DpRank(m, r) = (r \div (t * u)) % d
    BY DEF DpRank
  <1> HIDE DEF t, u, d
  <1>4. r = t * x /\ x \in Nat
    BY <1>1, <1>2, DivMod
  <1> HIDE DEF x
  <1>5. x = u * y /\ y \in Nat
    BY <1>1, <1>2, <1>4, DivMod
  <1> HIDE DEF y
  <1>6. y = d * z + e /\ e \in 0 .. d - 1 /\ z \in Nat
    BY <1>1, <1>5, DivMod
  <1>7. r = y * a /\ r = a * y
    <2>1. t * (u * y) = (t * u) * y
      BY <1>1, <1>5, TimesAssociates
    <2>2. (t * u) * y = y * (t * u)
      BY <1>1, <1>5, Z3
    <2> QED BY <1>4, <1>5, <2>1, <2>2
  <1>8. r \div a = y
    <2> HIDE DEF a
    <2> QED BY <1>1, <1>5, <1>7, MultipleDiv
  <1>9. DpRank(m, r) = e
    BY <1>3a, <1>8
  <1> HIDE DEF z, e
  <1>10. a * y = (a * d) * z + a * e /\ a * e \in 0 .. a * d - 1 /\ a * d \in Nat \ {0}
    <2> HIDE DEF a
    <2>1. a * (d * z) = (a * d) * z
      BY <1>1, <1>6, TimesAssociates
    <2>2. a * (d * z + e) = a * (d * z) + a * e
      BY <1>1, <1>6, Z3
    <2>3. a * e \in Nat /\ a * e + a <= a * d /\ a * d \in Nat
      BY <1>1, <1>6, Z3
    <2> QED BY <1>1, <1>6, <2>1, <2>2, <2>3
  <1>11. r \div (a * d) = z
    <2> DEFINE b == a * d
               s == a * e
    <2> HIDE DEF b, s
    <2>1. b \in Nat \ {0} /\ s \in 0 .. b - 1 /\ a * y = b * z + s
      BY <1>10 DEF b, s
    <2>2. (b * z + s) \div b = z
      BY <1>6, <2>1, DivIs
    <2> QED BY <1>7, <2>1, <2>2 DEF b
  <1>12. z = m.pp - 1
    BY <1>3, <1>11
  <1>13. r = (t * u) * (d * (m.pp - 1) + e)
    BY <1>6, <1>7, <1>12
  <1> QED BY <1>6, <1>9, <1>13 DEF RankFor, t, u, d

(* Every data rank has one that is collected.                               *)
LEMMA RankForIsCollected ==
  ASSUME NEW m, IsMesh(m), NEW e \in 0 .. m.dp - 1
  PROVE  /\ RankFor(m, e) \in 0 .. WorldSize(m) - 1
         /\ IsCollected(m, RankFor(m, e))
         /\ DpRank(m, RankFor(m, e)) = e
PROOF
  <1> DEFINE t == m.tp
             u == m.cp
             d == m.dp
             p == m.pp
             a == t * u
             z == p - 1
             y == d * z + e
             r == a * y
  <1>1. /\ t \in Nat \ {0} /\ u \in Nat \ {0} /\ d \in Nat \ {0} /\ p \in Nat \ {0}
        /\ a \in Nat \ {0} /\ e \in 0 .. d - 1 /\ z \in Nat
    <2>1. /\ t \in Nat \ {0} /\ u \in Nat \ {0} /\ d \in Nat \ {0} /\ p \in Nat \ {0}
      BY DEF IsMesh
    <2>2. z \in Nat /\ e \in 0 .. d - 1
      BY <2>1
    <2> HIDE DEF t, u
    <2>3. t * u \in Nat /\ t * u # 0
      BY <2>1, Z3
    <2> QED BY <2>1, <2>2, <2>3
  <1>2. RankFor(m, e) = r
    BY DEF RankFor
  <1>3. /\ WorldSize(m) = t * u * d * p
        /\ \A s : TpRank(m, s) = s % t
        /\ \A s : CpRank(m, s) = (s \div t) % u
        /\ \A s : DpRank(m, s) = (s \div (t * u)) % d
        /\ \A s : PpRank(m, s) = s \div (t * u * d)
    BY DEF WorldSize, TpRank, CpRank, DpRank, PpRank
  <1>4. \A s : TpRank(m, s) = 0 /\ PpRank(m, s) = p - 1 /\ CpRank(m, s) = 0
               => IsCollected(m, s)
    BY DEF IsCollected
  <1> HIDE DEF t, u, d, p
  <1>5. y \in Nat /\ y \div d = z /\ y % d = e
    <2> HIDE DEF z
    <2>1. d * z \in Nat
      BY <1>1, Z3
    <2>2. (d * z + e) \div d = z /\ (d * z + e) % d = e
      BY <1>1, DivIs
    <2> QED BY <1>1, <2>1, <2>2
  <1>6. /\ r = (a * d) * z + a * e /\ a * e \in 0 .. a * d - 1 /\ a * d \in Nat \ {0}
        /\ (a * d) * p = (a * d) * z + a * d /\ (a * d) * z \in Nat
    <2> HIDE DEF a
    <2>1. a * (d * z) = (a * d) * z
      <3> HIDE DEF z
      <3> QED BY <1>1, TimesAssociates
    <2>2. a * (d * z + e) = a * (d * z) + a * e
      <3> HIDE DEF z
      <3> QED BY <1>1, Z3
    <2>3. a * e \in Nat /\ a * e + a <= a * d /\ a * d \in Nat /\ a * d # 0
      BY <1>1, Z3
    <2>4. p = z + 1
      BY <1>1
    <2> DEFINE b == a * d
    <2>5. b * p = b * z + b /\ b * z \in Nat
      <3>1. b \in Nat /\ z \in Nat /\ p = z + 1
        BY <1>1, <2>3, <2>4
      <3> HIDE DEF b, z
      <3> QED BY <3>1
    <2> QED BY <1>1, <2>1, <2>2, <2>3, <2>5
  <1> HIDE DEF y, z
  <1>7. r \in 0 .. WorldSize(m) - 1
    <2> DEFINE b == a * d
               v == b * z
               w == b * p
               s == a * e
    <2>1. WorldSize(m) = w
      BY <1>3
    <2>2. r = v + s /\ s \in 0 .. b - 1 /\ b \in Nat /\ w = v + b /\ v \in Nat
      BY <1>6
    <2> HIDE DEF v, w, s, b, r
    <2> QED BY <2>1, <2>2
  <1>8. r \div (t * u * d) = z
    <2> DEFINE b == a * d
               s == a * e
    <2>1. b \in Nat \ {0} /\ s \in 0 .. b - 1 /\ r = b * z + s
      BY <1>6
    <2> HIDE DEF b, s
    <2>2. (b * z + s) \div b = z
      BY <1>1, <2>1, DivIs
    <2> QED BY <2>1, <2>2 DEF b
  <1>9. r \div (t * u) = y
    <2>1. r = y * a
      BY <1>1, <1>5, Z3
    <2> HIDE DEF a, r
    <2>2. (y * a) \div a = y
      BY <1>1, <1>5, MultipleDiv
    <2> QED BY <2>1, <2>2 DEF a
  <1>10. r % t = 0 /\ r \div t = y * u /\ (y * u) % u = 0
    <2>1. r = (y * u) * t /\ y * u \in Nat
      BY <1>1, <1>5, Z3
    <2> DEFINE x == y * u
    <2> HIDE DEF x, r
    <2>2. (x * t) % t = 0 /\ (x * t) \div t = x
      BY <1>1, <2>1, MultipleDiv DEF x
    <2>3. (y * u) % u = 0
      BY <1>1, <1>5, MultipleDiv
    <2> QED BY <2>1, <2>2, <2>3 DEF x
  <1> HIDE DEF a, r
  <1>11. DpRank(m, r) = e
    BY <1>3, <1>5, <1>9
  <1>12. TpRank(m, r) = 0 /\ CpRank(m, r) = 0 /\ PpRank(m, r) = z
    BY <1>3, <1>8, <1>10
  <1>13. IsCollected(m, r)
    BY <1>4, <1>12 DEF z
  <1> QED BY <1>2, <1>7, <1>11, <1>13

(* Several ranks may have the outputs of a data rank; one of each is        *)
(* collected, in the order of the data ranks.                               *)
LEMMA CollectedInOrder ==
  ASSUME NEW m, IsMesh(m)
  PROVE  LET C == {r \in 0 .. WorldSize(m) - 1 : IsCollected(m, r)}
         IN  /\ DOMAIN Ascending(C) = 1 .. m.dp
             /\ \A i \in 1 .. m.dp :
                    /\ Ascending(C)[i] \in 0 .. WorldSize(m) - 1
                    /\ DpRank(m, Ascending(C)[i]) = i - 1
PROOF
  <1> DEFINE W == WorldSize(m)
             C == {r \in 0 .. W - 1 : IsCollected(m, r)}
             o == Ascending(C)
             c == Cardinality(C)
             d == m.dp
             a == m.tp * m.cp
             h == m.dp * (m.pp - 1)
             f == [i \in 1 .. c |-> DpRank(m, o[i])]
             g == [i \in 1 .. c |-> f[i] + 1]
  <1>1. d \in Nat \ {0} /\ a \in Nat \ {0} /\ h \in Nat /\ W \in Nat \ {0}
    <2>1. /\ m.tp \in Nat \ {0} /\ m.cp \in Nat \ {0}
          /\ m.dp \in Nat \ {0} /\ m.pp \in Nat \ {0}
      BY DEF IsMesh
    <2>2. m.tp * m.cp \in Nat \ {0}
      BY <2>1, Z3
    <2>3. m.tp * m.cp * m.dp \in Nat \ {0}
      BY <2>1, <2>2, Z3
    <2>4. m.tp * m.cp * m.dp * m.pp \in Nat \ {0}
      BY <2>1, <2>3, Z3
    <2>5. m.pp - 1 \in Nat
      BY <2>1
    <2>6. m.dp * (m.pp - 1) \in Nat
      BY <2>1, <2>5, Z3
    <2> QED BY <2>1, <2>2, <2>4, <2>6 DEF WorldSize
  <1>2. \A r \in C : r \in 0 .. W - 1 /\ DpRank(m, r) \in 0 .. d - 1
                     /\ r = a * (h + DpRank(m, r))
    <2> TAKE r \in C
    <2>1. r \in 0 .. W - 1 /\ r \in Nat /\ IsCollected(m, r)
      BY <1>1
    <2> QED BY <2>1, CollectedIsRankFor DEF RankFor
  <1>3. \A e \in 0 .. d - 1 : \E r \in C : DpRank(m, r) = e
    <2> TAKE e \in 0 .. d - 1
    <2>1. RankFor(m, e) \in C /\ DpRank(m, RankFor(m, e)) = e
      BY RankForIsCollected
    <2> QED BY <2>1
  <1>4. W - 1 \in Nat /\ C \in SUBSET (0 .. W - 1)
    BY <1>1
  <1> HIDE DEF W, C, d, a, h
  <1>5. /\ IsFiniteSet(C) /\ o \in Seq(C) /\ Len(o) = c
        /\ \A x : In(x, o) <=> x \in C
        /\ \A i, j \in 1 .. c : i < j => o[i] < o[j]
    BY <1>4, AscendingIs
  <1>6. c \in Nat
    BY <1>5, FS_CardinalityType
  <1> HIDE DEF o, c
  <1>7. \A i \in 1 .. c : o[i] \in C
    BY <1>5
  <1>8. f \in [1 .. c -> 0 .. d - 1]
    BY <1>2, <1>7
  <1>9. \A i, j \in 1 .. c : i < j => f[i] < f[j]
    <2> SUFFICES ASSUME NEW i \in 1 .. c, NEW j \in 1 .. c, i < j
                 PROVE  f[i] < f[j]
      OBVIOUS
    <2> DEFINE p == DpRank(m, o[i])
               q == DpRank(m, o[j])
    <2>1. f[i] = p /\ f[j] = q
      OBVIOUS
    <2>2. p \in Nat /\ q \in Nat /\ o[i] = a * (h + p) /\ o[j] = a * (h + q)
      BY <1>1, <1>2, <1>7
    <2>3. o[i] < o[j]
      BY <1>5
    <2> HIDE DEF p, q, f
    <2>4. CASE q <= p
      <3>1. p - q \in Nat
        BY <2>2, <2>4
      <3>2. a * (p - q) \in Nat /\ a * (h + p) = a * (h + q) + a * (p - q)
            /\ a * (h + q) \in Nat
        BY <1>1, <2>2, <3>1, Z3
      <3> QED BY <2>2, <2>3, <3>2
    <2> QED BY <2>1, <2>2, <2>4
  <1>10. \A e \in 0 .. d - 1 : \E i \in 1 .. c : f[i] = e
    <2> TAKE e \in 0 .. d - 1
    <2>1. PICK r \in C : DpRank(m, r) = e
      BY <1>3
    <2>2. PICK i \in 1 .. c : o[i] = r
      BY <1>5 DEF In
    <2> QED BY <2>1, <2>2
  <1>11. \A i \in 1 .. c : g[i] = f[i] + 1
    OBVIOUS
  <1>12. g \in [1 .. c -> 1 .. d]
    <2>1. \A i \in 1 .. c : f[i] + 1 \in 1 .. d
      BY <1>1, <1>8
    <2> QED BY <2>1
  <1> HIDE DEF f, g
  <1>13. g \in Seq(1 .. d) /\ Len(g) = c
    BY <1>6, <1>12, FunctionIsSeq
  <1>14. Single(g)
    <2> SUFFICES ASSUME NEW i \in 1 .. c, NEW j \in 1 .. c, i # j
                 PROVE  g[i] # g[j]
      BY <1>13 DEF Single
    <2>1. f[i] < f[j] \/ f[j] < f[i]
      BY <1>6, <1>9
    <2>2. f[i] \in 0 .. d - 1 /\ f[j] \in 0 .. d - 1
      BY <1>8
    <2> QED BY <1>1, <1>11, <2>1, <2>2
  <1>15. Range(g) = 1 .. d
    <2>1. \A x \in 1 .. d : \E i \in 1 .. c : g[i] = x
      <3> TAKE x \in 1 .. d
      <3>1. x - 1 \in 0 .. d - 1
        BY <1>1
      <3>2. PICK i \in 1 .. c : f[i] = x - 1
        BY <1>10, <3>1
      <3> QED BY <1>1, <1>11, <3>2
    <2>2. DOMAIN g = 1 .. c /\ \A i \in 1 .. c : g[i] \in 1 .. d
      BY <1>12
    <2> QED BY <2>1, <2>2 DEF Range
  <1>16. c = d
    <2>1. Cardinality(1 .. d) = c
      BY <1>13, <1>14, <1>15, CountOfItems
    <2>2. Cardinality(1 .. d) = d
      BY <1>1, IntervalSize
    <2> QED BY <2>1, <2>2
  <1>17. \A i \in 1 .. c : f[i] = i - 1
    <2>1. f \in [1 .. c -> 0 .. c - 1]
      BY <1>8, <1>16
    <2> QED BY <1>6, <1>9, <2>1, GrowsByOne
  <1>18. /\ DOMAIN o = 1 .. d
         /\ \A i \in 1 .. d : o[i] \in 0 .. W - 1 /\ DpRank(m, o[i]) = i - 1
    <2>1. DOMAIN o = 1 .. d
      BY <1>5, <1>16
    <2>2. \A i \in 1 .. c : f[i] = DpRank(m, o[i])
      BY DEF f
    <2>3. \A i \in 1 .. c : o[i] \in 0 .. W - 1
      BY <1>2, <1>7
    <2> QED BY <1>16, <1>17, <2>1, <2>2, <2>3
  <1> QED BY <1>18 DEF o, C, W, d

(* What the megatron dispatch gives the ranks of any mesh is what the       *)
(* collection takes back, each part once and in order.                      *)
THEOREM CollectIsInverse ==
  ASSUME NEW m, IsMesh(m), NEW T, NEW outputs \in Seq(T), Len(outputs) = m.dp
  PROVE  CollectMegatron(m, DispatchMegatron(m, outputs)) = outputs
PROOF
  <1> DEFINE C == {r \in 0 .. WorldSize(m) - 1 : IsCollected(m, r)}
             o == Ascending(C)
             given == DispatchMegatron(m, outputs)
  <1>1. /\ DOMAIN o = 1 .. m.dp
        /\ \A i \in 1 .. m.dp : o[i] \in 0 .. WorldSize(m) - 1
                                /\ DpRank(m, o[i]) = i - 1
    BY CollectedInOrder
  <1>2. \A r \in 0 .. WorldSize(m) - 1 : given[r] = outputs[DpRank(m, r) + 1]
    BY DEF DispatchMegatron
  <1>3. CollectMegatron(m, given) = [i \in DOMAIN o |-> given[o[i]]]
    BY DEF CollectMegatron, Reorder
  <1> HIDE DEF o, given
  <1>4. m.dp \in Nat
    BY DEF IsMesh
  <1>5. \A i \in 1 .. m.dp : given[o[i]] = outputs[i]
    <2> TAKE i \in 1 .. m.dp
    <2>1. given[o[i]] = outputs[DpRank(m, o[i]) + 1]
      BY <1>1, <1>2
    <2>2. DpRank(m, o[i]) + 1 = i
      BY <1>1, <1>4
    <2> QED BY <2>1, <2>2
  <1>6. outputs = [i \in 1 .. m.dp |-> outputs[i]]
    OBVIOUS
  <1>7. CollectMegatron(m, given) = outputs
    BY <1>1, <1>3, <1>5, <1>6
  <1> QED BY <1>7 DEF given

-----------------------------------------------------------------------------
(* The inductive invariant.                                                 *)
IsDealt(chunks, n, k) ==
    /\ chunks \in Seq(Seq(1 .. n))
    /\ Len(chunks) = k
    /\ \A r, s \in 1 .. k : Len(chunks[r]) = Len(chunks[s]) /\ Len(chunks[r]) > 0

Returns(chunks, rows, n, p) ==
    Unpad(FlattenSeq(chunks), p) = SubSeq(rows, 1, n)

IsCutUp(parts, n, agreed, cuts, turns) ==
    /\ AreMicroBatches(parts, n, IF cuts THEN agreed ELSE CeilDiv(n, MicroBatchSize))
    /\ ~cuts => FlattenSeq(parts) = turns

InputsInv ==
    /\ mode \in Modes
    /\ dynamic \in BOOLEAN
    /\ length \in Seq(TokenCounts) /\ Len(length) > 0
    /\ mode = "balance" => Len(length) % Ranks = 0
    /\ pc \in {"prepare", "workers", "done"}

PrepareInv ==
    pc = "prepare" =>
        /\ batch = [i \in 1 .. Len(length) |-> i]
        /\ wanted = [r \in RankIds |-> 0]
        /\ micro = Unset /\ output = Unset

DealtInv ==
    pc # "prepare" =>
        /\ IsDealt(chunk, Len(length), Ranks)
        /\ Returns(chunk, batch, Len(length), padding)
        /\ mode = "balance" => AreShares(chunk, length, Ranks, TRUE)

WantedInv ==
    /\ wanted \in [RankIds -> Nat]
    /\ pc # "prepare" => \A r \in RankIds : wanted[r] <= Len(chunk[r])

MicroInv ==
    /\ DOMAIN micro = RankIds
    /\ pc # "prepare" => \A r \in RankIds : micro[r] # <<>> =>
           /\ dynamic => AllReduced
           /\ IsCutUp(micro[r], Len(chunk[r]), AgreedNumber(r), dynamic,
                      [i \in DOMAIN chunk[r] |-> i])

OutputInv ==
    /\ output \in [RankIds -> Seq(Rows)]
    /\ \A r \in RankIds : output[r] # <<>> => output[r] = chunk[r]
    /\ pc = "done" => output = chunk /\ result = SubSeq(batch, 1, Len(length))

IInv == InputsInv /\ PrepareInv /\ DealtInv /\ WantedInv /\ MicroInv /\ OutputInv

-----------------------------------------------------------------------------
(* What is dealt.                                                           *)
LEMMA EvenIsDealt ==
  ASSUME NEW n \in Nat, NEW k \in Nat \ {0}, NEW rows \in Seq(1 .. n),
         Len(rows) > 0, Len(rows) % k = 0
  PROVE  IsDealt(Chunk(rows, k), n, k) /\ FlattenSeq(Chunk(rows, k)) = rows
PROOF
  <1> DEFINE c == Chunk(rows, k)
             N == 1 .. n
             l == Len(rows)
             size == l \div k
             e == l % k
  <1>1. l \in Nat /\ l > 0 /\ e = 0
    OBVIOUS
  <1>2. Dealt(c, rows, k, size, N)
    <2>1. rows \in Seq(N)
      OBVIOUS
    <2> HIDE DEF N
    <2> QED BY <2>1, ChunkIs
  <1> HIDE DEF c, l
  <1>3. l = k * size + e /\ size \in Nat
    BY <1>1, DivMod
  <1> HIDE DEF size, e
  <1>4. size > 0
    <2>1. CASE size = 0
      <3>1. k * size = 0
        BY <2>1
      <3> QED BY <1>1, <1>3, <3>1
    <2> QED BY <1>3, <2>1
  <1>5. IsDealt(c, n, k)
    <2>1. \A r \in 1 .. k : Len(c[r]) = size
      BY <1>2 DEF Dealt
    <2>2. c \in Seq(Seq(1 .. n)) /\ Len(c) = k
      BY <1>2 DEF Dealt
    <2> QED BY <1>4, <2>1, <2>2 DEF IsDealt
  <1>6. FlattenSeq(c) = rows
    BY <1>2 DEF Dealt
  <1> QED BY <1>5, <1>6 DEF c

(* The balanced batch is dealt as its partitions.                           *)
LEMMA SharesAreDealt ==
  ASSUME NEW lengths \in Seq(Nat \ {0}), Len(lengths) > 0, NEW k \in Nat \ {0},
         Len(lengths) % k = 0, NEW parts, AreShares(parts, lengths, k, TRUE)
  PROVE  /\ FlattenSeq(parts) \in Seq(1 .. Len(lengths))
         /\ Len(FlattenSeq(parts)) = Len(lengths)
         /\ Chunk(FlattenSeq(parts), k) = parts
         /\ IsDealt(parts, Len(lengths), k)
PROOF
  <1> DEFINE n == Len(lengths)
             N == 1 .. n
             f == FlattenSeq(parts)
             size == Len(parts[1])
  <1>1. n \in Nat /\ n > 0
    OBVIOUS
  <1>2. parts \in Seq(Seq(N)) /\ Len(parts) = k /\ Distinct(parts) /\ Covers(parts, n)
        /\ \A p, q \in 1 .. k : Len(parts[p]) = Len(parts[q])
    BY DEF AreShares
  <1>3. k <= n
    <2> DEFINE d == n \div k
               e == n % k
    <2>1. n = k * d + e /\ e = 0 /\ d \in Nat
      <3>1. e = 0
        OBVIOUS
      <3> HIDE DEF n
      <3> QED BY <1>1, <3>1, DivMod
    <2> HIDE DEF d, e, n
    <2>2. CASE d = 0
      <3>1. k * d = 0
        BY <2>2
      <3> QED BY <1>1, <2>1, <3>1
    <2>3. CASE d # 0
      <3>1. d - 1 \in Nat
        BY <2>1, <2>3
      <3>2. k * d = k + k * (d - 1) /\ k * (d - 1) \in Nat
        BY <2>1, <3>1, Z3
      <3> QED BY <2>1, <3>2
    <2> QED BY <2>2, <2>3
  <1>4. \A p \in 1 .. k : Len(parts[p]) > 0
    BY <1>3 DEF AreShares
  <1>5. Permutes(f, n)
    <2> HIDE DEF n
    <2> QED BY <1>1, <1>2, FlattenPermutes
  <1> HIDE DEF f
  <1>6. f \in Seq(N) /\ Len(f) = n
    <2>1. f \in [1 .. n -> N]
      BY <1>5 DEF Permutes
    <2> HIDE DEF n, N
    <2> QED BY <1>1, <2>1, FunctionIsSeq
  <1>7. size \in Nat /\ \A p \in 1 .. k : Len(parts[p]) = size
    <2>1. 1 \in 1 .. k
      OBVIOUS
    <2>2. parts[1] \in Seq(N)
      <3> HIDE DEF N
      <3> QED BY <1>2, <2>1
    <2> QED BY <1>2, <2>1, <2>2
  <1> HIDE DEF N, n, size
  <1>8. Chunk(f, k) = parts
    <2>1. Len(parts) > 0 /\ \A j \in 1 .. Len(parts) : Len(parts[j]) = size
      BY <1>2, <1>7
    <2>2. Chunk(FlattenSeq(parts), Len(parts)) = parts
      BY <1>2, <1>7, <2>1, ChunkOfFlatten
    <2> QED BY <1>2, <2>2 DEF f
  <1>9. IsDealt(parts, n, k)
    <2>1. \A r, s \in 1 .. k : Len(parts[r]) = Len(parts[s]) /\ Len(parts[r]) > 0
      BY <1>2, <1>4
    <2>2. parts \in Seq(Seq(1 .. n)) /\ Len(parts) = k
      BY <1>2 DEF N
    <2> QED BY <2>1, <2>2 DEF IsDealt
  <1> QED BY <1>6, <1>8, <1>9 DEF f, n, N

(* Rows that are named by their position.                                   *)
LEMMA IdentityRows ==
  ASSUME NEW n \in Nat, NEW rows, rows = [i \in 1 .. n |-> i]
  PROVE  /\ rows \in Seq(1 .. n) /\ Len(rows) = n
         /\ \A f \in Seq(1 .. n) : Reorder(rows, f) = f
PROOF
  <1>1. rows \in [1 .. n -> 1 .. n]
    OBVIOUS
  <1>2. rows \in Seq(1 .. n) /\ Len(rows) = n
    <2> DEFINE N == 1 .. n
    <2>1. rows \in [1 .. n -> N]
      BY <1>1
    <2> HIDE DEF N
    <2>2. rows \in Seq(N) /\ Len(rows) = n
      BY <2>1, FunctionIsSeq
    <2> QED BY <2>2 DEF N
  <1>3. ASSUME NEW f \in Seq(1 .. n)
        PROVE  Reorder(rows, f) = f
    <2>1. \A i \in DOMAIN f : f[i] \in 1 .. n
      OBVIOUS
    <2>2. \A i \in DOMAIN f : rows[f[i]] = f[i]
      BY <2>1
    <2>3. f = [i \in DOMAIN f |-> f[i]]
      OBVIOUS
    <2>4. Reorder(rows, f) = [i \in DOMAIN f |-> rows[f[i]]]
      BY DEF Reorder
    <2> QED BY <2>2, <2>3, <2>4
  <1> QED BY <1>2, <1>3

(* Padding with the last row leaves the rows where they were.               *)
LEMMA PadWithLastIs ==
  ASSUME NEW T, NEW rows \in Seq(T), Len(rows) > 0, NEW p \in Nat
  PROVE  /\ PadWithLast(rows, p) \in Seq(T)
         /\ Len(PadWithLast(rows, p)) = Len(rows) + p
         /\ \A i \in 1 .. Len(rows) : PadWithLast(rows, p)[i] = rows[i]
PROOF
  <1> DEFINE n == Len(rows)
             extra == [i \in 1 .. p |-> rows[n]]
  <1>1. n \in Nat /\ rows[n] \in T
    OBVIOUS
  <1>2. extra \in Seq(T) /\ Len(extra) = p
    BY <1>1
  <1>3. PadWithLast(rows, p) = rows \o extra
    BY DEF PadWithLast
  <1> HIDE DEF extra
  <1>4. /\ rows \o extra \in Seq(T)
        /\ Len(rows \o extra) = n + p
        /\ \A i \in 1 .. n : (rows \o extra)[i] = rows[i]
    BY <1>2
  <1> QED BY <1>3, <1>4

(* Unpadding leaves the first rows.                                         *)
LEMMA UnpadIs ==
  ASSUME NEW T, NEW rows \in Seq(T), NEW n \in Nat, NEW p \in Nat, Len(rows) = n + p
  PROVE  Unpad(rows, p) = SubSeq(rows, 1, n)
  BY DEF Unpad

(* The padding makes the batch even for the ranks.                          *)
LEMMA PaddedLength ==
  ASSUME NEW n \in Nat, NEW d \in Nat \ {0}
  PROVE  (n + PadSize(n, d)) % d = 0
PROOF
  <1> DEFINE q == n \div d
             r == n % d
             p == PadSize(n, d)
  <1>1. n = d * q + r /\ r \in 0 .. d - 1 /\ q \in Nat
    BY DivMod
  <1>2. p = IF r = 0 THEN 0 ELSE d - r
    BY DEF PadSize
  <1> HIDE DEF q, r, p
  <1>3. CASE r = 0
    <2>1. n + p = q * d
      BY <1>1, <1>2, <1>3, Z3
    <2>2. (q * d) % d = 0
      BY <1>1, MultipleDiv
    <2> QED BY <2>1, <2>2 DEF p
  <1>4. CASE r # 0
    <2>1. n + p = (q + 1) * d
      <3>1. (q + 1) * d = d * q + d
        BY <1>1, Z3
      <3> DEFINE x == d * q
      <3>2. x \in Nat /\ n = x + r /\ (q + 1) * d = x + d
        BY <1>1, <3>1, Z3
      <3> HIDE DEF x
      <3> QED BY <1>1, <1>2, <1>4, <3>2
    <2>2. ((q + 1) * d) % d = 0
      <3>1. q + 1 \in Nat
        BY <1>1
      <3> QED BY <3>1, MultipleDiv
    <2> QED BY <2>1, <2>2 DEF p
  <1> QED BY <1>3, <1>4

-----------------------------------------------------------------------------
(* What a rank makes of its part.                                           *)
LEMMA PutBackAsTheyWere ==
  ASSUME NEW T, NEW rows \in Seq(T), NEW num, NEW parts,
         AreMicroBatches(parts, Len(rows), num)
  PROVE  Restore(Reorder(rows, FlattenSeq(parts)), parts) = rows
PROOF
  <1> DEFINE n == Len(rows)
  <1>1. n \in Nat /\ parts \in Seq(Seq(1 .. n)) /\ Distinct(parts) /\ Covers(parts, n)
    BY DEF AreMicroBatches
  <1> HIDE DEF n
  <1>2. Permutes(FlattenSeq(parts), n)
    BY <1>1, FlattenPermutes
  <1>3. Permutes(FlattenSeq(parts), Len(rows))
    BY <1>2 DEF n
  <1>4. Reorder(Reorder(rows, FlattenSeq(parts)), ReverseIdx(FlattenSeq(parts))) = rows
    BY <1>3, RestoreUndoesReorder
  <1> QED BY <1>4 DEF Restore

(* Fixed micro-batches do not reorder.                                      *)
LEMMA TakenInTurn ==
  ASSUME NEW T, NEW rows \in Seq(T)
  PROVE  Reorder(rows, [i \in DOMAIN rows |-> i]) = rows
  BY DEF Reorder

(* What a rank was given: rows, as many as every other rank.                *)
LEMMA PartOfRank ==
  ASSUME IInv, pc # "prepare", NEW r \in RankIds
  PROVE  /\ chunk[r] \in Seq(Rows) /\ Len(chunk[r]) \in Nat /\ Len(chunk[r]) > 0
         /\ \A s \in RankIds : Len(chunk[s]) = Len(chunk[r])
         /\ Lengths(chunk[r]) \in Seq(Nat \ {0})
         /\ Len(Lengths(chunk[r])) = Len(chunk[r])
PROOF
  <1> DEFINE c == chunk[r]
             n == Len(length)
             P == Nat \ {0}
  <1>1. IsDealt(chunk, n, Ranks) /\ length \in Seq(TokenCounts)
    BY DEF IInv, DealtInv, InputsInv
  <1>2. c \in Seq(1 .. n) /\ Len(c) > 0 /\ \A s \in RankIds : Len(chunk[s]) = Len(c)
    <2>1. r \in 1 .. Ranks
      BY DEF RankIds
    <2> DEFINE S == Seq(1 .. n)
    <2>2. chunk \in Seq(S) /\ Len(chunk) = Ranks
      BY <1>1 DEF IsDealt
    <2> HIDE DEF S
    <2>3. c \in S
      BY <2>1, <2>2
    <2> QED BY <1>1, <2>1, <2>3 DEF S, IsDealt, RankIds
  <1>3. \A i \in 1 .. n : length[i] \in P
    <2>1. \A i \in 1 .. n : length[i] \in TokenCounts
      BY <1>1
    <2> QED BY <2>1, BatchCallAssumption
  <1> HIDE DEF c
  <1>4. /\ Lengths(c) \in [1 .. Len(c) -> P] /\ Len(c) \in Nat
    <2>1. \A i \in DOMAIN c : length[c[i]] \in P
      BY <1>2, <1>3
    <2>2. DOMAIN c = 1 .. Len(c) /\ Len(c) \in Nat
      BY <1>2
    <2> QED BY <2>1, <2>2 DEF Lengths
  <1>5. Lengths(c) \in Seq(P) /\ Len(Lengths(c)) = Len(c)
    <2> HIDE DEF P
    <2> QED BY <1>4, FunctionIsSeq
  <1> QED BY <1>2, <1>4, <1>5 DEF c, Rows

(* The number agreed on is at most the rows of a rank.                      *)
LEMMA AgreedNumberIs ==
  ASSUME IInv, pc # "prepare", AllReduced, NEW r \in RankIds
  PROVE  AgreedNumber(r) \in 1 .. Len(chunk[r]) /\ wanted[r] <= AgreedNumber(r)
PROOF
  <1> DEFINE n == Len(chunk[r])
             S == Range(wanted)
  <1>1. n \in Nat /\ \A s \in RankIds : Len(chunk[s]) = n
    BY PartOfRank
  <1>2. wanted \in [RankIds -> Nat] /\ \A s \in RankIds : wanted[s] <= Len(chunk[s])
    BY DEF IInv, WantedInv
  <1>3. wanted[r] > 0
    BY DEF AllReduced
  <1>4. S \in SUBSET (0 .. n) /\ wanted[r] \in S
    <2>1. \A s \in RankIds : wanted[s] \in 0 .. n
      BY <1>1, <1>2
    <2> QED BY <1>2, <2>1 DEF Range
  <1> HIDE DEF n, S
  <1>5. Max(S) \in S /\ \A x \in S : x <= Max(S)
    BY <1>1, <1>4, MaxIs
  <1>6. Max(S) \in 0 .. n /\ wanted[r] <= Max(S)
    BY <1>4, <1>5
  <1>7. Max(S) \in 1 .. n
    BY <1>1, <1>2, <1>3, <1>6
  <1> QED BY <1>6, <1>7 DEF S, n, AgreedNumber

-----------------------------------------------------------------------------
(* Nothing is dealt before the call.                                        *)
LEMMA InitHolds == Init => IInv
PROOF
  <1> SUFFICES ASSUME Init PROVE IInv
    OBVIOUS
  <1>1. PICK n \in 1 .. MaxRows : length \in [1 .. n -> TokenCounts]
    BY DEF Init
  <1>2. n \in Nat /\ n > 0
    BY BatchCallAssumption
  <1>3. length \in Seq(TokenCounts) /\ Len(length) = n
    BY <1>1, <1>2, FunctionIsSeq
  <1>4. InputsInv
    BY <1>2, <1>3 DEF Init, InputsInv
  <1>5. PrepareInv
    BY DEF Init, PrepareInv, Rows
  <1>6. DealtInv /\ WantedInv /\ MicroInv
    BY DEF Init, DealtInv, WantedInv, MicroInv, Unset
  <1>7. OutputInv
    BY DEF Init, OutputInv, Unset
  <1> QED BY <1>4, <1>5, <1>6, <1>7 DEF IInv

(* Whatever the mode, dealing an even batch keeps the invariant.            *)
LEMMA DealtKeeps ==
  ASSUME IInv, pc = "prepare", pc' = "workers",
         UNCHANGED <<inputs, wanted, micro, output, result>>,
         IsDealt(chunk', Len(length), Ranks),
         Returns(chunk', batch', Len(length), padding'),
         mode = "balance" => AreShares(chunk', length, Ranks, TRUE)
  PROVE  IInv'
PROOF
  <1> USE DEF inputs
  <1>1. wanted = [r \in RankIds |-> 0] /\ micro = Unset /\ output = Unset
    BY DEF IInv, PrepareInv
  <1>2. InputsInv'
    BY DEF IInv, InputsInv
  <1>3. PrepareInv'
    BY DEF PrepareInv
  <1>4. DealtInv'
    BY DEF DealtInv
  <1>5. WantedInv'
    <2>1. \A r \in RankIds : 0 <= Len(chunk'[r])
      <3> TAKE r \in RankIds
      <3> DEFINE l == Len(chunk'[r])
                 S == Seq(1 .. Len(length))
      <3>1. chunk' \in Seq(S) /\ r \in 1 .. Len(chunk')
        BY DEF IsDealt, RankIds
      <3>2. chunk'[r] \in S
        <4> HIDE DEF S
        <4> QED BY <3>1
      <3>3. l \in Nat
        BY <3>2
      <3> HIDE DEF l
      <3>4. 0 <= l
        BY <3>3
      <3> QED BY <3>4 DEF l
    <2>2. wanted' = [r \in RankIds |-> 0]
      BY <1>1
    <2> QED BY <2>1, <2>2 DEF WantedInv
  <1>6. MicroInv'
    <2>1. micro' = [r \in RankIds |-> <<>>]
      BY <1>1 DEF Unset
    <2> QED BY <2>1 DEF MicroInv
  <1>7. OutputInv'
    <2>1. output' = [r \in RankIds |-> <<>>]
      BY <1>1 DEF Unset
    <2> QED BY <2>1 DEF OutputInv
  <1> QED BY <1>2, <1>3, <1>4, <1>5, <1>6, <1>7 DEF IInv

(* The driver's batch before it is prepared.                                *)
LEMMA BatchAtFirst ==
  ASSUME IInv, pc = "prepare"
  PROVE  /\ batch \in Seq(Rows) /\ Len(batch) = Len(length) /\ Len(length) \in Nat
         /\ Len(length) > 0
         /\ \A f \in Seq(Rows) : Reorder(batch, f) = f
         /\ Lengths(batch) = length
         /\ length \in Seq(Nat \ {0})
         /\ SubSeq(batch, 1, Len(length)) = batch
PROOF
  <1> DEFINE n == Len(length)
  <1>1. length \in Seq(TokenCounts) /\ n \in Nat /\ n > 0 /\ batch = [i \in 1 .. n |-> i]
    BY DEF IInv, InputsInv, PrepareInv
  <1>2. batch \in Seq(1 .. n) /\ Len(batch) = n
        /\ \A f \in Seq(1 .. n) : Reorder(batch, f) = f
    <2> HIDE DEF n
    <2> QED BY <1>1, IdentityRows
  <1>3. Lengths(batch) = length
    <2>1. Lengths(batch) = [i \in 1 .. n |-> length[i]]
      BY <1>1 DEF Lengths
    <2> QED BY <1>1, <2>1
  <1>4. length \in Seq(Nat \ {0})
    <2>1. \A i \in 1 .. n : length[i] \in TokenCounts
      BY <1>1
    <2>2. \A i \in 1 .. n : length[i] \in Nat \ {0}
      BY <2>1, BatchCallAssumption
    <2> QED BY <1>1, <2>2
  <1>5. SubSeq(batch, 1, n) = batch
    BY <1>2
  <1> QED BY <1>1, <1>2, <1>3, <1>4, <1>5 DEF Rows

(* _balance_batch.                                                          *)
LEMMA BalanceKeeps ==
  ASSUME IInv, Balance
  PROVE  IInv'
PROOF
  <1> DEFINE n == Len(length)
             parts == Partitions(length, Ranks, TRUE)
             rows == FlattenSeq(parts)
  <1>1. /\ pc = "prepare" /\ mode = "balance"
        /\ batch' = Reorder(batch, FlattenSeq(Partitions(Lengths(batch), Ranks, TRUE)))
        /\ padding' = 0
        /\ chunk' = Chunk(batch', Ranks)
        /\ pc' = "workers"
        /\ UNCHANGED <<inputs, wanted, micro, output, result>>
    BY DEF Balance, Deal
  <1>2. /\ length \in Seq(Nat \ {0}) /\ n \in Nat /\ n > 0 /\ n % Ranks = 0
        /\ Lengths(batch) = length /\ \A f \in Seq(Rows) : Reorder(batch, f) = f
    BY <1>1, BatchAtFirst DEF IInv, InputsInv
  <1>3. Ranks \in Nat \ {0}
    BY BatchCallAssumption
  <1>4. AreShares(parts, length, Ranks, TRUE)
    BY <1>2, <1>3, PartitionsAreShares
  <1> HIDE DEF parts
  <1>5. rows \in Seq(1 .. n) /\ Len(rows) = n /\ Chunk(rows, Ranks) = parts
        /\ IsDealt(parts, n, Ranks)
    <2>1. length \in Seq(Nat \ {0}) /\ Len(length) > 0 /\ Len(length) % Ranks = 0
      BY <1>2
    <2>2. /\ FlattenSeq(parts) \in Seq(1 .. Len(length))
          /\ Len(FlattenSeq(parts)) = Len(length)
          /\ Chunk(FlattenSeq(parts), Ranks) = parts
          /\ IsDealt(parts, Len(length), Ranks)
      BY <1>3, <1>4, <2>1, SharesAreDealt
    <2> QED BY <2>2
  <1> HIDE DEF rows
  <1>6. batch' = rows
    BY <1>1, <1>2, <1>5 DEF rows, parts, Rows
  <1>7. chunk' = parts
    BY <1>1, <1>5, <1>6
  <1>8. Returns(parts, rows, n, 0)
    <2> DEFINE N == 1 .. n
    <2>1. rows \in Seq(N) /\ n \in Nat
      BY <1>2, <1>5
    <2>3. Len(rows) = n + 0
      BY <1>5, <2>1
    <2> HIDE DEF N, n
    <2>4. 0 \in Nat
      OBVIOUS
    <2>2. Unpad(rows, 0) = SubSeq(rows, 1, n)
      BY <2>1, <2>3, <2>4, UnpadIs
    <2> QED BY <2>2 DEF Returns, rows
  <1> QED BY <1>1, <1>4, <1>5, <1>6, <1>7, <1>8, DealtKeeps

(* _validate.                                                               *)
LEMMA PadAndDealKeeps ==
  ASSUME IInv, PadAndDeal
  PROVE  IInv'
PROOF
  <1> DEFINE n == Len(length)
             rows == Pad(batch, Ranks)
             p == PadSize(Len(batch), Ranks)
             c == Chunk(rows, Ranks)
  <1>1. /\ pc = "prepare" /\ mode = "pad"
        /\ padding' = p
        /\ batch' = batch
        /\ chunk' = c
        /\ pc' = "workers"
        /\ UNCHANGED <<inputs, wanted, micro, output, result>>
    BY DEF PadAndDeal, Deal
  <1>2. /\ batch \in Seq(Rows) /\ Len(batch) = n /\ n \in Nat /\ n > 0
        /\ SubSeq(batch, 1, n) = batch
    BY <1>1, BatchAtFirst
  <1>3. Ranks \in Nat \ {0}
    BY BatchCallAssumption
  <1>4. rows \in Seq(Rows) /\ Len(rows) = n + p /\ p \in Nat /\ Len(rows) % Ranks = 0
    <2>1. rows \in Seq(Rows) /\ Len(rows) = n + p
      BY <1>2, <1>3, PaddedRows
    <2>2. p \in Nat
      BY <1>2, <1>3, PadSizeIsNat
    <2>3. Len(rows) % Ranks = 0
      BY <1>2, <1>3, PaddedIsEven
    <2> QED BY <2>1, <2>2, <2>3
  <1>5. Unpad(rows, p) = batch
    BY <1>2, <1>3, UnpadUndoesPad
  <1> HIDE DEF rows, p
  <1>6. IsDealt(c, n, Ranks) /\ FlattenSeq(c) = rows
    <2>1. rows \in Seq(1 .. n) /\ Len(rows) > 0 /\ Len(rows) % Ranks = 0
      BY <1>2, <1>4 DEF Rows
    <2> HIDE DEF n
    <2> QED BY <1>2, <1>3, <2>1, EvenIsDealt
  <1>7. Returns(c, batch, n, p)
    BY <1>2, <1>5, <1>6 DEF Returns
  <1> HIDE DEF c
  <1> QED BY <1>1, <1>6, <1>7, DealtKeeps

(* _split_args_kwargs_data_proto_with_auto_padding.                         *)
LEMMA AutoPadAndDealKeeps ==
  ASSUME IInv, AutoPadAndDeal
  PROVE  IInv'
PROOF
  <1> DEFINE n == Len(length)
             p == PadSize(Len(batch), Ranks)
             rows == PadWithLast(batch, p)
             c == Chunk(rows, Ranks)
  <1>1. /\ pc = "prepare" /\ mode = "auto_pad"
        /\ padding' = p
        /\ batch' = rows
        /\ chunk' = c
        /\ pc' = "workers"
        /\ UNCHANGED <<inputs, wanted, micro, output, result>>
    BY DEF AutoPadAndDeal, Deal
  <1>2. /\ batch \in Seq(Rows) /\ Len(batch) = n /\ n \in Nat /\ n > 0
    BY <1>1, BatchAtFirst
  <1>3. Ranks \in Nat \ {0}
    BY BatchCallAssumption
  <1>4. p \in Nat /\ (n + p) % Ranks = 0
    <2>1. p = PadSize(n, Ranks)
      BY <1>2
    <2> HIDE DEF p, n
    <2>2. PadSize(n, Ranks) \in 0 .. Ranks - 1
      BY <1>2, <1>3, PadSizeIsNat
    <2>3. (n + PadSize(n, Ranks)) % Ranks = 0
      BY <1>2, <1>3, PaddedLength
    <2>4. p \in Nat
      BY <1>3, <2>1, <2>2
    <2> QED BY <2>1, <2>3, <2>4
  <1> HIDE DEF p
  <1>5. rows \in Seq(Rows) /\ Len(rows) = n + p
    BY <1>2, <1>4, PadWithLastIs
  <1>6. Unpad(rows, p) = SubSeq(rows, 1, n)
    BY <1>2, <1>4, <1>5, UnpadIs
  <1> HIDE DEF rows
  <1>7. IsDealt(c, n, Ranks) /\ FlattenSeq(c) = rows
    <2>1. rows \in Seq(1 .. n) /\ Len(rows) > 0 /\ Len(rows) % Ranks = 0
      BY <1>2, <1>4, <1>5 DEF Rows
    <2> QED BY <1>2, <1>3, <2>1, EvenIsDealt
  <1>8. Returns(c, rows, n, p)
    BY <1>6, <1>7 DEF Returns
  <1> HIDE DEF c
  <1> QED BY <1>1, <1>7, <1>8, DealtKeeps

(* A count before the all_reduce: no micro-batch is made yet.               *)
LEMMA CountKeeps ==
  ASSUME IInv, NEW r \in RankIds, Count(r)
  PROVE  IInv'
PROOF
  <1> DEFINE l == Lengths(chunk[r])
             w == NumMicroBatches(l, MaxTokenLen)
  <1>1. /\ pc = "workers" /\ dynamic /\ wanted[r] = 0
        /\ wanted' = [wanted EXCEPT ![r] = w]
        /\ UNCHANGED <<inputs, pc, batch, padding, chunk, micro, output, result>>
    BY DEF Count
  <1> USE DEF inputs
  <1>2. /\ l \in Seq(Nat \ {0}) /\ Len(l) = Len(chunk[r]) /\ Len(chunk[r]) \in Nat
        /\ Len(chunk[r]) > 0
    BY <1>1, PartOfRank
  <1>3. MaxTokenLen \in Nat \ {0}
    <2>1. length \in Seq(TokenCounts) /\ Len(length) > 0
      BY DEF IInv, InputsInv
    <2>2. length[1] \in TokenCounts
      BY <2>1
    <2>3. length[1] \in Nat \ {0} /\ length[1] <= MaxTokenLen /\ MaxTokenLen \in Nat
      BY <2>2, BatchCallAssumption
    <2> DEFINE x == length[1]
    <2> HIDE DEF x
    <2> QED BY <2>3 DEF x
  <1> HIDE DEF l
  <1>4. w \in 1 .. Len(l)
    BY <1>2, <1>3, NumMicroBatchesIs
  <1> HIDE DEF w
  <1>5. w \in Nat /\ w <= Len(chunk[r])
    BY <1>2, <1>4
  <1>6. ~AllReduced
    BY <1>1 DEF AllReduced
  <1>7. \A s \in RankIds : micro[s] = <<>>
    BY <1>1, <1>6 DEF IInv, MicroInv
  <1>8. WantedInv'
    <2>1. wanted \in [RankIds -> Nat] /\ \A s \in RankIds : wanted[s] <= Len(chunk[s])
      BY <1>1 DEF IInv, WantedInv
    <2>2. wanted' \in [RankIds -> Nat]
      BY <1>1, <1>5, <2>1
    <2>3. ASSUME NEW s \in RankIds PROVE wanted'[s] <= Len(chunk[s])
      BY <1>1, <1>5, <2>1
    <2> QED BY <1>1, <2>2, <2>3 DEF WantedInv
  <1>9. MicroInv'
    BY <1>1, <1>7 DEF IInv, MicroInv
  <1>10. InputsInv' /\ PrepareInv' /\ DealtInv'
    BY <1>1 DEF IInv, InputsInv, PrepareInv, DealtInv, RankIds, Unset
  <1>11. OutputInv'
    BY <1>1 DEF IInv, OutputInv, Rows
  <1> QED BY <1>8, <1>9, <1>10, <1>11 DEF IInv

(* Micro-batches of one rank, in either way.                                *)
LEMMA MadeMicroKeeps ==
  ASSUME IInv, NEW r \in RankIds, pc = "workers", NEW parts,
         micro' = [micro EXCEPT ![r] = parts],
         UNCHANGED <<inputs, pc, batch, padding, chunk, wanted, output, result>>,
         dynamic => AllReduced,
         IsCutUp(parts, Len(chunk[r]), AgreedNumber(r), dynamic,
                 [i \in DOMAIN chunk[r] |-> i])
  PROVE  IInv'
PROOF
  <1> USE DEF inputs
  <1>1. MicroInv'
    <2>1. DOMAIN micro = RankIds
      BY DEF IInv, MicroInv
    <2>2. DOMAIN micro' = RankIds
      BY <2>1
    <2>3. AllReduced' <=> AllReduced
      BY DEF AllReduced
    <2>4. \A s : AgreedNumber(s)' = AgreedNumber(s)
      BY DEF AgreedNumber
    <2>5. ASSUME NEW s \in RankIds, micro'[s] # <<>>
          PROVE  /\ dynamic => AllReduced
                 /\ IsCutUp(micro'[s], Len(chunk[s]), AgreedNumber(s), dynamic,
                            [i \in DOMAIN chunk[s] |-> i])
      <3>1. CASE s = r
        BY <2>1, <3>1
      <3>2. CASE s # r
        BY <2>1, <2>5, <3>2 DEF IInv, MicroInv
      <3> QED BY <3>1, <3>2
    <2> QED BY <2>2, <2>3, <2>4, <2>5 DEF MicroInv
  <1>2. InputsInv' /\ PrepareInv' /\ DealtInv' /\ WantedInv'
    BY DEF IInv, InputsInv, PrepareInv, DealtInv, WantedInv, RankIds, Unset
  <1>3. OutputInv'
    BY DEF IInv, OutputInv, Rows
  <1> QED BY <1>1, <1>2, <1>3 DEF IInv

(* rearrange_micro_batches.                                                 *)
LEMMA MakeDynamicKeeps ==
  ASSUME IInv, NEW r \in RankIds, MakeDynamic(r)
  PROVE  IInv'
PROOF
  <1> DEFINE l == Lengths(chunk[r])
             a == AgreedNumber(r)
             parts == MicroBatches(l, a)
  <1>1. /\ pc = "workers" /\ dynamic /\ AllReduced
        /\ micro' = [micro EXCEPT ![r] = parts]
        /\ UNCHANGED <<inputs, pc, batch, padding, chunk, wanted, output, result>>
    BY DEF MakeDynamic
  <1>2. l \in Seq(Nat \ {0}) /\ Len(l) = Len(chunk[r])
    BY <1>1, PartOfRank
  <1>3. a \in 1 .. Len(l)
    BY <1>1, <1>2, AgreedNumberIs
  <1> HIDE DEF l, a
  <1>4. AreMicroBatches(parts, Len(l), a)
    BY <1>2, <1>3, MicroBatchesAreShares
  <1> HIDE DEF parts
  <1>5. IsCutUp(parts, Len(chunk[r]), AgreedNumber(r), dynamic,
                [i \in DOMAIN chunk[r] |-> i])
    BY <1>1, <1>2, <1>4 DEF IsCutUp, a
  <1> QED BY <1>1, <1>5, MadeMicroKeeps

(* DataProto.split into micro-batches.                                      *)
LEMMA MakeFixedKeeps ==
  ASSUME IInv, NEW r \in RankIds, MakeFixed(r)
  PROVE  IInv'
PROOF
  <1> DEFINE turns == [i \in DOMAIN chunk[r] |-> i]
             n == Len(chunk[r])
             parts == Split(turns, MicroBatchSize)
  <1>1. /\ pc = "workers" /\ ~dynamic
        /\ micro' = [micro EXCEPT ![r] = parts]
        /\ UNCHANGED <<inputs, pc, batch, padding, chunk, wanted, output, result>>
    BY DEF MakeFixed
  <1>2. n \in Nat \ {0} /\ chunk[r] \in Seq(Rows)
    BY <1>1, PartOfRank
  <1>3. turns = [i \in 1 .. n |-> i]
    BY <1>2
  <1>4. MicroBatchSize \in Nat \ {0}
    BY BatchCallAssumption
  <1> HIDE DEF turns, n
  <1>5. AreMicroBatches(parts, n, CeilDiv(n, MicroBatchSize)) /\ FlattenSeq(parts) = turns
    BY <1>2, <1>3, <1>4, SplitsAreMicroBatches
  <1> HIDE DEF parts
  <1>6. IsCutUp(parts, n, AgreedNumber(r), dynamic, turns)
    BY <1>1, <1>5 DEF IsCutUp
  <1> QED BY <1>1, <1>6, MadeMicroKeeps DEF n, turns

(* What a rank returns is in the order of what it was given.                *)
LEMMA ComputeKeeps ==
  ASSUME IInv, NEW r \in RankIds, Compute(r)
  PROVE  IInv'
PROOF
  <1> DEFINE computed == Reorder(chunk[r], FlattenSeq(micro[r]))
             made == IF dynamic THEN Restore(computed, micro[r]) ELSE computed
  <1>1. /\ pc = "workers" /\ micro[r] # <<>>
        /\ output' = [output EXCEPT ![r] = made]
        /\ UNCHANGED <<inputs, pc, batch, padding, chunk, wanted, micro, result>>
    BY DEF Compute
  <1> USE DEF inputs
  <1>2. chunk[r] \in Seq(Rows)
    BY <1>1, PartOfRank
  <1>3. IsCutUp(micro[r], Len(chunk[r]), AgreedNumber(r), dynamic,
                [i \in DOMAIN chunk[r] |-> i])
    BY <1>1 DEF IInv, MicroInv
  <1>4. made = chunk[r]
    <2>1. CASE dynamic
      <3>1. AreMicroBatches(micro[r], Len(chunk[r]), AgreedNumber(r))
        BY <1>3, <2>1 DEF IsCutUp
      <3>2. Restore(computed, micro[r]) = chunk[r]
        BY <1>2, <3>1, PutBackAsTheyWere
      <3> QED BY <2>1, <3>2
    <2>2. CASE ~dynamic
      <3>1. FlattenSeq(micro[r]) = [i \in DOMAIN chunk[r] |-> i]
        BY <1>3, <2>2 DEF IsCutUp
      <3>2. Reorder(chunk[r], [i \in DOMAIN chunk[r] |-> i]) = chunk[r]
        BY <1>2, TakenInTurn
      <3> QED BY <2>2, <3>1, <3>2
    <2> QED BY <2>1, <2>2 DEF IInv, InputsInv
  <1> HIDE DEF made
  <1>5. OutputInv'
    <2>1. output \in [RankIds -> Seq(Rows)]
          /\ \A s \in RankIds : output[s] # <<>> => output[s] = chunk[s]
      BY DEF IInv, OutputInv
    <2>2. output' \in [RankIds -> Seq(Rows)]
      BY <1>1, <1>2, <1>4, <2>1
    <2>3. ASSUME NEW s \in RankIds, output'[s] # <<>> PROVE output'[s] = chunk[s]
      <3>1. CASE s = r
        BY <1>1, <1>4, <2>1, <3>1
      <3>2. CASE s # r
        BY <1>1, <2>1, <2>3, <3>2
      <3> QED BY <3>1, <3>2
    <2>4. Rows' = Rows
      BY <1>1 DEF Rows
    <2> QED BY <1>1, <2>2, <2>3, <2>4 DEF OutputInv
  <1>6. InputsInv' /\ PrepareInv' /\ DealtInv' /\ WantedInv'
    BY <1>1 DEF IInv, InputsInv, PrepareInv, DealtInv, WantedInv, RankIds, Unset
  <1>7. MicroInv'
    <2>1. AllReduced' <=> AllReduced
      BY <1>1 DEF AllReduced
    <2>2. \A s : AgreedNumber(s)' = AgreedNumber(s)
      BY <1>1 DEF AgreedNumber
    <2> QED BY <1>1, <2>1, <2>2 DEF IInv, MicroInv
  <1> QED BY <1>5, <1>6, <1>7 DEF IInv

(* The driver takes the outputs when all ranks have returned.               *)
LEMMA CollectKeeps ==
  ASSUME IInv, Collect
  PROVE  IInv'
PROOF
  <1> USE DEF inputs
  <1>1. /\ pc = "workers" /\ \A r \in RankIds : output[r] # <<>>
        /\ result' = Unpad(FlattenSeq(output), padding)
        /\ pc' = "done"
        /\ UNCHANGED <<inputs, batch, padding, chunk, wanted, micro, output>>
    BY DEF Collect
  <1>2. output = chunk
    <2>1. output \in [RankIds -> Seq(Rows)] /\ \A r \in RankIds : output[r] = chunk[r]
      BY <1>1 DEF IInv, OutputInv
    <2> DEFINE S == Seq(1 .. Len(length))
    <2>2. chunk \in Seq(S) /\ Len(chunk) = Ranks
      BY <1>1 DEF IInv, DealtInv, IsDealt
    <2> HIDE DEF S
    <2>3. chunk = [r \in RankIds |-> chunk[r]]
      BY <2>2 DEF RankIds
    <2>4. output = [r \in RankIds |-> output[r]]
      BY <2>1
    <2> QED BY <2>1, <2>3, <2>4
  <1>3. result' = SubSeq(batch, 1, Len(length))
    BY <1>1, <1>2 DEF IInv, DealtInv, Returns
  <1>4. OutputInv'
    <2>1. Rows' = Rows
      BY <1>1 DEF Rows
    <2> QED BY <1>1, <1>2, <1>3, <2>1 DEF IInv, OutputInv
  <1>5. InputsInv' /\ PrepareInv' /\ DealtInv' /\ WantedInv'
    BY <1>1 DEF IInv, InputsInv, PrepareInv, DealtInv, WantedInv, RankIds, Unset
  <1>6. MicroInv'
    <2>1. AllReduced' <=> AllReduced
      BY <1>1 DEF AllReduced
    <2>2. \A s : AgreedNumber(s)' = AgreedNumber(s)
      BY <1>1 DEF AgreedNumber
    <2> QED BY <1>1, <2>1, <2>2 DEF IInv, MicroInv
  <1> QED BY <1>4, <1>5, <1>6 DEF IInv

(* A step that changes nothing.                                             *)
LEMMA StutterKeeps ==
  ASSUME IInv, UNCHANGED vars
  PROVE  IInv'
PROOF
  <1> USE DEF vars, inputs
  <1>1. AllReduced' <=> AllReduced
    BY DEF AllReduced
  <1>2. \A s : AgreedNumber(s)' = AgreedNumber(s)
    BY DEF AgreedNumber
  <1>3. InputsInv' /\ PrepareInv' /\ DealtInv' /\ WantedInv'
    BY DEF IInv, InputsInv, PrepareInv, DealtInv, WantedInv, RankIds, Unset
  <1>4. MicroInv'
    BY <1>1, <1>2 DEF IInv, MicroInv
  <1>5. OutputInv'
    BY DEF IInv, OutputInv, Rows
  <1> QED BY <1>3, <1>4, <1>5 DEF IInv

(* What holds in every state of a call.                                     *)
THEOREM CallInvariant == Spec => []IInv
PROOF
  <1>1. IInv /\ [Next]_vars => IInv'
    <2> SUFFICES ASSUME IInv, [Next]_vars
                 PROVE  IInv'
      OBVIOUS
    <2>1. CASE Balance
      BY <2>1, BalanceKeeps
    <2>2. CASE PadAndDeal
      BY <2>2, PadAndDealKeeps
    <2>3. CASE AutoPadAndDeal
      BY <2>3, AutoPadAndDealKeeps
    <2>4. ASSUME NEW r \in RankIds, Work(r) PROVE IInv'
      <3>1. CASE Count(r)
        BY <3>1, CountKeeps
      <3>2. CASE MakeDynamic(r)
        BY <3>2, MakeDynamicKeeps
      <3>3. CASE MakeFixed(r)
        BY <3>3, MakeFixedKeeps
      <3>4. CASE Compute(r)
        BY <3>4, ComputeKeeps
      <3> QED BY <2>4, <3>1, <3>2, <3>3, <3>4 DEF Work
    <2>5. CASE Collect
      BY <2>5, CollectKeeps
    <2>6. CASE Returned
      BY <2>6, StutterKeeps DEF Returned
    <2>7. CASE UNCHANGED vars
      BY <2>7, StutterKeeps
    <2> QED BY <2>1, <2>2, <2>3, <2>4, <2>5, <2>6, <2>7 DEF Next
  <1> QED BY <1>1, InitHolds, PTL DEF Spec

-----------------------------------------------------------------------------
(* ResultFollowsBatch: what the driver gets back has one output for each of *)
(* its rows, in the order its batch has then.                               *)
THEOREM ResultsFollowTheBatch == Spec => []ResultFollowsBatch
PROOF
  <1>1. IInv => ResultFollowsBatch
    BY DEF IInv, OutputInv, ResultFollowsBatch
  <1> QED BY <1>1, CallInvariant, PTL

(* The micro-batches of a rank, as many as the rank was to make.            *)
LEMMA MadeAsAgreed ==
  ASSUME IInv, NEW r \in RankIds, micro[r] # <<>>
  PROVE  /\ pc # "prepare"
         /\ AreMicroBatches(micro[r], Len(chunk[r]), Len(micro[r]))
         /\ Len(micro[r]) \in 1 .. Len(chunk[r])
         /\ Len(micro[r]) = IF dynamic THEN AgreedNumber(r)
                            ELSE CeilDiv(Len(chunk[r]), MicroBatchSize)
PROOF
  <1> DEFINE n == Len(chunk[r])
             m == Len(micro[r])
             a == AgreedNumber(r)
             f == CeilDiv(n, MicroBatchSize)
  <1>1. pc # "prepare"
    BY DEF IInv, PrepareInv, Unset
  <1>2. n \in Nat \ {0}
    BY <1>1, PartOfRank
  <1>3. (dynamic => AllReduced) /\ AreMicroBatches(micro[r], n, IF dynamic THEN a ELSE f)
    BY <1>1 DEF IInv, MicroInv, IsCutUp
  <1>4. m = IF dynamic THEN a ELSE f
    BY <1>3 DEF AreMicroBatches
  <1>5. dynamic => a \in 1 .. n
    BY <1>1, <1>3, AgreedNumberIs
  <1>6. f \in 1 .. n
    <2>1. MicroBatchSize \in Nat \ {0}
      BY BatchCallAssumption
    <2> HIDE DEF n
    <2> QED BY <1>2, <2>1, SplitsAreMicroBatches DEF f
  <1> HIDE DEF n, m, a, f
  <1>7. m \in 1 .. n
    BY <1>4, <1>5, <1>6
  <1>8. AreMicroBatches(micro[r], n, m)
    BY <1>3, <1>4
  <1> QED BY <1>1, <1>4, <1>7, <1>8 DEF n, m, a, f

(* AssertionsHold: the partitions that get_seqlen_balanced_partitions       *)
(* checks cover the rows of the rank, and none is empty.                    *)
THEOREM NoAssertionFails == Spec => []AssertionsHold
PROOF
  <1>1. IInv => AssertionsHold
    <2> SUFFICES ASSUME IInv, NEW r \in RankIds, micro[r] # <<>>
                 PROVE  ArePartitions(micro[r], chunk[r], Len(micro[r]))
      BY DEF AssertionsHold
    <2> DEFINE n == Len(chunk[r])
               m == Len(micro[r])
               parts == micro[r]
               N == 1 .. n
    <2>1. AreMicroBatches(parts, n, m) /\ m \in 1 .. n /\ n \in Nat
          /\ DOMAIN chunk[r] = 1 .. n
      <3>1. pc # "prepare"
        BY MadeAsAgreed
      <3>2. n \in Nat /\ DOMAIN chunk[r] = 1 .. n
        BY <3>1, PartOfRank
      <3> QED BY <3>2, MadeAsAgreed
    <2>2. /\ parts \in Seq(Seq(N)) /\ Len(parts) = m /\ Covers(parts, n)
          /\ \A p \in 1 .. m : Len(parts[p]) > 0
      BY <2>1 DEF AreMicroBatches
    <2> HIDE DEF parts, n, m
    <2>3. ASSUME NEW p \in 1 .. m
          PROVE  parts[p] # <<>> /\ Range(parts[p]) \subseteq N
                 /\ \A x : In(x, parts[p]) <=> x \in Range(parts[p])
      <3>1. parts[p] \in Seq(N)
        <4> HIDE DEF N
        <4> QED BY <2>2
      <3>2. parts[p] # <<>>
        BY <2>2
      <3>3. DOMAIN parts[p] = 1 .. Len(parts[p])
            /\ \A a \in 1 .. Len(parts[p]) : parts[p][a] \in N
        <4> HIDE DEF N
        <4> QED BY <3>1
      <3> QED BY <3>2, <3>3 DEF Range, In
    <2>4. UNION {Range(parts[p]) : p \in 1 .. m} = N
      <3>1. ASSUME NEW x \in N
            PROVE  \E p \in 1 .. m : x \in Range(parts[p])
        <4>1. PICK p \in 1 .. m : In(x, parts[p])
          BY <2>2 DEF Covers, In
        <4> QED BY <2>3, <4>1
      <3> HIDE DEF N
      <3> QED BY <2>3, <3>1
    <2>5. n >= m
      BY <2>1
    <2>6. DOMAIN chunk[r] = N /\ Len(chunk[r]) >= m
      BY <2>1, <2>5 DEF n
    <2>7. ArePartitions(parts, chunk[r], m)
      BY <2>3, <2>4, <2>6 DEF ArePartitions
    <2> QED BY <2>7 DEF parts, m
  <1> QED BY <1>1, CallInvariant, PTL

(* RanksKeepStep: no rank makes more forward passes than another.           *)
THEOREM RanksStayInStep == Spec => []RanksKeepStep
PROOF
  <1>1. IInv => RanksKeepStep
    <2> SUFFICES ASSUME IInv, NEW r \in RankIds, NEW s \in RankIds,
                        micro[r] # <<>>, micro[s] # <<>>
                 PROVE  Len(micro[r]) = Len(micro[s])
      BY DEF RanksKeepStep
    <2>1. Len(chunk[r]) = Len(chunk[s])
      BY MadeAsAgreed, PartOfRank
    <2>2. AgreedNumber(r) = AgreedNumber(s)
      BY DEF AgreedNumber
    <2> QED BY <2>1, <2>2, MadeAsAgreed
  <1> QED BY <1>1, CallInvariant, PTL

-----------------------------------------------------------------------------
(* A rank counts the tokens it was given, and its micro-batches are as      *)
(* full as the property allows.                                             *)
FitInv ==
    /\ \A r \in RankIds :
           wanted[r] # 0 =>
               wanted[r] = NumMicroBatches(Lengths(chunk[r]), MaxTokenLen)
    /\ MicroBatchesNearlyFit

(* No row of a rank is longer than max_token_len.                           *)
LEMMA RowsFit ==
  ASSUME IInv, pc # "prepare", NEW r \in RankIds
  PROVE  /\ MaxTokenLen \in Nat \ {0}
         /\ \A i \in 1 .. Len(Lengths(chunk[r])) :
                Lengths(chunk[r])[i] = length[chunk[r][i]]
                /\ Lengths(chunk[r])[i] <= MaxTokenLen
PROOF
  <1> DEFINE c == chunk[r]
             l == Lengths(c)
  <1>1. /\ c \in Seq(Rows) /\ Len(c) \in Nat /\ Len(c) > 0 /\ Len(l) = Len(c)
    BY PartOfRank
  <1> HIDE DEF c
  <1>2. length \in Seq(TokenCounts)
    BY DEF IInv, InputsInv
  <1>3. \A n \in TokenCounts : n \in Nat \ {0} /\ n <= MaxTokenLen
    BY BatchCallAssumption
  <1>4. ASSUME NEW i \in 1 .. Len(c)
        PROVE  l[i] = length[c[i]] /\ length[c[i]] \in TokenCounts
    <2>1. i \in DOMAIN c /\ c[i] \in Rows
      BY <1>1
    <2>2. length[c[i]] \in TokenCounts
      BY <1>2, <2>1 DEF Rows
    <2> QED BY <2>1, <2>2 DEF Lengths
  <1>5. MaxTokenLen \in Nat \ {0}
    <2>1. 1 \in 1 .. Len(c)
      BY <1>1
    <2>2. PICK n \in TokenCounts : n \in Nat \ {0} /\ n <= MaxTokenLen
      BY <1>3, <1>4, <2>1
    <2>3. MaxTokenLen \in Nat
      BY BatchCallAssumption
    <2> QED BY <2>2, <2>3
  <1> HIDE DEF l
  <1>6. \A i \in 1 .. Len(l) : l[i] = length[c[i]] /\ l[i] <= MaxTokenLen
    BY <1>1, <1>3, <1>4
  <1> QED BY <1>5, <1>6 DEF l, c

(* rearrange_micro_batches with the number that the ranks agreed on.        *)
LEMMA MakeDynamicFits ==
  ASSUME IInv, FitInv, NEW r \in RankIds, MakeDynamic(r)
  PROVE  FitInv'
PROOF
  <1> DEFINE l == Lengths(chunk[r])
             a == AgreedNumber(r)
             parts == MicroBatches(l, a)
  <1>1. /\ pc = "workers" /\ dynamic /\ AllReduced
        /\ micro' = [micro EXCEPT ![r] = parts]
        /\ UNCHANGED <<length, dynamic, chunk, wanted>>
    BY DEF MakeDynamic, inputs
  <1>2. l \in Seq(Nat \ {0}) /\ Len(l) = Len(chunk[r])
    BY <1>1, PartOfRank
  <1>3. a \in 1 .. Len(l) /\ wanted[r] <= a
    BY <1>1, <1>2, AgreedNumberIs
  <1>4. NumMicroBatches(l, MaxTokenLen) <= a
    <2>1. wanted[r] # 0
      <3>1. wanted[r] \in Nat /\ wanted[r] > 0
        BY <1>1 DEF AllReduced, IInv, WantedInv
      <3> QED BY <3>1
    <2>2. wanted[r] = NumMicroBatches(l, MaxTokenLen)
      BY <2>1 DEF FitInv
    <2> HIDE DEF l, a
    <2> QED BY <1>3, <2>2
  <1>5. /\ MaxTokenLen \in Nat \ {0}
        /\ \A i \in 1 .. Len(l) : l[i] = length[chunk[r][i]] /\ l[i] <= MaxTokenLen
    BY <1>1, RowsFit
  <1>6. DOMAIN chunk[r] = 1 .. Len(l)
    <2>1. chunk[r] \in Seq(Rows)
      BY <1>1, PartOfRank
    <2> HIDE DEF l
    <2> QED BY <1>2, <2>1
  <1> HIDE DEF l, a
  <1>7. DOMAIN parts = 1 .. a
    <2>1. AreMicroBatches(parts, Len(l), a)
      BY <1>2, <1>3, MicroBatchesAreShares
    <2> HIDE DEF parts
    <2> QED BY <2>1 DEF AreMicroBatches
  <1>8. ASSUME NEW p \in DOMAIN parts
        PROVE  \E i \in DOMAIN chunk[r] :
                   TokensIn(parts[p], l) < MaxTokenLen + length[chunk[r][i]]
    <2>1. p \in 1 .. a
      BY <1>7
    <2>2. \E i \in 1 .. Len(l) : TokensIn(parts[p], l) < MaxTokenLen + l[i]
      BY <1>2, <1>3, <1>4, <1>5, <2>1, MicroBatchesNearFit
    <2> HIDE DEF parts
    <2> QED BY <1>5, <1>6, <2>2
  <1> HIDE DEF parts
  <1>9. MicroBatchesNearlyFit'
    <2> SUFFICES ASSUME NEW s \in RankIds, NEW p \in DOMAIN micro'[s]
                 PROVE  \E i \in DOMAIN chunk[s] :
                            TokensIn(micro'[s][p], Lengths(chunk[s]))
                              < MaxTokenLen + length[chunk[s][i]]
      BY <1>1 DEF MicroBatchesNearlyFit, TokensOf, Lengths
    <2>1. DOMAIN micro = RankIds
      BY DEF IInv, MicroInv
    <2>2. CASE s = r
      <3>1. micro'[s] = parts
        BY <1>1, <2>1, <2>2
      <3> QED BY <1>8, <2>2, <3>1 DEF l
    <2>3. CASE s # r
      <3>1. micro'[s] = micro[s]
        BY <1>1, <2>1, <2>3
      <3> QED BY <1>1, <3>1 DEF FitInv, MicroBatchesNearlyFit, TokensOf
    <2> QED BY <2>2, <2>3
  <1> QED BY <1>1, <1>9 DEF FitInv, Lengths

(* Every step leaves it.                                                    *)
LEMMA NextFits ==
  ASSUME IInv, FitInv, [Next]_vars
  PROVE  FitInv'
PROOF
  <1>1. CASE Balance \/ PadAndDeal \/ AutoPadAndDeal
    <2>1. /\ pc = "prepare" /\ UNCHANGED <<wanted, micro>>
      BY <1>1 DEF Balance, PadAndDeal, AutoPadAndDeal, Deal
    <2>2. /\ wanted' = [r \in RankIds |-> 0]
          /\ micro' = [r \in RankIds |-> <<>>]
      BY <2>1 DEF IInv, PrepareInv, Unset
    <2>3. \A r \in RankIds : DOMAIN micro'[r] = {}
      BY <2>2
    <2> QED BY <2>2, <2>3 DEF FitInv, MicroBatchesNearlyFit
  <1>2. ASSUME NEW r \in RankIds, Count(r) PROVE FitInv'
    <2>1. /\ wanted' = [wanted EXCEPT
                          ![r] = NumMicroBatches(Lengths(chunk[r]), MaxTokenLen)]
          /\ UNCHANGED <<length, dynamic, chunk, micro>>
      BY <1>2 DEF Count, inputs
    <2>2. wanted \in [RankIds -> Nat]
      BY DEF IInv, WantedInv
    <2>3. ASSUME NEW s \in RankIds, wanted'[s] # 0
          PROVE  wanted'[s] = NumMicroBatches(Lengths(chunk[s]), MaxTokenLen)
      BY <2>1, <2>2, <2>3 DEF FitInv
    <2> QED BY <2>1, <2>3 DEF FitInv, MicroBatchesNearlyFit, TokensOf, Lengths
  <1>3. ASSUME NEW r \in RankIds, MakeDynamic(r) PROVE FitInv'
    BY <1>3, MakeDynamicFits
  <1>4. ASSUME NEW r \in RankIds, MakeFixed(r) PROVE FitInv'
    <2>1. ~dynamic /\ UNCHANGED <<length, dynamic, chunk, wanted>>
      BY <1>4 DEF MakeFixed, inputs
    <2> QED BY <2>1 DEF FitInv, MicroBatchesNearlyFit, Lengths
  <1>5. CASE \/ \E r \in RankIds : Compute(r)
             \/ Collect \/ Returned \/ UNCHANGED vars
    <2>1. UNCHANGED <<length, dynamic, chunk, wanted, micro>>
      BY <1>5 DEF Compute, Collect, Returned, vars, inputs
    <2> QED BY <2>1 DEF FitInv, MicroBatchesNearlyFit, TokensOf, Lengths
  <1> QED BY <1>1, <1>2, <1>3, <1>4, <1>5 DEF Next, Work

(* MicroBatchesNearlyFit: a dynamic micro-batch may have more tokens than   *)
(* max_token_len, but by less than one of the rank's rows has, for any rows *)
(* and any number of ranks.                                                 *)
THEOREM MicroBatchesAreNearFit == Spec => []MicroBatchesNearlyFit
PROOF
  <1>1. Init => FitInv
    <2> SUFFICES ASSUME Init PROVE FitInv
      OBVIOUS
    <2>1. /\ wanted = [r \in RankIds |-> 0] /\ micro = [r \in RankIds |-> <<>>]
      BY DEF Init, Unset
    <2>2. \A r \in RankIds : DOMAIN micro[r] = {} /\ wanted[r] = 0
      BY <2>1
    <2> QED BY <2>2 DEF FitInv, MicroBatchesNearlyFit
  <1>2. IInv /\ FitInv /\ [Next]_vars => FitInv'
    BY NextFits
  <1>3. FitInv => MicroBatchesNearlyFit
    BY DEF FitInv
  <1> QED BY <1>1, <1>2, <1>3, CallInvariant, PTL DEF Spec

(* RanksAreBalanced: after _balance_batch the ranks have as many rows, and  *)
(* tokens that differ by at most one of the spreads of the sorted lengths.  *)
THEOREM BalancingBalances == Spec => []RanksAreBalanced
PROOF
  <1>1. IInv => RanksAreBalanced
    <2> SUFFICES ASSUME IInv, mode = "balance", pc # "prepare"
                 PROVE  \A r, s \in RankIds :
                            /\ Len(chunk[r]) = Len(chunk[s])
                            /\ \E d \in GroupSpreads : SumOf(r) - SumOf(s) <= d
      BY DEF RanksAreBalanced
    <2>1. AreShares(chunk, length, Ranks, TRUE)
      BY DEF IInv, DealtInv
    <2>2. GroupSpreads = Bounds(length, Ranks, TRUE)
      BY DEF GroupSpreads, Bounds, Spreads
    <2> QED BY <2>1, <2>2 DEF AreShares, SumOf, RankIds
  <1> QED BY <1>1, CallInvariant, PTL

(* CollectUndoesDispatch: from the ranks of a megatron mesh that have the   *)
(* outputs of a data rank, the driver takes each part once, in order.       *)
THEOREM EveryPartIsCollected == Spec => []CollectUndoesDispatch
PROOF
  <1>1. IInv => CollectUndoesDispatch
    <2> SUFFICES ASSUME IInv, pc = "done", NEW m \in Meshes
                 PROVE  CollectMegatron(m, DispatchMegatron(m, output)) = output
      BY DEF CollectUndoesDispatch
    <2>1. IsMesh(m) /\ m.dp = Ranks
      BY BatchCallAssumption, MCBatchCallAssumption DEF Meshes, IsMesh
    <2>2. output = chunk /\ IsDealt(chunk, Len(length), Ranks)
      BY DEF IInv, OutputInv, DealtInv
    <2> DEFINE S == Seq(1 .. Len(length))
    <2>3. output \in Seq(S) /\ Len(output) = m.dp
      BY <2>1, <2>2 DEF IsDealt
    <2> HIDE DEF S
    <2> QED BY <2>1, <2>3, CollectIsInverse
  <1> QED BY <1>1, CallInvariant, PTL

=============================================================================
