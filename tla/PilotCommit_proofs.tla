-------------------------- MODULE PilotCommit_proofs --------------------------
(***************************************************************************)
(* The invariants of PilotCommit, for every dataset, buffer strategy, batch *)
(* size, threshold and number of GPUs, epochs and steps, and the proof that *)
(* it implements PromptLifecycle.                                           *)
(***************************************************************************)
EXTENDS PilotCommitProps, FiniteSetTheorems, TLAPS

-----------------------------------------------------------------------------
(* The size of a commit batch, for all numbers of prompts, rollouts and     *)
(* GPUs.                                                                    *)

(* A nonempty set of numbers up to c has a largest element, so that the     *)
(* CHOOSEs of CommitSize choose something: among the sets of numbers above  *)
(* an element, ordered by inclusion, one is minimal.                        *)
LEMMA LargestExists ==
  ASSUME NEW c \in Nat, NEW S, S \subseteq 0 .. c, S # {}
  PROVE  \E k \in S : \A x \in S : x <= k
PROOF
  <1> DEFINE Above(k) == (k + 1) .. c
             T == {Above(k) : k \in S}
             R == StrictSubsetOrdering(0 .. c)
             F == FiniteSubsetsOf(0 .. c)
  <1>1. T \subseteq F /\ T # {}
    <2>1. \A k \in S : Above(k) \subseteq 0 .. c
      OBVIOUS
    <2>2. \A k \in S : IsFiniteSet(Above(k))
      BY FS_Interval
    <2> QED BY <2>1, <2>2 DEF FiniteSubsetsOf
  <1>2. IsWellFoundedOn(R, F)
    BY FS_StrictSubsetOrderingWellFounded
  <1>3. \E U \in T : \A V \in T : ~ (<<V, U>> \in R)
    <2> HIDE DEF T, R, F
    <2> QED BY <1>1, <1>2, WFMin
  <1>4. PICK k \in S : \A x \in S : ~ (<<Above(x), Above(k)>> \in R)
    BY <1>3
  <1>5. ASSUME NEW x \in S, x > k
        PROVE  FALSE
    <2>1. Above(x) \subseteq Above(k) /\ Above(x) # Above(k)
      <3>1. x \in Above(k) /\ x \notin Above(x)
        BY <1>5
      <3> QED BY <3>1, <1>5
    <2>2. Above(x) \in SUBSET (0 .. c) /\ Above(k) \in SUBSET (0 .. c)
      OBVIOUS
    <2> HIDE DEF Above
    <2> QED BY <1>4, <2>1, <2>2 DEF StrictSubsetOrdering
  <1>6. \A x \in S : x <= k
    BY <1>5
  <1> QED BY <1>6

(* Division never returns more than it was given.                           *)
LEMMA DivisionBounds ==
  ASSUME NEW a \in Nat, NEW b \in Nat \ {0}
  PROVE  /\ a \div b \in Nat
         /\ (a \div b) * b <= a
         /\ a < (a \div b) * b + b
  OBVIOUS

(* The greatest common divisor is one of the common divisors.               *)
LEMMA GcdIsCommonDivisor ==
  ASSUME NEW a \in Nat \ {0}, NEW b \in Nat \ {0}
  PROVE  Gcd(a, b) \in CommonDivisors(a, b)
PROOF
  <1>1. 1 \in CommonDivisors(a, b)
    BY DEF CommonDivisors
  <1>2. CommonDivisors(a, b) \subseteq 0 .. a
    BY DEF CommonDivisors
  <1>3. \E d \in CommonDivisors(a, b) : \A x \in CommonDivisors(a, b) : x <= d
    BY <1>1, <1>2, LargestExists
  <1> QED BY <1>3 DEF Gcd

(* The least common multiple is a positive multiple of both numbers.        *)
LEMMA LcmIsCommonMultiple ==
  ASSUME NEW a \in Nat \ {0}, NEW b \in Nat \ {0}
  PROVE  /\ Lcm(a, b) \in Nat \ {0}
         /\ \E k \in Nat \ {0} : Lcm(a, b) = a * k
         /\ \E k \in Nat \ {0} : Lcm(a, b) = b * k
PROOF
  <1> DEFINE d == Gcd(a, b)
  <1>1. d \in 1 .. a /\ a % d = 0 /\ b % d = 0
    BY GcdIsCommonDivisor DEF CommonDivisors
  <1> HIDE DEF d
  <1>2. PICK p \in Nat \ {0} : a = d * p
    <2>1. a = d * (a \div d) /\ a \div d \in Nat
      BY <1>1
    <2>2. a \div d # 0
      BY <2>1, <1>1
    <2> QED BY <2>1, <2>2
  <1>3. PICK q \in Nat \ {0} : b = d * q
    <2>1. b = d * (b \div d) /\ b \div d \in Nat
      BY <1>1
    <2>2. b \div d # 0
      BY <2>1, <1>1
    <2> QED BY <2>1, <2>2
  <1>4. \A x \in Nat : (d * x) \div d = x
    BY <1>1
  <1>5. a * b = d * (p * b) /\ p * b \in Nat
    BY <1>1, <1>2, <1>3
  <1>6. Lcm(a, b) = p * b
    BY <1>4, <1>5 DEF Lcm, d
  <1>7. p * b = a * q
    BY <1>1, <1>2, <1>3
  <1>8. p * b \in Nat \ {0}
    BY <1>2
  <1>9. Lcm(a, b) = a * q /\ Lcm(a, b) = b * p
    BY <1>6, <1>7, <1>2
  <1> QED BY <1>6, <1>8, <1>9, <1>2, <1>3

(* What the shortcut of the simple case returns: the prompts of a whole     *)
(* number of common multiples of rollouts, no more than wanted.             *)
LEMMA ByLcmBounds ==
  ASSUME NEW c \in Nat, NEW n \in Nat \ {0}, NEW g \in Nat \ {0}
  PROVE  /\ ByLcm(c, n, g) \in 0 .. c
         /\ \E k \in Nat : ByLcm(c, n, g) * n = g * k
PROOF
  <1> DEFINE L == Lcm(g, n)
             q == (c * n) \div L
  <1>1. L \in Nat \ {0}
    BY LcmIsCommonMultiple
  <1>2. PICK i \in Nat \ {0} : L = g * i
    BY LcmIsCommonMultiple
  <1>3. PICK j \in Nat \ {0} : L = n * j
    BY LcmIsCommonMultiple
  <1>4. ByLcm(c, n, g) = (q * L) \div n
    BY DEF ByLcm
  <1> HIDE DEF L
  <1>5. c * n \in Nat
    OBVIOUS
  <1>6. q \in Nat /\ q * L <= c * n
    BY <1>1, <1>5, DivisionBounds
  <1> HIDE DEF q
  <1>7. q * L = n * (q * j) /\ q * j \in Nat
    BY <1>3, <1>6
  <1>8. \A x \in Nat : (n * x) \div n = x
    OBVIOUS
  <1>9. ByLcm(c, n, g) = q * j
    BY <1>4, <1>7, <1>8
  <1>10. q * j <= c
    <2>1. (q * j) * n <= c * n
      BY <1>6, <1>7
    <2> QED BY <2>1, <1>7
  <1>11. (q * j) * n = g * (q * i) /\ q * i \in Nat
    <2>1. (q * j) * n = q * L
      BY <1>7
    <2>2. q * L = g * (q * i)
      BY <1>2, <1>6
    <2> QED BY <2>1, <2>2, <1>2, <1>6
  <1>12. ByLcm(c, n, g) \in 0 .. c
    BY <1>7, <1>9, <1>10
  <1>13. ByLcm(c, n, g) * n = g * (q * i)
    BY <1>9, <1>11
  <1> QED BY <1>11, <1>12, <1>13

(* The loop of the general case ends between 0 and the prompts wanted.      *)
LEMMA ByDecrementBounds ==
  ASSUME NEW c \in Nat, NEW e \in Nat, NEW n \in Nat \ {0}, NEW g \in Nat \ {0}
  PROVE  ByDecrement(c, e, n, g) \in 0 .. c
PROOF
  <1>1. StopsAt(c, e, n, g) \subseteq 0 .. c /\ 0 \in StopsAt(c, e, n, g)
    BY DEF StopsAt
  <1>2. \E k \in StopsAt(c, e, n, g) : \A x \in StopsAt(c, e, n, g) : x <= k
    BY <1>1, LargestExists
  <1> QED BY <1>1, <1>2 DEF ByDecrement

-----------------------------------------------------------------------------
(* The adjusted size is never negative and never more than was asked for,   *)
(* as the docstring at pc_ray_trainer.py:251 says.                          *)
THEOREM CommitSizeInRange ==
  ASSUME NEW c \in Nat, NEW e \in Nat, NEW n \in Nat \ {0}, NEW g \in Nat \ {0}
  PROVE  AdjustCommitBatchSize(c, e, n, g) \in 0 .. c
PROOF
  <1>1. c \in 0 .. c
    OBVIOUS
  <1>2. ByLcm(c, n, g) \in 0 .. c
    BY ByLcmBounds
  <1>3. ByDecrement(c, e, n, g) \in 0 .. c
    BY ByDecrementBounds
  <1> QED BY <1>1, <1>2, <1>3, Zenon DEF AdjustCommitBatchSize

(* When the explored rollouts can be dealt evenly to the GPUs, so can they  *)
(* together with those of the adjusted commit batch.                        *)
THEOREM CommitSizeIsEven ==
  ASSUME NEW c \in Nat, NEW e \in Nat, NEW n \in Nat \ {0}, NEW g \in Nat \ {0},
         Evenly(e, g)
  PROVE  Evenly(e + AdjustCommitBatchSize(c, e, n, g) * n, g)
PROOF
  <1> CASE Evenly(e + c * n, g)
    BY DEF AdjustCommitBatchSize
  <1> CASE ~Evenly(e + c * n, g)
    <2>1. AdjustCommitBatchSize(c, e, n, g) = ByLcm(c, n, g)
      BY DEF AdjustCommitBatchSize
    <2>2. PICK k \in Nat : ByLcm(c, n, g) * n = g * k
      BY ByLcmBounds
    <2>3. PICK m \in Nat : e = g * m
      <3>1. e = g * (e \div g) /\ e \div g \in Nat
        BY DEF Evenly
      <3> QED BY <3>1
    <2>4. e + ByLcm(c, n, g) * n = g * (m + k)
      BY <2>2, <2>3
    <2>5. (g * (m + k)) % g = 0
      OBVIOUS
    <2> QED BY <2>1, <2>4, <2>5 DEF Evenly
  <1> QED OBVIOUS


-----------------------------------------------------------------------------
(* A nonempty set of natural numbers has a least element.                   *)
LEMMA LeastExists ==
  ASSUME NEW S \in SUBSET Nat, S # {}
  PROVE  \E k \in S : \A x \in S : k <= x
PROOF
  <1>1. PICK c \in S : TRUE
    OBVIOUS
  <1> DEFINE T == {c - x : x \in {y \in S : y <= c}}
  <1>2. c \in Nat /\ T \subseteq 0 .. c /\ c - c \in T
    BY <1>1
  <1>3. \E t \in T : \A u \in T : u <= t
    <2> HIDE DEF T
    <2> QED BY <1>2, LargestExists
  <1>4. PICK k \in S : k <= c /\ \A u \in T : u <= c - k
    BY <1>3
  <1>5. \A x \in S : x <= c => c - x \in T
    OBVIOUS
  <1>6. \A x \in S : k <= x
    BY <1>2, <1>4, <1>5
  <1> QED BY <1>6

(* A number that leaves no remainder is a multiple, and conversely.         *)
LEMMA MultipleHasNoRemainder ==
  ASSUME NEW m \in Nat, NEW a \in Nat \ {0}
  PROVE  m % a = 0 <=> \E k \in Nat : m = a * k
PROOF
  <1>1. m = a * (m \div a) + (m % a) /\ m \div a \in Nat
    OBVIOUS
  <1>2. ASSUME NEW k \in Nat, m = a * k
        PROVE  m % a = 0
    BY <1>2
  <1>3. ASSUME m % a = 0
        PROVE  \E k \in Nat : m = a * k
    <2>1. m = a * (m \div a)
      BY <1>1, <1>3
    <2> QED BY <1>1, <2>1
  <1> QED BY <1>2, <1>3

(* Every common multiple is a multiple of Lcm: the remainder of one by the  *)
(* least is a smaller common multiple, and a * b divided by the least is a  *)
(* common divisor, hence no more than Gcd.                                  *)
LEMMA LcmDividesMultiples ==
  ASSUME NEW a \in Nat \ {0}, NEW b \in Nat \ {0}, NEW m \in Nat,
         m % a = 0, m % b = 0
  PROVE  \E k \in Nat : m = Lcm(a, b) * k
PROOF
  <1> DEFINE S == {x \in Nat \ {0} : x % a = 0 /\ x % b = 0}
             d == Gcd(a, b)
             L == Lcm(a, b)
  <1>1. L \in S /\ L * d = a * b /\ d \in Nat \ {0}
    <2>1. L \in Nat \ {0} /\ L % a = 0 /\ L % b = 0
      <3>1. \E i \in Nat : L = a * i
        BY LcmIsCommonMultiple
      <3>3. \E j \in Nat : L = b * j
        BY LcmIsCommonMultiple
      <3>2. L \in Nat \ {0}
        BY LcmIsCommonMultiple
      <3> HIDE DEF L
      <3> QED BY <3>1, <3>2, <3>3, MultipleHasNoRemainder
    <2>2. d \in 1 .. a /\ a % d = 0
      BY GcdIsCommonDivisor DEF CommonDivisors
    <2> HIDE DEF d
    <2>3. PICK p \in Nat : a = d * p
      <3>1. d \in Nat \ {0}
        BY <2>2
      <3> QED BY <2>2, <3>1, MultipleHasNoRemainder
    <2>4. a * b = d * (p * b) /\ p * b \in Nat
      BY <2>2, <2>3
    <2>5. \A x \in Nat : (d * x) \div d = x
      BY <2>2
    <2>6. L = p * b
      BY <2>4, <2>5 DEF Lcm, d
    <2> QED BY <2>1, <2>2, <2>4, <2>6
  <1>2. a * b \in S
    <2>1. a * b \in Nat \ {0} /\ a * b = b * a
      OBVIOUS
    <2> QED BY <2>1, MultipleHasNoRemainder
  <1> HIDE DEF d, L
  <1>3. PICK M \in S : \A x \in S : M <= x
    BY <1>1, LeastExists
  <1>4. \A x \in Nat : x % a = 0 /\ x % b = 0 => \E k \in Nat : x = M * k
    <2> SUFFICES ASSUME NEW x \in Nat, x % a = 0, x % b = 0
                 PROVE  x % M = 0
      BY <1>3, MultipleHasNoRemainder
    <2> DEFINE r == x % M
               q == x \div M
    <2>1. x = M * q + r /\ q \in Nat /\ r \in 0 .. M - 1
      BY <1>3
    <2>2. \A c \in {a, b} : r % c = 0
      <3> SUFFICES ASSUME NEW c \in {a, b} PROVE r % c = 0
        OBVIOUS
      <3>1. PICK i \in Nat : x = c * i
        BY MultipleHasNoRemainder
      <3>2. PICK j \in Nat : M = c * j
        <4>1. M \in Nat /\ M % c = 0
          BY <1>3
        <4> QED BY <4>1, MultipleHasNoRemainder
      <3>3. r = c * i - (c * j) * q
        BY <2>1, <3>1, <3>2
      <3>4. (c * j) * q = c * (j * q)
        BY <2>1
      <3> HIDE DEF r, q
      <3>5. r = c * (i - j * q) /\ i - j * q \in Int
        BY <2>1, <3>3, <3>4
      <3>6. i - j * q >= 0
        BY <2>1, <3>5
      <3> QED BY <2>1, <3>5, <3>6, MultipleHasNoRemainder
    <2>3. r \notin S
      BY <1>3, <2>1
    <2> QED BY <2>1, <2>2, <2>3
  <1>5. PICK e \in Nat : a * b = M * e
    BY <1>2, <1>4
  <1>6. e \in CommonDivisors(a, b)
    <2>1. PICK i \in Nat : M = a * i
      BY <1>3, MultipleHasNoRemainder
    <2>2. PICK j \in Nat : M = b * j
      BY <1>3, MultipleHasNoRemainder
    <2>3. e # 0
      BY <1>5
    <2>4. b = e * i
      <3>1. a * b = a * (e * i)
        BY <1>5, <2>1
      <3> QED BY <3>1
    <2>5. a = e * j
      <3>1. b * a = b * (e * j)
        BY <1>5, <2>2
      <3> QED BY <3>1
    <2>6. a % e = 0 /\ b % e = 0
      BY <2>3, <2>4, <2>5, MultipleHasNoRemainder
    <2>7. e <= a
      BY <2>3, <2>5
    <2> QED BY <2>3, <2>6, <2>7 DEF CommonDivisors
  <1>7. e <= d
    <2>1. CommonDivisors(a, b) \subseteq 0 .. a
      BY DEF CommonDivisors
    <2>2. \E x \in CommonDivisors(a, b) : \A y \in CommonDivisors(a, b) : y <= x
      BY <1>6, <2>1, LargestExists
    <2> QED BY <1>6, <2>2 DEF Gcd, d
  <1>8. M = L
    <2>1. M <= L /\ M \in Nat \ {0} /\ L \in Nat \ {0}
      BY <1>1, <1>3
    <2>2. L * d = M * e
      BY <1>1, <1>5
    <2>3. M * e <= M * d
      BY <1>1, <1>7, <2>1
    <2>4. L * d <= M * d
      BY <2>2, <2>3
    <2>5. L <= M
      BY <1>1, <2>1, <2>4
    <2> QED BY <2>1, <2>5
  <1> QED BY <1>4, <1>8 DEF L

(* The shortcut gives up no more prompts than the loop would.               *)
LEMMA ByLcmIsLargest ==
  ASSUME NEW c \in Nat, NEW n \in Nat \ {0}, NEW g \in Nat \ {0},
         NEW k \in 0 .. c, (k * n) % g = 0
  PROVE  k <= ByLcm(c, n, g)
PROOF
  <1> DEFINE L == Lcm(g, n)
             q == (c * n) \div L
  <1>1. L \in Nat \ {0}
    BY LcmIsCommonMultiple
  <1>2. PICK j \in Nat \ {0} : L = n * j
    BY LcmIsCommonMultiple
  <1>3. PICK i \in Nat : k * n = L * i
    <2>1. k * n \in Nat /\ (k * n) % n = 0
      <3>1. k * n = n * k /\ k \in Nat
        OBVIOUS
      <3> QED BY <3>1, MultipleHasNoRemainder
    <2> QED BY <2>1, LcmDividesMultiples
  <1>4. ByLcm(c, n, g) = (q * L) \div n
    BY DEF ByLcm
  <1> HIDE DEF L
  <1>5. c * n \in Nat /\ k * n <= c * n
    OBVIOUS
  <1>6. q \in Nat /\ q * L <= c * n /\ c * n < q * L + L
    BY <1>1, <1>5, DivisionBounds
  <1> HIDE DEF q
  <1>7. i <= q
    <2>1. L * i < L * (q + 1)
      BY <1>1, <1>3, <1>5, <1>6
    <2> QED BY <1>1, <1>6, <2>1
  <1>8. k = j * i
    <2>1. n * k = n * (j * i)
      BY <1>2, <1>3
    <2> QED BY <2>1
  <1>9. ByLcm(c, n, g) = q * j
    <2>1. q * L = n * (q * j) /\ q * j \in Nat
      BY <1>2, <1>6
    <2>2. \A x \in Nat : (n * x) \div n = x
      OBVIOUS
    <2> QED BY <1>4, <2>1, <2>2
  <1> QED BY <1>6, <1>7, <1>8, <1>9

(* Whichever way the size is adjusted, it is the largest that makes the     *)
(* round even, or 0 if none does: the shortcut by the common multiple       *)
(* commits exactly the prompts the loop would, so that the helper never     *)
(* gives up a prompt it could have committed.                               *)
THEOREM CommitSizeIsLargest ==
  ASSUME NEW c \in Nat, NEW e \in Nat, NEW n \in Nat \ {0}, NEW g \in Nat \ {0}
  PROVE  AdjustCommitBatchSize(c, e, n, g) = ByDecrement(c, e, n, g)
PROOF
  <1> DEFINE S == StopsAt(c, e, n, g)
             k == AdjustCommitBatchSize(c, e, n, g)
  <1>1. S \subseteq 0 .. c /\ 0 \in S
    BY DEF StopsAt
  <1>2. k \in S /\ \A x \in S : x <= k
    <2>1. CASE Evenly(e + c * n, g)
      BY <2>1, <1>1 DEF AdjustCommitBatchSize, StopsAt
    <2>2. CASE ~Evenly(e + c * n, g) /\ Evenly(e, g)
      <3>1. k = ByLcm(c, n, g)
        BY <2>2 DEF AdjustCommitBatchSize
      <3>2. k \in S
        <4>1. k \in 0 .. c
          BY <3>1, ByLcmBounds
        <4>2. Evenly(e + k * n, g)
          BY <2>2, CommitSizeIsEven
        <4> QED BY <4>1, <4>2 DEF StopsAt
      <3>3. ASSUME NEW x \in S PROVE x <= k
        <4>1. x \in 0 .. c /\ (x = 0 \/ Evenly(e + x * n, g))
          BY DEF StopsAt
        <4>2. CASE x = 0
          BY <4>2, <3>2, <1>1
        <4>3. CASE Evenly(e + x * n, g)
          <5>1. PICK i \in Nat : e = g * i
            BY <2>2, MultipleHasNoRemainder DEF Evenly
          <5>2. x * n \in Nat /\ e + x * n \in Nat
            BY <4>1
          <5>3. PICK j \in Nat : e + x * n = g * j
            BY <4>3, <5>2, MultipleHasNoRemainder DEF Evenly
          <5>4. x * n = g * (j - i) /\ j - i \in Int
            BY <5>1, <5>3, <5>2
          <5>5. j - i >= 0
            BY <5>2, <5>4
          <5>6. (x * n) % g = 0
            <6> DEFINE y == x * n
            <6>1. y \in Nat /\ \E z \in Nat : y = g * z
              <7>1. j - i \in Nat /\ y = g * (j - i)
                BY <5>4, <5>5
              <7> QED BY <5>2, <7>1
            <6> HIDE DEF y
            <6>2. y % g = 0
              BY <6>1, MultipleHasNoRemainder
            <6> QED BY <6>2 DEF y
          <5> QED BY <4>1, <5>6, <3>1, ByLcmIsLargest
        <4> QED BY <4>1, <4>2, <4>3
      <3> QED BY <3>2, <3>3
    <2>3. CASE ~Evenly(e + c * n, g) /\ ~Evenly(e, g)
      <3>1. k = ByDecrement(c, e, n, g)
        BY <2>3 DEF AdjustCommitBatchSize
      <3>2. \E y \in S : \A x \in S : x <= y
        BY <1>1, LargestExists
      <3> QED BY <3>1, <3>2 DEF ByDecrement
    <2> QED BY <2>1, <2>2, <2>3
  <1> HIDE DEF S, k
  <1>3. \A y \in S : (\A x \in S : x <= y) => y = k
    BY <1>1, <1>2
  <1>4. ByDecrement(c, e, n, g) = CHOOSE y \in S : \A x \in S : x <= y
    BY DEF ByDecrement, S
  <1>5. ByDecrement(c, e, n, g) = k
    BY <1>2, <1>3, <1>4
  <1> QED BY <1>5 DEF k

-----------------------------------------------------------------------------
(* Facts about samples, and about what the buffer hands over.               *)

(* Prompts of samples.                                                      *)
LEMMA PromptsOfUnion ==
  ASSUME NEW S, NEW T
  PROVE  PromptsOf(S \cup T) = PromptsOf(S) \cup PromptsOf(T)
  BY DEF PromptsOf

(* The prompts of samples are prompts.                                      *)
LEMMA PromptsOfSamples ==
  ASSUME NEW S \in SUBSET Samples
  PROVE  PromptsOf(S) \subseteq Prompts
  BY DEF PromptsOf, Samples

(* Samples of pairwise different prompts are as many as their prompts.      *)
LEMMA PromptsOfDistinct ==
  ASSUME NEW S, IsFiniteSet(S), \A s, t \in S : s.prompt = t.prompt => s = t
  PROVE  Cardinality(PromptsOf(S)) = Cardinality(S)
PROOF
  <1> DEFINE f == [s \in S |-> s.prompt]
  <1>1. f \in Surjection(S, PromptsOf(S))
    BY DEF Surjection, PromptsOf
  <1>2. f \in Injection(S, PromptsOf(S))
    BY DEF Injection, IsInjective, PromptsOf
  <1> HIDE DEF f
  <1> QED BY <1>1, <1>2, FS_Surjection

(* A set of prompts is finite.                                              *)
LEMMA PromptsFinite ==
  ASSUME NEW S \in SUBSET Prompts
  PROVE  IsFiniteSet(S) /\ Cardinality(S) \in Nat
  BY BufferAssumption, FS_Subset, FS_CardinalityType

(* What sample(size) returns is no more than size.                          *)
LEMMA SelectionIsSmall ==
  ASSUME DOMAIN buffer \subseteq Prompts, NEW size \in Nat,
         NEW taken \in Selections(size)
  PROVE  taken \subseteq DOMAIN buffer /\ Cardinality(taken) <= size
  BY DEF Selections

(* The size of a commit batch is no more than the train batch still needs.  *)
LEMMA CommitBatchIsNeeded ==
  ASSUME RunInv
  PROVE  /\ CommitBatchSize \in Nat
         /\ step_metrics.num_prompt_in_batch + CommitBatchSize <= TrainBatchSize
PROOF
  <1> DEFINE needed == NecessaryCommitBatchSize
             there == Cardinality(DOMAIN buffer)
  <1>1. step_metrics.num_prompt_in_batch = Cardinality(batch)
    BY DEF RunInv, BatchIsCounted
  <1>2. Cardinality(batch) \in Nat
    BY FS_CardinalityType DEF RunInv, RoundInProgress
  <1>3. Cardinality(batch) <= TrainBatchSize
    <2>1. IsFiniteSet(batch \cup commit_batch)
      BY FS_Union DEF RunInv, RoundInProgress
    <2>2. Cardinality(batch) <= Cardinality(batch \cup commit_batch)
      BY <2>1, FS_Subset
    <2>3. Cardinality(batch \cup commit_batch) <= TrainBatchSize
      BY DEF RunInv, BatchIsCounted
    <2>4. Cardinality(batch \cup commit_batch) \in Nat
      BY <2>1, FS_CardinalityType
    <2> QED BY <2>2, <2>3, <2>4, <1>2, TrainerAssumption
  <1>4. needed \in Nat /\ step_metrics.num_prompt_in_batch + needed <= TrainBatchSize
    <2>1. CASE batch = {}
      BY <2>1, <1>1, FS_EmptySet, TrainerAssumption DEF NecessaryCommitBatchSize
    <2>2. CASE batch # {}
      BY <2>2, <1>1, <1>2, <1>3, TrainerAssumption DEF NecessaryCommitBatchSize
    <2> QED BY <2>1, <2>2
  <1>5. there \in Nat
    BY PromptsFinite DEF RunInv, TypeOK, BufferTypeOK
  <1> HIDE DEF needed, there
  <1>6. Smaller(needed, there) \in Nat /\ Smaller(needed, there) <= needed
    BY <1>4, <1>5 DEF Smaller
  <1>7. ExploreRollouts \in Nat
    BY BufferAssumption, TrainerAssumption DEF ExploreRollouts
  <1>8. CommitBatchSize \in 0 .. Smaller(needed, there)
    BY <1>6, <1>7, CommitSizeInRange, TrainerAssumption
       DEF CommitBatchSize, needed, there
  <1>9. CommitBatchSize \in Nat /\ CommitBatchSize <= needed
    BY <1>4, <1>6, <1>8
  <1>10. step_metrics.num_prompt_in_batch \in Nat
    BY <1>1, <1>2
  <1> QED BY <1>4, <1>9, <1>10, TrainerAssumption

-----------------------------------------------------------------------------
(* The actions, one lemma each.                                             *)

(* At first nothing is buffered, staged or in hand.                         *)
LEMMA InitRunInv == Init => RunInv
PROOF
  <1> SUFFICES ASSUME Init PROVE RunInv
    OBVIOUS
  <1> USE DEF Init
  <1>1. DOMAIN buffer = {} /\ buffer \in [{} -> Entries]
    BY DEF BufferInit
  <1>2. TypeOK
    BY <1>1, TrainerAssumption
       DEF TypeOK, BufferTypeOK, Places, ZeroMetrics, NoCheckpoint
  <1>3. InHandApart /\ OneSample
    BY <1>1 DEF InHandApart, OneSample, Buffered, Committed, Staged, PromptsOf
  <1>4. BatchIsCounted
    BY FS_EmptySet, TrainerAssumption DEF BatchIsCounted, ZeroMetrics
  <1>5. StalenessIsBounded
    BY <1>1 DEF StalenessIsBounded, Buffered
  <1>6. ExclusionTakesEffect
    BY DEF ExclusionTakesEffect
  <1>7. RoundInProgress
    BY FS_EmptySet DEF RoundInProgress
  <1> QED BY <1>2, <1>3, <1>4, <1>5, <1>6, <1>7 DEF RunInv

(* Steps that change nothing the invariant speaks of but the place.         *)
LEMMA FetchRunInv == RunInv /\ FetchExploreBatch => RunInv'
PROOF
  <1> SUFFICES ASSUME RunInv, FetchExploreBatch PROVE RunInv'
    OBVIOUS
  <1> USE DEF FetchExploreBatch
  <1>1. PICK prompts \in SUBSET Unseen :
           /\ explore_batch' = prompts
           /\ seen' = seen \cup prompts
    OBVIOUS
  <1>2. prompts \subseteq Prompts /\ prompts \cap seen = {}
          /\ prompts \cap excluded = {}
    BY DEF Unseen, Dataset
  <1>3. commit_batch = {} /\ explore_batch = {}
    BY DEF RunInv, RoundInProgress
  <1>4. /\ pc' = "sample"
        /\ step_metrics' = [step_metrics EXCEPT !.num_gen_batches = @ + 1]
        /\ UNCHANGED <<buffer, disk, commit_batch, batch, epoch,
                       global_steps, gen_steps, excluded, to_exclude, trained>>
    BY DEF steps
  <1> HIDE DEF FetchExploreBatch
  <1>5. TypeOK'
    BY <1>1, <1>2, <1>4 DEF RunInv, TypeOK, BufferTypeOK, Places
  <1>6. InHandApart'
    BY <1>1, <1>2, <1>3, <1>4
       DEF RunInv, InHandApart, Buffered, Committed, Staged, PromptsOf
  <1>7. OneSample'
    BY <1>4 DEF RunInv, OneSample
  <1>8. step_metrics'.num_prompt_in_batch = step_metrics.num_prompt_in_batch
    BY <1>4 DEF RunInv, TypeOK
  <1>9. BatchIsCounted'
    BY <1>4, <1>8 DEF RunInv, BatchIsCounted
  <1>10. StalenessIsBounded'
    BY <1>4 DEF RunInv, StalenessIsBounded, Buffered
  <1>11. ExclusionTakesEffect'
    BY <1>1, <1>2, <1>4 DEF RunInv, ExclusionTakesEffect
  <1>12. RoundInProgress'
    BY <1>1, <1>3, <1>4 DEF RunInv, RoundInProgress
  <1> QED BY <1>5, <1>6, <1>7, <1>9, <1>10, <1>11, <1>12 DEF RunInv

(* The steps that commit nothing, crash, or do nothing.                     *)
LEMMA SkipRunInv ==
  RunInv /\ (SkipCommitBatch \/ SampleCrashes \/ Stopped \/ UNCHANGED vars)
    => RunInv'
PROOF
  <1> SUFFICES ASSUME RunInv,
                      SkipCommitBatch \/ SampleCrashes \/ Stopped
                        \/ UNCHANGED vars
               PROVE  RunInv'
    OBVIOUS
  <1>1. /\ UNCHANGED <<buffer, disk, explore_batch, commit_batch, batch,
                       step_metrics, epoch, global_steps, gen_steps,
                       seen, excluded, to_exclude, trained>>
        /\ \/ pc = "sample" /\ pc' \in {"score", "crashed"}
           \/ pc' = pc
    BY DEF SkipCommitBatch, SampleCrashes, Stopped, vars, memory, steps, data
  <1>2. TypeOK'
    BY <1>1 DEF RunInv, TypeOK, BufferTypeOK, Places, Terminal
  <1>3. InHandApart' /\ OneSample' /\ BatchIsCounted' /\ StalenessIsBounded'
          /\ ExclusionTakesEffect'
    BY <1>1 DEF RunInv, InHandApart, OneSample, BatchIsCounted, StalenessIsBounded,
                ExclusionTakesEffect, Buffered, Committed, Staged, PromptsOf
  <1>4. RoundInProgress'
    BY <1>1 DEF RunInv, RoundInProgress
  <1> QED BY <1>2, <1>3, <1>4 DEF RunInv

(* Sampling moves prompts from the buffer to the commit batch, no more than *)
(* the train batch needs.                                                   *)
LEMMA PrepareRunInv == RunInv /\ PrepareCommitBatch => RunInv'
PROOF
  <1> SUFFICES ASSUME RunInv, PrepareCommitBatch PROVE RunInv'
    OBVIOUS
  <1> DEFINE rnd == step_metrics.num_gen_batches
             sample(p) == [prompt |-> p, step |-> buffer[p].step, round |-> rnd]
  <1>1. PICK taken \in SUBSET DOMAIN buffer :
           /\ Sample(CommitBatchSize, taken)
           /\ commit_batch' = {sample(p) : p \in taken}
    BY DEF PrepareCommitBatch
  <1>2. /\ pc = "sample" /\ pc' = "score"
        /\ UNCHANGED <<disk, explore_batch, batch, step_metrics,
                       epoch, global_steps, gen_steps,
                       seen, excluded, to_exclude, trained>>
    BY DEF PrepareCommitBatch, steps, data
  <1>3. DOMAIN buffer \subseteq Prompts /\ buffer \in [DOMAIN buffer -> Entries]
    BY DEF RunInv, TypeOK, BufferTypeOK
  <1>4. /\ DOMAIN buffer' = DOMAIN buffer \ taken
        /\ \A p \in DOMAIN buffer' : buffer'[p] = buffer[p]
        /\ buffer' \in [DOMAIN buffer \ taken -> Entries]
    BY <1>1, <1>3 DEF Sample, Restrict
  <1>5. rnd \in Nat
    BY DEF RunInv, TypeOK
  <1>6. commit_batch' \in SUBSET Samples
    BY <1>1, <1>3, <1>5 DEF Samples, Entries
  <1>7. Committed' = taken
    <2>1. \A p \in taken : sample(p).prompt = p
      OBVIOUS
    <2> QED BY <1>1, <2>1 DEF Committed, PromptsOf
  <1>8. commit_batch = {}
    BY <1>2 DEF RunInv, RoundInProgress
  <1>9. IsFiniteSet(commit_batch') /\ Cardinality(commit_batch') \in Nat
          /\ Cardinality(commit_batch') <= CommitBatchSize
    <2>1. CommitBatchSize \in Nat /\ taken \in Selections(CommitBatchSize)
      BY <1>1, CommitBatchIsNeeded DEF Sample
    <2>2. Cardinality(taken) <= CommitBatchSize
      BY <1>3, <2>1, SelectionIsSmall
    <2>3. IsFiniteSet(taken) /\ Cardinality(taken) \in Nat
      BY <1>3, PromptsFinite
    <2> DEFINE f == [p \in taken |-> sample(p)]
    <2>4. f \in Surjection(taken, commit_batch')
      BY <1>1 DEF Surjection
    <2> HIDE DEF f
    <2>5. IsFiniteSet(commit_batch')
            /\ Cardinality(commit_batch') <= Cardinality(taken)
      BY <2>3, <2>4, FS_Surjection
    <2>6. Cardinality(commit_batch') \in Nat
      BY <2>5, FS_CardinalityType
    <2> QED BY <2>1, <2>2, <2>3, <2>5, <2>6
  <1>10. TypeOK'
    BY <1>2, <1>3, <1>4, <1>6 DEF RunInv, TypeOK, BufferTypeOK, Places
  <1>11. InHandApart'
    BY <1>2, <1>4, <1>7, <1>8
       DEF RunInv, InHandApart, Buffered, Committed, Staged, PromptsOf
  <1>12. OneSample'
    <2> SUFFICES ASSUME NEW s \in batch' \cup commit_batch',
                        NEW t \in batch' \cup commit_batch',
                        s.prompt = t.prompt
                 PROVE  s = t
      BY DEF OneSample
    <2>1. \A x \in commit_batch' : x.prompt \in DOMAIN buffer
      BY <1>1
    <2>2. \A x \in batch : x.prompt \notin DOMAIN buffer
      BY DEF RunInv, InHandApart, Buffered, Staged, PromptsOf
    <2>3. CASE s \in batch' /\ t \in batch'
      BY <2>3, <1>2 DEF RunInv, OneSample
    <2>4. CASE s \in commit_batch' /\ t \in commit_batch'
      BY <2>4, <1>1
    <2> QED BY <2>1, <2>2, <2>3, <2>4, <1>2
  <1>13. BatchIsCounted'
    <2>1. IsFiniteSet(batch) /\ Cardinality(batch) \in Nat
      BY FS_CardinalityType DEF RunInv, RoundInProgress
    <2>2. Cardinality(batch) + CommitBatchSize <= TrainBatchSize
            /\ CommitBatchSize \in Nat
      BY CommitBatchIsNeeded DEF RunInv, BatchIsCounted
    <2>3. /\ Cardinality(batch \cup commit_batch') =
               Cardinality(batch) + Cardinality(commit_batch')
                 - Cardinality(batch \cap commit_batch')
          /\ Cardinality(batch \cap commit_batch') \in Nat
      BY <2>1, <1>9, FS_Union, FS_Intersection, FS_CardinalityType
    <2>4. Cardinality(batch \cup commit_batch') <= TrainBatchSize
      BY <2>1, <2>2, <2>3, <1>9, TrainerAssumption
    <2> QED BY <2>4, <1>2 DEF RunInv, BatchIsCounted
  <1>14. StalenessIsBounded'
    <2>1. \A x \in commit_batch' : \E p \in DOMAIN buffer : x.step = buffer[p].step
      BY <1>1
    <2> QED BY <2>1, <1>2, <1>4 DEF RunInv, StalenessIsBounded, Buffered
  <1>15. ExclusionTakesEffect'
    BY <1>2 DEF RunInv, ExclusionTakesEffect
  <1>16. RoundInProgress'
    BY <1>2, <1>9 DEF RunInv, RoundInProgress
  <1> QED BY <1>10, <1>11, <1>12, <1>13, <1>14, <1>15, <1>16 DEF RunInv

(* Scoring moves explored prompts to the buffer, with the current step.     *)
LEMMA ScoreRunInv == RunInv /\ ScoreExploreBatch => RunInv'
PROOF
  <1> SUFFICES ASSUME RunInv, ScoreExploreBatch PROVE RunInv'
    OBVIOUS
  <1>1. PICK solved \in [explore_batch -> Solved] :
           /\ Add({p \in explore_batch : Passes(solved[p])}, solved, global_steps)
           /\ to_exclude' = to_exclude \cup {p \in explore_batch : TooEasy(solved[p])}
    BY DEF ScoreExploreBatch
  <1> DEFINE passed == {p \in explore_batch : Passes(solved[p])}
  <1>2. /\ pc = "score" /\ pc' = "stage"
        /\ explore_batch' = {}
        /\ UNCHANGED <<disk, commit_batch, batch, step_metrics, epoch,
                       global_steps, gen_steps, seen, excluded, trained>>
    BY DEF ScoreExploreBatch, steps
  <1>3. DOMAIN buffer \subseteq Prompts /\ buffer \in [DOMAIN buffer -> Entries]
          /\ global_steps \in Nat
    BY DEF RunInv, TypeOK, BufferTypeOK
  <1>4. explore_batch \subseteq seen /\ explore_batch \subseteq Prompts
    BY DEF RunInv, RoundInProgress, TypeOK
  <1>5. /\ DOMAIN buffer' = DOMAIN buffer \cup passed
        /\ buffer' \in [DOMAIN buffer \cup passed -> Entries]
        /\ \A p \in passed : buffer'[p].step = global_steps
        /\ \A p \in DOMAIN buffer \ passed : buffer'[p] = buffer[p]
    BY <1>1, <1>3 DEF Add, Entries
  <1>6. passed \subseteq explore_batch
    OBVIOUS
  <1> HIDE DEF passed
  <1>7. TypeOK'
    BY <1>1, <1>2, <1>3, <1>4, <1>5, <1>6 DEF RunInv, TypeOK, BufferTypeOK, Places
  <1>8. InHandApart'
    BY <1>2, <1>4, <1>5, <1>6
       DEF RunInv, InHandApart, Buffered, Committed, Staged, PromptsOf
  <1>9. OneSample' /\ BatchIsCounted'
    BY <1>2 DEF RunInv, OneSample, BatchIsCounted
  <1>10. StalenessIsBounded'
    BY <1>2, <1>3, <1>5, BufferAssumption DEF RunInv, StalenessIsBounded, Buffered
  <1>11. ExclusionTakesEffect'
    BY <1>1, <1>2, <1>4 DEF RunInv, ExclusionTakesEffect
  <1>12. RoundInProgress'
    BY <1>2 DEF RunInv, RoundInProgress
  <1> QED BY <1>7, <1>8, <1>9, <1>10, <1>11, <1>12 DEF RunInv

(* Staging moves the commit batch to the train batch, which the counter     *)
(* follows; the batch is full when the counter says so.                     *)
LEMMA StageRunInv == RunInv /\ (KeepGenerating \/ GenerateTooMany \/ FillBatch) => RunInv'
PROOF
  <1> SUFFICES ASSUME RunInv, KeepGenerating \/ GenerateTooMany \/ FillBatch
               PROVE  RunInv'
    OBVIOUS
  <1> DEFINE num == step_metrics.num_prompt_in_batch
             new == Cardinality(commit_batch)
  <1>1. /\ pc = "stage"
        /\ \/ pc' \in {"fetch", "raised"}
           \/ pc' = "update" /\ num + new >= TrainBatchSize
        /\ batch' = batch \cup commit_batch
        /\ commit_batch' = {}
        /\ step_metrics' = [step_metrics EXCEPT !.num_prompt_in_batch = @ + new]
        /\ UNCHANGED <<buffer, disk, explore_batch, epoch,
                       global_steps, gen_steps, seen, excluded, to_exclude, trained>>
    BY DEF KeepGenerating, GenerateTooMany, FillBatch, StageCommitBatch,
           BatchFull, steps, data
  <1>2. /\ IsFiniteSet(batch) /\ IsFiniteSet(commit_batch)
        /\ IsFiniteSet(batch \cup commit_batch)
        /\ Cardinality(batch) \in Nat /\ new \in Nat
        /\ Cardinality(batch \cup commit_batch) \in Nat
    BY FS_Union, FS_CardinalityType DEF RunInv, RoundInProgress
  <1>3. batch \cap commit_batch = {}
    <2> SUFFICES ASSUME NEW s \in batch \cap commit_batch PROVE FALSE
      OBVIOUS
    <2>1. s.prompt \in Staged \cap Committed
      BY DEF Staged, Committed, PromptsOf
    <2> QED BY <2>1 DEF RunInv, InHandApart
  <1>4. Cardinality(batch \cup commit_batch) = Cardinality(batch) + new
    <2>1. Cardinality(batch \cap commit_batch) = 0
      BY <1>3, FS_EmptySet
    <2>2. Cardinality(batch \cup commit_batch)
            = Cardinality(batch) + Cardinality(commit_batch)
                - Cardinality(batch \cap commit_batch)
      BY <1>2, FS_Union
    <2> QED BY <1>2, <2>1, <2>2
  <1>5. num = Cardinality(batch)
          /\ Cardinality(batch \cup commit_batch) <= TrainBatchSize
    BY DEF RunInv, BatchIsCounted
  <1>6. step_metrics \in [num_prompt_in_batch : Nat, num_gen_batches : Nat]
    BY DEF RunInv, TypeOK
  <1>7. step_metrics'.num_prompt_in_batch = num + new
    BY <1>1, <1>6
  <1>8. step_metrics' \in [num_prompt_in_batch : Nat, num_gen_batches : Nat]
    BY <1>1, <1>2, <1>6
  <1>9. explore_batch = {}
    BY <1>1 DEF RunInv, RoundInProgress
  <1>10. Committed' = {} /\ Staged' = Staged \cup Committed
    BY <1>1 DEF Committed, Staged, PromptsOf
  <1> HIDE DEF num, new
  <1>11. TypeOK'
    BY <1>1, <1>8 DEF RunInv, TypeOK, BufferTypeOK, Places, Terminal
  <1>12. InHandApart'
    BY <1>1, <1>10 DEF RunInv, InHandApart, Buffered
  <1>13. OneSample'
    BY <1>1 DEF RunInv, OneSample
  <1>14. BatchIsCounted'
    BY <1>1, <1>2, <1>4, <1>5, <1>7 DEF BatchIsCounted
  <1>15. StalenessIsBounded'
    BY <1>1 DEF RunInv, StalenessIsBounded, Buffered
  <1>16. ExclusionTakesEffect'
    BY <1>1 DEF RunInv, ExclusionTakesEffect
  <1>17. pc' = "update" => step_metrics'.num_prompt_in_batch = TrainBatchSize
    BY <1>1, <1>2, <1>4, <1>5, <1>7, TrainerAssumption
  <1>18. RoundInProgress'
    BY <1>1, <1>2, <1>9, <1>17, FS_EmptySet DEF RunInv, RoundInProgress
  <1> QED BY <1>11, <1>12, <1>13, <1>14, <1>15, <1>16, <1>18 DEF RunInv

(* An update empties the train batch, and the flush at its end leaves       *)
(* nothing in the buffer that would be too old one step later.              *)
LEMMA FinishRunInv == RunInv /\ (FinishStep \/ FinishTraining) => RunInv'
PROOF
  <1> SUFFICES ASSUME RunInv, FinishStep \/ FinishTraining
               PROVE  RunInv'
    OBVIOUS
  <1>1. /\ pc = "update"
        /\ pc' \in {"fetch", "done"}
        /\ batch' = {}
        /\ step_metrics' = ZeroMetrics
        /\ trained' = trained \cup PromptsOf(batch)
        /\ disk' = disk \/ disk' = Checkpoint
        /\ global_steps' \in {global_steps, global_steps + 1}
        /\ gen_steps' \in {gen_steps, gen_steps + 1}
        /\ UNCHANGED <<epoch, explore_batch, commit_batch, seen, excluded, to_exclude>>
    BY DEF FinishStep, FinishTraining, UpdateModel, steps
  <1>2. explore_batch = {} /\ commit_batch = {}
    BY <1>1 DEF RunInv, RoundInProgress
  <1> DEFINE kept == DOMAIN buffer \ TooOld(global_steps)
  <1>3. buffer' = [p \in kept |-> buffer[p]]
    <2>1. buffer' = Restrict(buffer, kept)
      BY DEF FinishStep, FinishTraining, UpdateModel, Flush
    <2> QED BY <2>1 DEF Restrict
  <1>4. /\ DOMAIN buffer' = kept
        /\ \A p \in kept : buffer'[p] = buffer[p]
    BY <1>3
  <1>5. kept \subseteq DOMAIN buffer
    OBVIOUS
  <1>6. global_steps \in Nat
    BY DEF RunInv, TypeOK
  <1>7. \A p \in kept : global_steps - buffer[p].step \in 0 .. MaxOffSteps
    <2> SUFFICES ASSUME NEW p \in kept
                 PROVE  global_steps - buffer[p].step \in 0 .. MaxOffSteps
      OBVIOUS
    <2>1. buffer[p].step \in Nat
      BY <1>5 DEF RunInv, TypeOK, BufferTypeOK, Entries
    <2>2. global_steps - buffer[p].step \in 0 .. MaxOffSteps + 1
      BY <1>5 DEF RunInv, StalenessIsBounded, Buffered
    <2>3. ~(global_steps - buffer[p].step > MaxOffSteps)
      BY DEF TooOld
    <2> QED BY <1>6, <2>1, <2>2, <2>3, BufferAssumption
  <1> HIDE DEF kept
  <1>8. Staged \subseteq Prompts
    BY PromptsOfSamples DEF RunInv, TypeOK, Staged
  <1>9. Checkpoint \in [step : Nat, seen : SUBSET Prompts,
                        excluded : SUBSET Prompts, trained : SUBSET Prompts]
    BY <1>8 DEF RunInv, TypeOK, Checkpoint, Staged
  <1>10. buffer' \in [kept -> Entries]
    BY <1>3, <1>5 DEF RunInv, TypeOK, BufferTypeOK
  <1>11. TypeOK'
    <2>1. disk' \in [step : Nat, seen : SUBSET Prompts,
                     excluded : SUBSET Prompts, trained : SUBSET Prompts]
      BY <1>1, <1>9 DEF RunInv, TypeOK
    <2>2. step_metrics' \in [num_prompt_in_batch : Nat, num_gen_batches : Nat]
      BY <1>1 DEF ZeroMetrics
    <2>3. BufferTypeOK'
      BY <1>4, <1>5, <1>10 DEF RunInv, TypeOK, BufferTypeOK
    <2>4. global_steps' \in Nat /\ gen_steps' \in Nat /\ trained' \subseteq Prompts
      BY <1>1, <1>8 DEF RunInv, TypeOK, Staged
    <2> QED BY <1>1, <2>1, <2>2, <2>3, <2>4 DEF RunInv, TypeOK, Places, Terminal
  <1>12. Staged' = {} /\ Committed' = {} /\ trained' = trained \cup Staged
    BY <1>1, <1>2 DEF Staged, Committed, PromptsOf
  <1>13. InHandApart'
    BY <1>1, <1>4, <1>5, <1>12 DEF RunInv, InHandApart, Buffered
  <1>14. OneSample'
    BY <1>1, <1>2 DEF OneSample
  <1>15. BatchIsCounted'
    BY <1>1, <1>2, FS_EmptySet, TrainerAssumption DEF BatchIsCounted, ZeroMetrics
  <1>16. StalenessIsBounded'
    <2> SUFFICES ASSUME NEW p \in kept
                 PROVE  global_steps' - buffer'[p].step \in 0 .. MaxOffSteps + 1
      BY <1>1, <1>2, <1>4 DEF StalenessIsBounded, Buffered
    <2>1. buffer[p].step \in Nat
      BY <1>5 DEF RunInv, TypeOK, BufferTypeOK, Entries
    <2> QED BY <1>1, <1>4, <1>6, <1>7, <2>1, BufferAssumption
  <1>17. ExclusionTakesEffect'
    BY <1>1 DEF RunInv, ExclusionTakesEffect
  <1>18. RoundInProgress'
    BY <1>1, <1>2, FS_EmptySet DEF RoundInProgress
  <1> QED BY <1>11, <1>13, <1>14, <1>15, <1>16, <1>17, <1>18 DEF RunInv

(* The end of an epoch leaves nothing explored, buffered or batched; the    *)
(* counter of the batch is right because it was right about an empty batch. *)
LEMMA CloseRunInv == RunInv /\ (NextEpoch \/ RunOutOfEpochs) => RunInv'
PROOF
  <1> SUFFICES ASSUME RunInv, NextEpoch \/ RunOutOfEpochs
               PROVE  RunInv'
    OBVIOUS
  <1>1. /\ pc = "fetch"
        /\ pc' \in {"fetch", "exhausted"}
        /\ batch' = {}
        /\ step_metrics' = IF batch # {} THEN ZeroMetrics ELSE step_metrics
        /\ excluded' = excluded \cup to_exclude
        /\ to_exclude' = {}
        /\ seen' = {}
        /\ trained' = {}
        /\ UNCHANGED <<disk, explore_batch, commit_batch,
                       global_steps, gen_steps>>
    BY DEF NextEpoch, RunOutOfEpochs, CloseEpoch, DropPartialBatch, ApplyExclusions
  <1>2. explore_batch = {} /\ commit_batch = {}
    BY <1>1 DEF RunInv, RoundInProgress
  <1>3. buffer' = [p \in {} |-> buffer[p]]
    BY DEF NextEpoch, RunOutOfEpochs, CloseEpoch, FlushAll, Restrict
  <1>4. DOMAIN buffer' = {} /\ buffer' \in [{} -> Entries]
    BY <1>3
  <1>5. epoch' \in 1 .. TotalEpochs
    BY TrainerAssumption DEF NextEpoch, RunOutOfEpochs, RunInv, TypeOK
  <1>6. step_metrics \in [num_prompt_in_batch : Nat, num_gen_batches : Nat]
    BY DEF RunInv, TypeOK
  <1>7. TypeOK'
    <2>1. step_metrics' \in [num_prompt_in_batch : Nat, num_gen_batches : Nat]
      BY <1>1, <1>6 DEF ZeroMetrics
    <2>2. BufferTypeOK'
      BY <1>4 DEF BufferTypeOK
    <2> QED BY <1>1, <1>5, <2>1, <2>2 DEF RunInv, TypeOK, Places, Terminal
  <1>8. InHandApart'
    BY <1>1, <1>2, <1>4 DEF InHandApart, Buffered, Committed, Staged, PromptsOf
  <1>9. OneSample'
    BY <1>1, <1>2 DEF OneSample
  <1>10. step_metrics'.num_prompt_in_batch = 0
    <2>1. CASE batch = {}
      BY <1>1, <2>1, FS_EmptySet DEF RunInv, BatchIsCounted
    <2>2. CASE batch # {}
      BY <1>1, <2>2 DEF ZeroMetrics
    <2> QED BY <2>1, <2>2
  <1>11. BatchIsCounted'
    BY <1>1, <1>2, <1>10, FS_EmptySet, TrainerAssumption DEF BatchIsCounted
  <1>12. StalenessIsBounded'
    BY <1>1, <1>2, <1>4 DEF StalenessIsBounded, Buffered
  <1>13. ExclusionTakesEffect'
    BY <1>1 DEF ExclusionTakesEffect
  <1>14. RoundInProgress'
    BY <1>1, <1>2, FS_EmptySet DEF RoundInProgress
  <1> QED BY <1>7, <1>8, <1>9, <1>11, <1>12, <1>13, <1>14 DEF RunInv

-----------------------------------------------------------------------------
(* Every step of fit preserves the inductive invariant.                     *)
LEMMA NextRunInv == RunInv /\ [Next]_vars => RunInv'
PROOF
  <1> SUFFICES ASSUME RunInv, [Next]_vars
               PROVE  RunInv'
    OBVIOUS
  <1>1. CASE FetchExploreBatch
    BY <1>1, FetchRunInv
  <1>2. CASE SkipCommitBatch \/ SampleCrashes
    BY <1>2, SkipRunInv
  <1>3. CASE PrepareCommitBatch
    BY <1>3, PrepareRunInv
  <1>4. CASE ScoreExploreBatch
    BY <1>4, ScoreRunInv
  <1>5. CASE KeepGenerating \/ GenerateTooMany \/ FillBatch
    BY <1>5, StageRunInv
  <1>6. CASE FinishStep \/ FinishTraining
    BY <1>6, FinishRunInv
  <1>7. CASE NextEpoch \/ RunOutOfEpochs
    BY <1>7, CloseRunInv
  <1>8. CASE UNCHANGED vars
    BY <1>8 DEF vars, memory, steps, data, RunInv, TypeOK, BufferTypeOK,
       InHandApart, OneSample, BatchIsCounted, StalenessIsBounded,
       ExclusionTakesEffect, RoundInProgress, Buffered, Committed, Staged
  <1> QED
    BY <1>1, <1>2, <1>3, <1>4, <1>5, <1>6, <1>7, <1>8 DEF Next, Step, Stopped

(* Updates are made on what was staged, and nothing explored after an       *)
(* update comes back to it before the epoch ends.                           *)
LEMMA NextTrained == RunInv /\ TrainedApart /\ [Next]_vars => TrainedApart'
PROOF
  <1> SUFFICES ASSUME RunInv, TrainedApart, [Next]_vars
               PROVE  TrainedApart'
    OBVIOUS
  <1> USE DEF TrainedApart, Buffered, Committed, Staged
  <1>1. CASE FetchExploreBatch
    <2>1. PICK prompts \in SUBSET Unseen :
             explore_batch' = prompts /\ seen' = seen \cup prompts
      BY <1>1 DEF FetchExploreBatch
    <2>2. prompts \cap seen = {}
      BY DEF Unseen
    <2>3. UNCHANGED <<buffer, commit_batch, batch, trained>>
      BY <1>1 DEF FetchExploreBatch
    <2> QED BY <2>1, <2>2, <2>3
  <1>2. CASE SkipCommitBatch \/ SampleCrashes \/ UNCHANGED vars
    BY <1>2 DEF SkipCommitBatch, SampleCrashes, vars, memory, data
  <1>3. CASE PrepareCommitBatch
    <2>1. PICK taken \in SUBSET DOMAIN buffer :
             /\ buffer' = Restrict(buffer, DOMAIN buffer \ taken)
             /\ commit_batch' =
                  {[prompt |-> p, step |-> buffer[p].step,
                    round |-> step_metrics.num_gen_batches] : p \in taken}
      BY <1>3 DEF PrepareCommitBatch, Sample
    <2>2. DOMAIN buffer' = DOMAIN buffer \ taken
      BY <2>1 DEF Restrict
    <2>4. PromptsOf(commit_batch') \subseteq taken
      BY <2>1 DEF PromptsOf
    <2>3. UNCHANGED <<explore_batch, batch, seen, trained>>
      BY <1>3 DEF PrepareCommitBatch, data
    <2> QED BY <2>2, <2>3, <2>4
  <1>4. CASE ScoreExploreBatch
    <2>1. PICK passed \in SUBSET explore_batch :
             DOMAIN buffer' = DOMAIN buffer \cup passed
      BY <1>4 DEF ScoreExploreBatch, Add
    <2>2. explore_batch' = {} /\ UNCHANGED <<commit_batch, batch, seen, trained>>
      BY <1>4 DEF ScoreExploreBatch
    <2> QED BY <2>1, <2>2
  <1>5. CASE KeepGenerating \/ GenerateTooMany \/ FillBatch
    <2>1. /\ batch' = batch \cup commit_batch /\ commit_batch' = {}
          /\ UNCHANGED <<buffer, explore_batch, seen, trained>>
      BY <1>5 DEF KeepGenerating, GenerateTooMany, FillBatch, StageCommitBatch, data
    <2>2. PromptsOf(batch') = PromptsOf(batch) \cup PromptsOf(commit_batch)
            /\ PromptsOf(commit_batch') = {}
      BY <2>1 DEF PromptsOf
    <2> QED BY <2>1, <2>2
  <1>6. CASE FinishStep \/ FinishTraining
    <2>1. /\ pc = "update" /\ batch' = {}
          /\ trained' = trained \cup PromptsOf(batch)
          /\ DOMAIN buffer' \subseteq DOMAIN buffer
          /\ UNCHANGED <<explore_batch, commit_batch, seen>>
      BY <1>6 DEF FinishStep, FinishTraining, UpdateModel, Flush, Restrict
    <2>2. commit_batch = {}
      BY <2>1 DEF RunInv, RoundInProgress
    <2>3. PromptsOf(batch') = {} /\ PromptsOf(commit_batch') = {}
      BY <2>1, <2>2 DEF PromptsOf
    <2> QED BY <2>1, <2>3 DEF RunInv, InHandApart
  <1>7. CASE NextEpoch \/ RunOutOfEpochs
    BY <1>7 DEF NextEpoch, RunOutOfEpochs, CloseEpoch
  <1> QED BY <1>1, <1>2, <1>3, <1>4, <1>5, <1>6, <1>7 DEF Next, Step, Stopped

(* What holds of a run holds in every state fit can reach, whatever the     *)
(* sizes of the dataset, the batches and the buffer, the thresholds and the *)
(* strategy.                                                                *)
THEOREM RunInvariance == Spec => []RunInv
PROOF
  <1> QED BY InitRunInv, NextRunInv, PTL DEF Spec

(* Nothing is trained on at first.                                          *)
LEMMA InitIInv == Init => IInv
PROOF
  <1>1. Init => TrainedApart
    BY DEF Init, BufferInit, TrainedApart
  <1> QED BY InitRunInv, <1>1 DEF IInv

(* So does what the run remembers of its updates.                           *)
THEOREM Invariance == Spec => []IInv
PROOF
  <1>1. RunInv /\ TrainedApart /\ [Next]_vars => RunInv' /\ TrainedApart'
    BY NextRunInv, NextTrained
  <1> QED BY InitIInv, <1>1, PTL DEF Spec, IInv

(* Every variable of fit keeps its type.                                    *)
THEOREM TypeCorrect == Spec => []TypeOK
PROOF
  <1>1. IInv => TypeOK
    BY DEF IInv, RunInv
  <1> QED BY Invariance, <1>1, PTL

(* No prompt is in two of buffer, commit batch, train batch and the updates *)
(* of its epoch, and all of them were explored in this epoch.               *)
THEOREM PromptsAreInOnePlace == Spec => []OnePlace
PROOF
  <1>1. IInv => OnePlace
    BY DEF IInv, RunInv, OnePlace
  <1> QED BY Invariance, <1>1, PTL

(* num_prompt_in_batch is the size of the train batch and never exceeds     *)
(* train_bsz, as the assertion at pc_ray_trainer.py:486 demands.            *)
THEOREM CounterIsExact == Spec => []BatchIsCounted
PROOF
  <1>1. IInv => BatchIsCounted
    BY DEF IInv, RunInv
  <1> QED BY Invariance, <1>1, PTL

(* At an update the batch is full, and of different prompts.                *)
LEMMA UpdateIsFull == RunInv => FullBatchIsDistinct
PROOF
  <1> SUFFICES ASSUME RunInv, pc = "update"
               PROVE  /\ Cardinality(batch) = TrainBatchSize
                      /\ Cardinality(PromptsOf(batch)) = TrainBatchSize
    BY DEF FullBatchIsDistinct
  <1>1. Cardinality(batch) = TrainBatchSize
    BY DEF RunInv, BatchIsCounted, RoundInProgress
  <1>2. IsFiniteSet(batch) /\ \A s, t \in batch : s.prompt = t.prompt => s = t
    BY DEF RunInv, RoundInProgress, OneSample
  <1> QED BY <1>1, <1>2, PromptsOfDistinct

(* The assertions at pc_ray_trainer.py:691-692 hold: an update is made on   *)
(* exactly train_bsz samples of train_bsz different prompts.                *)
THEOREM UpdatesSeeAFullBatch == Spec => []FullBatchIsDistinct
PROOF
  <1> QED BY RunInvariance, UpdateIsFull, PTL

(* No sample of the train batch is more than max_off_steps + 1 steps old.   *)
THEOREM SamplesAreFresh == Spec => []StalenessIsBounded
PROOF
  <1>1. IInv => StalenessIsBounded
    BY DEF IInv, RunInv
  <1> QED BY Invariance, <1>1, PTL

(* Nothing excluded from the dataset is explored again.                     *)
THEOREM ExclusionHolds == Spec => []ExclusionTakesEffect
PROOF
  <1>1. IInv => ExclusionTakesEffect
    BY DEF IInv, RunInv
  <1> QED BY Invariance, <1>1, PTL

-----------------------------------------------------------------------------
(* A commit batch is exactly as large as was asked for.                     *)
LEMMA CommitBatchIsExact ==
  ASSUME RunInv, PrepareCommitBatch
  PROVE  /\ Cardinality(commit_batch') = CommitBatchSize
         /\ Smaller(NecessaryCommitBatchSize, Cardinality(DOMAIN buffer)) \in Nat
PROOF
  <1> DEFINE rnd == step_metrics.num_gen_batches
             sample(p) == [prompt |-> p, step |-> buffer[p].step, round |-> rnd]
             there == Cardinality(DOMAIN buffer)
             wanted == Smaller(NecessaryCommitBatchSize, there)
  <1>1. PICK taken \in SUBSET DOMAIN buffer :
           /\ taken \in Selections(CommitBatchSize)
           /\ commit_batch' = {sample(p) : p \in taken}
    BY DEF PrepareCommitBatch, Sample
  <1>2. DOMAIN buffer \subseteq Prompts
    BY DEF RunInv, TypeOK, BufferTypeOK
  <1>3. IsFiniteSet(DOMAIN buffer) /\ there \in Nat
    BY <1>2, PromptsFinite
  <1>4. NecessaryCommitBatchSize \in Nat
    <2>1. step_metrics.num_prompt_in_batch = Cardinality(batch)
      BY DEF RunInv, BatchIsCounted
    <2>2. /\ IsFiniteSet(batch \cup commit_batch)
          /\ Cardinality(batch) \in Nat
          /\ Cardinality(batch \cup commit_batch) \in Nat
      BY FS_Union, FS_CardinalityType DEF RunInv, RoundInProgress
    <2>3. Cardinality(batch) <= Cardinality(batch \cup commit_batch)
      BY <2>2, FS_Subset
    <2>4. Cardinality(batch \cup commit_batch) <= TrainBatchSize
      BY DEF RunInv, BatchIsCounted
    <2> QED BY <2>1, <2>2, <2>3, <2>4, TrainerAssumption
            DEF NecessaryCommitBatchSize
  <1> HIDE DEF there
  <1>5. wanted \in Nat /\ wanted <= there
    BY <1>3, <1>4 DEF Smaller
  <1>6. ExploreRollouts \in Nat
    BY BufferAssumption, TrainerAssumption DEF ExploreRollouts
  <1>7. CommitBatchSize \in Nat /\ CommitBatchSize <= there
    <2>1. CommitBatchSize \in 0 .. wanted
      BY <1>5, <1>6, CommitSizeInRange, TrainerAssumption
         DEF CommitBatchSize, there
    <2> QED BY <2>1, <1>3, <1>5
  <1>8. Cardinality(taken) = CommitBatchSize
    BY <1>1, <1>3, <1>7 DEF Selections, there
  <1>9. Cardinality(commit_batch') = Cardinality(taken)
    <2>1. IsFiniteSet(taken)
      BY <1>2, PromptsFinite
    <2> DEFINE f == [p \in taken |-> sample(p)]
    <2>2. f \in Bijection(taken, commit_batch')
      <3>1. f \in Surjection(taken, commit_batch')
        BY <1>1 DEF Surjection
      <3>2. \A p, q \in taken : f[p] = f[q] => p = q
        OBVIOUS
      <3> QED BY <3>1, <3>2 DEF Bijection, Injection, Surjection, IsInjective
    <2> HIDE DEF f
    <2> QED BY <2>1, <2>2, FS_Bijection DEF ExistsBijection
  <1> QED BY <1>5, <1>8, <1>9 DEF there

(* Whatever the round, its rollouts stay divisible by the workers.          *)
LEMMA NextEven == RunInv /\ RolloutsAreEven /\ [Next]_vars => RolloutsAreEven'
PROOF
  <1> SUFFICES ASSUME RunInv, RolloutsAreEven, [Next]_vars, pc' = "score",
                      Evenly(ExploreRollouts, NGpus)
               PROVE  Evenly(ExploreRollouts + Cardinality(commit_batch') * NCommit,
                             NGpus)
    BY DEF RolloutsAreEven, ExploreRollouts
  <1>1. SkipCommitBatch \/ PrepareCommitBatch \/ UNCHANGED vars
    BY DEF Next, Step, Stopped, FetchExploreBatch, SampleCrashes,
           ScoreExploreBatch, KeepGenerating, GenerateTooMany, FillBatch,
           FinishStep, FinishTraining, NextEpoch, RunOutOfEpochs, CloseEpoch
  <1>2. ExploreRollouts \in Nat
    BY BufferAssumption, TrainerAssumption DEF ExploreRollouts
  <1>3. CASE SkipCommitBatch
    <2>1. Cardinality(commit_batch') = 0
      BY <1>3, FS_EmptySet
         DEF SkipCommitBatch, memory, RunInv, RoundInProgress
    <2> QED BY <2>1, <1>2, TrainerAssumption
  <1>4. CASE PrepareCommitBatch
    <2> DEFINE wanted == Smaller(NecessaryCommitBatchSize,
                                 Cardinality(DOMAIN buffer))
    <2>1. Cardinality(commit_batch') = CommitBatchSize /\ wanted \in Nat
      BY <1>4, CommitBatchIsExact
    <2>2. CommitBatchSize =
            AdjustCommitBatchSize(wanted, ExploreRollouts, NCommit, NGpus)
      BY DEF CommitBatchSize
    <2> HIDE DEF wanted
    <2> QED BY <2>1, <2>2, <1>2, CommitSizeIsEven, TrainerAssumption
  <1>5. CASE UNCHANGED vars
    BY <1>5 DEF vars, memory, RolloutsAreEven
  <1> QED BY <1>1, <1>3, <1>4, <1>5

(* In a round that commits prompts the rollouts can be dealt evenly to the  *)
(* GPUs, for every number of GPUs and of rollouts, if they can be in a      *)
(* round that only explores.                                                *)
THEOREM RoundsAreDealtEvenly == Spec => []RolloutsAreEven
PROOF
  <1>1. Init => RolloutsAreEven
    BY DEF Init, RolloutsAreEven
  <1> QED BY RunInvariance, NextEven, <1>1, PTL DEF Spec

-----------------------------------------------------------------------------
(* What makes the limit on rounds inductive: where another round starts,    *)
(* one is left.                                                             *)
RoundIsLeft ==
    (pc = "fetch" /\ MaxNumGenBatches > 0) =>
        step_metrics.num_gen_batches < MaxNumGenBatches

(* Another exploration begins only while a round of the step is left.       *)
LEMMA NextBounded ==
  ASSUME TypeOK, RoundsAreBounded, RoundIsLeft, [Next]_vars
  PROVE  RoundsAreBounded' /\ RoundIsLeft'
PROOF
  <1> USE TrainerAssumption DEF RoundsAreBounded, RoundIsLeft
  <1>0. /\ step_metrics.num_gen_batches \in Nat
        /\ step_metrics \in [num_prompt_in_batch : Nat, num_gen_batches : Nat]
    BY DEF TypeOK
  <1>1. CASE FetchExploreBatch
    <2>1. /\ pc = "fetch" /\ pc' = "sample"
          /\ step_metrics'.num_gen_batches = step_metrics.num_gen_batches + 1
      BY <1>0, <1>1 DEF FetchExploreBatch
    <2> QED BY <1>0, <2>1
  <1>2. CASE SkipCommitBatch \/ SampleCrashes \/ PrepareCommitBatch
               \/ ScoreExploreBatch
    <2>1. UNCHANGED step_metrics /\ pc' # "fetch"
      BY <1>2 DEF SkipCommitBatch, SampleCrashes, PrepareCommitBatch,
         ScoreExploreBatch, memory
    <2> QED BY <2>1
  <1>3. CASE KeepGenerating \/ GenerateTooMany \/ FillBatch
    <2>1. step_metrics'.num_gen_batches = step_metrics.num_gen_batches
      BY <1>0, <1>3 DEF KeepGenerating, GenerateTooMany, FillBatch,
         StageCommitBatch
    <2>2. pc' = "fetch" => RoundsLeft
      BY <1>3 DEF KeepGenerating, GenerateTooMany, FillBatch
    <2> QED BY <1>0, <2>1, <2>2 DEF RoundsLeft
  <1>4. CASE FinishStep \/ FinishTraining
    <2>1. step_metrics'.num_gen_batches = 0
      BY <1>4 DEF FinishStep, FinishTraining, UpdateModel, ZeroMetrics
    <2> QED BY <2>1
  <1>5. CASE NextEpoch \/ RunOutOfEpochs
    <2>1. /\ pc = "fetch"
          /\ step_metrics'.num_gen_batches \in {0, step_metrics.num_gen_batches}
      BY <1>5 DEF NextEpoch, RunOutOfEpochs, CloseEpoch, DropPartialBatch,
         ZeroMetrics
    <2> QED BY <1>0, <2>1
  <1>6. CASE UNCHANGED vars
    BY <1>6 DEF vars, memory
  <1> QED BY <1>1, <1>2, <1>3, <1>4, <1>5, <1>6 DEF Next, Step, Stopped

(* No step takes more than max_num_gen_batches rounds, whatever is carried  *)
(* over from an epoch that ended with the step unfinished.                  *)
THEOREM StepsHaveFewRounds == Spec => []RoundsAreBounded
PROOF
  <1>1. Init => RoundsAreBounded /\ RoundIsLeft
    BY TrainerAssumption DEF Init, ZeroMetrics, RoundsAreBounded, RoundIsLeft
  <1>2. TypeOK /\ (RoundsAreBounded /\ RoundIsLeft) /\ [Next]_vars
           => (RoundsAreBounded /\ RoundIsLeft)'
    BY NextBounded
  <1> QED BY TypeCorrect, <1>1, <1>2, PTL DEF Spec

-----------------------------------------------------------------------------
(* PilotCommit implements PromptLifecycle: the initial state is initial,    *)
(* and every step of fit is a step in the lives of the prompts or leaves    *)
(* all of them where they are.                                              *)

(* The stage of a prompt, read from where the prompt is.  The cases of      *)
(* StageOf exclude one another because a prompt is in one place.            *)
StagesAre ==
    \A p \in Prompts :
        /\ StageOf(p) = "excluded" <=> p \in excluded
        /\ StageOf(p) = "trained"  <=> p \in trained
        /\ StageOf(p) = "staged"   <=> p \in Committed \cup Staged
        /\ StageOf(p) = "pooled"   <=> p \in Buffered
        /\ StageOf(p) = "rolling"  <=> p \in explore_batch
        /\ StageOf(p) = "unseen"   <=> p \in Unseen
        /\ StageOf(p) \in Lifecycle!Stages

(* Since a prompt is in at most one place, its stage is that place.         *)
LEMMA StagesOfPlaces == IInv => StagesAre
PROOF
  <1> SUFFICES ASSUME IInv, NEW p \in Prompts
               PROVE  /\ StageOf(p) = "excluded" <=> p \in excluded
                      /\ StageOf(p) = "trained"  <=> p \in trained
                      /\ StageOf(p) = "staged"   <=> p \in Committed \cup Staged
                      /\ StageOf(p) = "pooled"   <=> p \in Buffered
                      /\ StageOf(p) = "rolling"  <=> p \in explore_batch
                      /\ StageOf(p) = "unseen"   <=> p \in Unseen
                      /\ StageOf(p) \in Lifecycle!Stages
    BY DEF StagesAre
  <1>1. OnePlace /\ explore_batch \subseteq seen /\ seen \cap excluded = {}
    BY DEF IInv, RunInv, OnePlace, RoundInProgress, ExclusionTakesEffect
  <1> QED BY <1>1 DEF OnePlace, InHandApart, TrainedApart, StageOf, Unseen, Dataset, Lifecycle!Stages

(* The sets of prompts that PromptLifecycle speaks of.                      *)
LEMMA PlacesOfStages ==
  ASSUME IInv
  PROVE  /\ Lifecycle!In("unseen") = Unseen
         /\ Lifecycle!In("rolling") = explore_batch
         /\ Lifecycle!In("pooled") = Buffered
         /\ Lifecycle!In("staged") = Committed \cup Staged
PROOF
  <1>1. StagesAre
    BY StagesOfPlaces
  <1>2. /\ Unseen \subseteq Prompts /\ explore_batch \subseteq Prompts
        /\ Buffered \subseteq Prompts
        /\ Committed \subseteq Prompts /\ Staged \subseteq Prompts
    BY PromptsOfSamples
       DEF IInv, RunInv, TypeOK, BufferTypeOK, Unseen, Dataset, Buffered, Committed, Staged
  <1> QED BY <1>1, <1>2 DEF StagesAre, Lifecycle!In

(* The cardinality of the instance is the cardinality.                      *)
LEMMA SameCardinality == \A S : Lifecycle!Cardinality(S) = Cardinality(S)
  BY DEF Lifecycle!Cardinality, Cardinality

(* At first every prompt is unseen.                                         *)
LEMMA InitImplements == Init => Lifecycle!Init
PROOF
  <1> SUFFICES ASSUME Init, NEW p \in Prompts PROVE StageOf(p) = "unseen"
    BY DEF Lifecycle!Init
  <1>1. IInv /\ seen = {} /\ excluded = {}
    BY InitIInv DEF Init
  <1> QED BY <1>1, StagesOfPlaces DEF StagesAre, Unseen, Dataset

-----------------------------------------------------------------------------
(* The actions, one lemma each.                                             *)

(* A fetch explores prompts that were unseen.                               *)
LEMMA FetchImplements ==
  ASSUME IInv, StagesAre, StagesAre', FetchExploreBatch
  PROVE  Lifecycle!Explore
PROOF
  <1>1. PICK prompts \in SUBSET Unseen :
          /\ Cardinality(prompts) = GenBatchSize
          /\ explore_batch' = prompts
          /\ seen' = seen \cup prompts
    BY DEF FetchExploreBatch
  <1>2. /\ UNCHANGED <<buffer, commit_batch, batch, excluded, trained>>
        /\ explore_batch = {}
    BY DEF FetchExploreBatch, IInv, RunInv, RoundInProgress
  <1>3. /\ Committed' = Committed /\ Staged' = Staged /\ Buffered' = Buffered
        /\ Unseen' = Unseen \ prompts
    BY <1>1, <1>2 DEF Committed, Staged, Buffered, Unseen, Dataset, PromptsOf
  <1>4. ASSUME NEW p \in Prompts
        PROVE  StageOf(p)' = IF p \in prompts THEN "rolling" ELSE StageOf(p)
    BY <1>1, <1>2, <1>3 DEF StagesAre, Lifecycle!Stages
  <1>5. prompts \in SUBSET Lifecycle!In("unseen")
    BY PlacesOfStages
  <1>6. Lifecycle!Cardinality(prompts) = GenBatchSize
    BY <1>1, SameCardinality
  <1> QED BY <1>4, <1>5, <1>6 DEF Lifecycle!Explore, Lifecycle!Move

(* Prompts that are staged or about to be are as many as their samples.     *)
LEMMA StagedIsSmall ==
  IInv => Cardinality(Committed \cup Staged) <= TrainBatchSize
PROOF
  <1> SUFFICES ASSUME IInv
               PROVE  Cardinality(Committed \cup Staged) <= TrainBatchSize
    OBVIOUS
  <1> DEFINE both == batch \cup commit_batch
  <1>1. Committed \cup Staged = PromptsOf(both)
    BY PromptsOfUnion DEF Committed, Staged
  <1>2. IsFiniteSet(both)
    BY FS_Union DEF IInv, RunInv, RoundInProgress
  <1>3. \A s, t \in both : s.prompt = t.prompt => s = t
    BY DEF IInv, RunInv, OneSample
  <1>4. Cardinality(both) <= TrainBatchSize
    BY DEF IInv, RunInv, BatchIsCounted
  <1> HIDE DEF both
  <1> QED BY <1>1, <1>2, <1>3, <1>4, PromptsOfDistinct

(* Sampling the buffer stages the prompts that it takes.                    *)
LEMMA PrepareImplements ==
  ASSUME IInv, IInv', StagesAre, StagesAre', PrepareCommitBatch
  PROVE  Lifecycle!Stage
PROOF
  <1> DEFINE sample(p) == [prompt |-> p, step |-> buffer[p].step,
                           round |-> step_metrics.num_gen_batches]
  <1>1. PICK taken \in SUBSET DOMAIN buffer :
          /\ buffer' = Restrict(buffer, DOMAIN buffer \ taken)
          /\ commit_batch' = {sample(p) : p \in taken}
    BY DEF PrepareCommitBatch, Sample
  <1>2. /\ UNCHANGED <<explore_batch, batch, seen, excluded, trained>>
        /\ commit_batch = {}
    BY DEF PrepareCommitBatch, data, IInv, RunInv, RoundInProgress
  <1>3. Committed = {} /\ Committed' = taken
    <2>1. \A p \in taken : sample(p).prompt = p
      OBVIOUS
    <2> QED BY <1>1, <1>2, <2>1 DEF Committed, PromptsOf
  <1>4. /\ Staged' = Staged /\ Unseen' = Unseen
        /\ Buffered' = Buffered \ taken
    BY <1>1, <1>2 DEF Staged, Unseen, Dataset, Buffered, Restrict, PromptsOf
  <1>5. ASSUME NEW p \in Prompts
        PROVE  StageOf(p)' = IF p \in taken THEN "staged" ELSE StageOf(p)
    BY <1>2, <1>3, <1>4 DEF StagesAre, Lifecycle!Stages
  <1>6. Cardinality(Committed' \cup Staged') <= TrainBatchSize
    <2>1. (Cardinality(Committed \cup Staged) <= TrainBatchSize)'
      BY StagedIsSmall, PTL
    <2> QED BY <2>1
  <1>7. /\ taken \in SUBSET Lifecycle!In("pooled")
        /\ Lifecycle!Cardinality(Lifecycle!In("staged") \cup taken)
             <= TrainBatchSize
    <2>1. Lifecycle!In("staged") \cup taken = Committed' \cup Staged'
      BY <1>3, <1>4, PlacesOfStages
    <2>2. Lifecycle!In("pooled") = DOMAIN buffer
      BY PlacesOfStages DEF Buffered
    <2> QED BY <1>6, <2>1, <2>2, SameCardinality
  <1> QED BY <1>5, <1>7 DEF Lifecycle!Stage, Lifecycle!Move

(* Scoring judges the prompts explored.                                     *)
LEMMA ScoreImplements ==
  ASSUME IInv, StagesAre, StagesAre', ScoreExploreBatch
  PROVE  Lifecycle!Judge
PROOF
  <1>1. PICK solved \in [explore_batch -> Solved] :
          Add({p \in explore_batch : Passes(solved[p])}, solved, global_steps)
    BY DEF ScoreExploreBatch
  <1> DEFINE passed == {p \in explore_batch : Passes(solved[p])}
  <1>2. /\ explore_batch' = {}
        /\ UNCHANGED <<commit_batch, batch, seen, excluded, trained>>
        /\ explore_batch \subseteq seen
    BY DEF ScoreExploreBatch, IInv, RunInv, RoundInProgress
  <1>3. Buffered' = Buffered \cup passed
    BY <1>1 DEF Add, Buffered
  <1>4. /\ Committed' = Committed /\ Staged' = Staged
        /\ Unseen' = Unseen
    BY <1>2 DEF Committed, Staged, Unseen, Dataset, PromptsOf
  <1>5. passed \subseteq explore_batch
    OBVIOUS
  <1> HIDE DEF passed
  <1>6. ASSUME NEW p \in Prompts
        PROVE  StageOf(p)' = IF p \in passed THEN "pooled"
                             ELSE IF StageOf(p) = "rolling" THEN "dropped"
                             ELSE StageOf(p)
    BY <1>2, <1>3, <1>4, <1>5 DEF StagesAre, Lifecycle!Stages
  <1>7. passed \in SUBSET Lifecycle!In("rolling")
    BY <1>5, PlacesOfStages
  <1> QED BY <1>6, <1>7 DEF Lifecycle!Judge

(* An update trains on what is staged.                                      *)
LEMMA FinishImplements ==
  ASSUME IInv, StagesAre, StagesAre', FinishStep \/ FinishTraining
  PROVE  Lifecycle!Train
PROOF
  <1>1. /\ pc = "update"
        /\ buffer' = Restrict(buffer, DOMAIN buffer \ TooOld(global_steps))
        /\ trained' = trained \cup Staged
        /\ batch' = {}
        /\ UNCHANGED <<explore_batch, commit_batch, seen, excluded>>
    BY DEF FinishStep, FinishTraining, UpdateModel, Flush, Staged
  <1>2. commit_batch = {} /\ Committed = {}
    BY <1>1 DEF IInv, RunInv, RoundInProgress, Committed, PromptsOf
  <1> DEFINE old == TooOld(global_steps)
  <1>3. old \subseteq Buffered
    BY DEF TooOld, Buffered
  <1>4. Buffered' = Buffered \ old
    BY <1>1 DEF Buffered, Restrict
  <1>5. /\ Committed' = {} /\ Staged' = {}
        /\ Unseen' = Unseen
    BY <1>1, <1>2 DEF Committed, Staged, Unseen, Dataset, PromptsOf
  <1> HIDE DEF old
  <1>6. ASSUME NEW p \in Prompts
        PROVE  StageOf(p)' = IF StageOf(p) = "staged" THEN "trained"
                             ELSE IF p \in old THEN "dropped"
                             ELSE StageOf(p)
    BY <1>1, <1>2, <1>3, <1>4, <1>5 DEF StagesAre, Lifecycle!Stages
  <1>7. /\ old \in SUBSET Lifecycle!In("pooled")
        /\ Lifecycle!Cardinality(Lifecycle!In("staged")) = TrainBatchSize
    <2>1. Lifecycle!In("staged") = PromptsOf(batch)
      BY <1>2, PlacesOfStages DEF Staged
    <2>2. Cardinality(PromptsOf(batch)) = TrainBatchSize
      BY <1>1, UpdateIsFull DEF IInv, FullBatchIsDistinct
    <2> QED BY <1>3, <2>1, <2>2, PlacesOfStages, SameCardinality
  <1> QED BY <1>6, <1>7 DEF Lifecycle!Train

(* The end of an epoch excludes what is to be excluded and forgets the      *)
(* rest.                                                                    *)
LEMMA CloseImplements ==
  ASSUME IInv, StagesAre, StagesAre', NextEpoch \/ RunOutOfEpochs
  PROVE  Lifecycle!NewEpoch
PROOF
  <1>1. /\ pc = "fetch"
        /\ buffer' = Restrict(buffer, {})
        /\ excluded' = excluded \cup to_exclude
        /\ batch' = {} /\ seen' = {} /\ trained' = {}
        /\ UNCHANGED <<explore_batch, commit_batch>>
    BY DEF NextEpoch, RunOutOfEpochs, CloseEpoch, DropPartialBatch,
           FlushAll, ApplyExclusions
  <1>2. explore_batch = {} /\ commit_batch = {}
    BY <1>1 DEF IInv, RunInv, RoundInProgress
  <1>3. /\ Committed' = {} /\ Staged' = {} /\ Buffered' = {}
        /\ Unseen' = Prompts \ (excluded \cup to_exclude)
    BY <1>1, <1>2
       DEF Committed, Staged, Buffered, Unseen, Dataset, PromptsOf, Restrict
  <1>4. to_exclude \subseteq Prompts \ Unseen
    BY DEF IInv, RunInv, TypeOK, ExclusionTakesEffect, Unseen
  <1>5. ASSUME NEW p \in Prompts
        PROVE  StageOf(p)' = IF p \in to_exclude \cup excluded
                             THEN "excluded" ELSE "unseen"
    BY <1>1, <1>3 DEF StagesAre
  <1>6. /\ Lifecycle!In("rolling") = {}
        /\ to_exclude \in SUBSET (Prompts \ Lifecycle!In("unseen"))
    BY <1>2, <1>4, PlacesOfStages
  <1>7. Lifecycle!In("excluded") = Prompts \cap excluded
    BY DEF StagesAre, Lifecycle!In
  <1> QED BY <1>5, <1>6, <1>7 DEF Lifecycle!NewEpoch

(* The other steps leave every prompt where it is.                          *)
LEMMA OthersStutter ==
  ASSUME \/ SkipCommitBatch \/ SampleCrashes
         \/ KeepGenerating \/ GenerateTooMany \/ FillBatch
         \/ UNCHANGED vars
  PROVE  UNCHANGED [p \in Prompts |-> StageOf(p)]
PROOF
  <1>1. /\ PromptsOf(commit_batch') \cup PromptsOf(batch')
             = PromptsOf(commit_batch) \cup PromptsOf(batch)
        /\ UNCHANGED <<buffer, explore_batch, seen, excluded, trained>>
    <2>1. CASE SkipCommitBatch \/ SampleCrashes \/ UNCHANGED vars
      BY <2>1 DEF SkipCommitBatch, SampleCrashes, vars, memory, data
    <2>2. CASE KeepGenerating \/ GenerateTooMany \/ FillBatch
      <3>1. /\ batch' = batch \cup commit_batch /\ commit_batch' = {}
            /\ UNCHANGED <<buffer, explore_batch, seen, excluded, trained>>
        BY <2>2 DEF KeepGenerating, GenerateTooMany, FillBatch,
           StageCommitBatch, data
      <3> QED BY <3>1 DEF PromptsOf
    <2> QED BY <2>1, <2>2
  <1>2. Buffered' = Buffered
          /\ Committed' \cup Staged' = Committed \cup Staged
    BY <1>1 DEF Buffered, Committed, Staged, PromptsOf
  <1>3. ASSUME NEW p \in Prompts PROVE StageOf(p)' = StageOf(p)
    BY <1>1, <1>2 DEF StageOf
  <1> QED BY <1>3

-----------------------------------------------------------------------------
(* Every step is one of the lifecycle or a stutter.                         *)
LEMMA NextImplements ==
  ASSUME IInv, IInv', StagesAre, StagesAre', [Next]_vars
  PROVE  [Lifecycle!Next]_([p \in Prompts |-> StageOf(p)])
PROOF
  <1>1. CASE FetchExploreBatch
    BY <1>1, FetchImplements DEF Lifecycle!Next
  <1>2. CASE PrepareCommitBatch
    BY <1>2, PrepareImplements DEF Lifecycle!Next
  <1>3. CASE ScoreExploreBatch
    BY <1>3, ScoreImplements DEF Lifecycle!Next
  <1>4. CASE FinishStep \/ FinishTraining
    BY <1>4, FinishImplements DEF Lifecycle!Next
  <1>5. CASE NextEpoch \/ RunOutOfEpochs
    BY <1>5, CloseImplements DEF Lifecycle!Next
  <1>6. CASE \/ SkipCommitBatch \/ SampleCrashes
             \/ KeepGenerating \/ GenerateTooMany \/ FillBatch
             \/ UNCHANGED vars
    BY <1>6, OthersStutter
  <1> QED BY <1>1, <1>2, <1>3, <1>4, <1>5, <1>6 DEF Next, Step, Stopped

(* fit moves prompts only as PromptLifecycle allows: explored at most once  *)
(* in an epoch, committed to at most one update, updates of exactly         *)
(* train_bsz prompts, and excluded for good.                                *)
THEOREM LifecycleIsImplemented == Spec => ImplementsLifecycle
PROOF
  <1>1. IInv /\ IInv' /\ StagesAre /\ StagesAre' /\ [Next]_vars
          => [Lifecycle!Next]_([p \in Prompts |-> StageOf(p)])
    BY NextImplements
  <1> QED BY InitImplements, Invariance, StagesOfPlaces, <1>1, PTL
          DEF Spec, ImplementsLifecycle, Lifecycle!Spec

=============================================================================
