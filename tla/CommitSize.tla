----------------------------- MODULE CommitSize -----------------------------
(***************************************************************************)
(* recipe/pc/pc_ray_trainer.py,                                            *)
(* _adjust_commit_batch_size_for_gpu_divisibility: how many of the prompts *)
(* the buffer could supply are committed in a round, so that the rollouts  *)
(* of the round can be dealt evenly to the GPUs.                           *)
(*   c  prompts wanted        e  rollouts of the explored prompts          *)
(*   n  rollouts per commit   g  number of GPUs                            *)
(***************************************************************************)
EXTENDS Integers, FiniteSets

Evenly(total, g) == total % g = 0

(* math.gcd and the LCM built from it.                                      *)
CommonDivisors(a, b) == {d \in 1 .. a : a % d = 0 /\ b % d = 0}
Gcd(a, b) ==
    CHOOSE d \in CommonDivisors(a, b) : \A x \in CommonDivisors(a, b) : x <= d
Lcm(a, b) == (a * b) \div Gcd(a, b)

(* Simple case: the explored rollouts are dealt evenly by themselves.       *)
ByLcm(c, n, g) == (((c * n) \div Lcm(g, n)) * Lcm(g, n)) \div n

(* General case: the loop that gives up one prompt at a time until the      *)
(* total is even or no prompt is left.                                      *)
StopsAt(c, e, n, g) == {k \in 0 .. c : k = 0 \/ Evenly(e + k * n, g)}
ByDecrement(c, e, n, g) ==
    CHOOSE k \in StopsAt(c, e, n, g) : \A x \in StopsAt(c, e, n, g) : x <= k

Unadjusted(c, e, n, g) == c
AdjustCommitBatchSize(c, e, n, g) ==
    IF Evenly(e + c * n, g) THEN c
    ELSE IF Evenly(e, g) THEN ByLcm(c, n, g)
    ELSE ByDecrement(c, e, n, g)

=============================================================================
