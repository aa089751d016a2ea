------------------------- MODULE ReplicaMathProofs -------------------------
(***************************************************************************)
(* Lemmas on the planner's arithmetic, for every configuration and demand. *)
(* They are the ground of the theorems of ReplicaPlanProofs and            *)
(* PlannerProofs.                                                          *)
(***************************************************************************)
EXTENDS ReplicaMath, TLAPS

IntPair == [prefill : Int, decode : Int]
NatPair == [prefill : Nat, decode : Nat]

\* Multiplication by a natural number is monotone (the budget compares sums of
\* products, which the solver does not order by itself).
LEMMA ProductMonotone ==
  ASSUME NEW a \in Int, NEW b \in Int, a <= b, NEW g \in Nat
  PROVE  a * g <= b * g
  <1>1. (b - a) * g >= 0
    OBVIOUS
  <1>2. (b - a) * g = b * g - a * g
    OBVIOUS
  <1> QED
    BY <1>1, <1>2

\* GPU counts of pairs of integers are integers.
LEMMA GpuTotalTyped ==
  ASSUME NEW c \in PlannerConfigs, NEW q \in IntPair
  PROVE  GpuTotal(c, q) \in Int
  <1>1. /\ c.prefill_engine_num_gpu \in Int /\ c.decode_engine_num_gpu \in Int
        /\ q.prefill \in Int /\ q.decode \in Int
    BY DEF PlannerConfigs, IntPair
  <1> QED
    BY <1>1 DEF GpuTotal

\* A clamped demand is a pair of natural numbers within the bounds of its role.
LEMMA ClampTyped ==
  ASSUME NEW c \in PlannerConfigs, NEW raw \in IntPair
  PROVE  /\ WithinRole(c, raw) \in NatPair
         /\ WithinRole(c, raw).prefill \in RoleBounds(c, c.max_prefill_replicas)
         /\ WithinRole(c, raw).decode \in RoleBounds(c, c.max_decode_replicas)
  <1>1. /\ raw.prefill \in Int /\ raw.decode \in Int
        /\ c.min_replicas \in Nat
        /\ c.max_prefill_replicas \in Nat /\ c.max_decode_replicas \in Nat
    BY DEF PlannerConfigs, IntPair
  <1> QED
    BY <1>1 DEF WithinRole, AtLeast, AtMost, RoleBounds, NatPair

\* Under a slack budget the proportional branch is dead: the plan is the
\* clamped demand.
LEMMA SlackNeverBinds ==
  ASSUME NEW c \in PlannerConfigs, SlackBudget(c), NEW raw \in IntPair
  PROVE  /\ ~(GpuTotal(c, WithinRole(c, raw)) > c.max_gpu_budget)
         /\ Plans(c, raw) = {WithinRole(c, raw)}
  <1> DEFINE w == WithinRole(c, raw)
             p == c.prefill_engine_num_gpu
             d == c.decode_engine_num_gpu
             mp == c.max_prefill_replicas
             md == c.max_decode_replicas
  <1>1. /\ p \in Nat /\ d \in Nat /\ mp \in Nat /\ md \in Nat
        /\ c.max_gpu_budget \in Nat /\ c.min_replicas \in Nat
    BY DEF PlannerConfigs
  <1>2. w \in NatPair /\ w.prefill <= mp /\ w.decode <= md
    BY <1>1, ClampTyped DEF RoleBounds, AtMost, NatPair
  <1>3. w.prefill \in Int /\ w.decode \in Int
    <2> HIDE DEF w
    <2> QED BY <1>2 DEF NatPair
  <1>4. w.prefill * p <= mp * p /\ w.decode * d <= md * d
    <2> HIDE DEF w, p, d, mp, md
    <2> QED BY <1>1, <1>2, <1>3, ProductMonotone
  <1>5. mp * p + md * d <= c.max_gpu_budget
    BY DEF SlackBudget, GpuTotal
  <1>6. ~(w.prefill * p + w.decode * d > c.max_gpu_budget)
    <2> HIDE DEF w, p, d, mp, md
    <2> QED BY <1>1, <1>3, <1>4, <1>5
  <1>7. ~(GpuTotal(c, w) > c.max_gpu_budget)
    BY <1>6 DEF GpuTotal
  <1> QED
    BY <1>7 DEF Plans, FitToBudget

\* The decode count that fills the rest of the budget is no less than the
\* minimum, hence a natural number.
LEMMA DecodeForRestTyped ==
  ASSUME NEW c \in PlannerConfigs, NEW p \in Int
  PROVE  DecodeForRest(c, p) \in Nat
  <1> DEFINE num == c.max_gpu_budget - p * c.prefill_engine_num_gpu
             den == c.decode_engine_num_gpu
  <1>1. num \in Int /\ den \in Nat \ {0}
    BY DEF PlannerConfigs
  <1>2. num \div den \in Int
    <2> HIDE DEF num, den
    <2> QED BY <1>1
  <1>3. RoundHalfEven(num, den) \in Int
    <2> HIDE DEF num, den
    <2> QED BY <1>2 DEF RoundHalfEven
  <1>4. c.min_replicas \in Nat
    BY DEF PlannerConfigs
  <1>5. AtLeast(RoundHalfEven(num, den), c.min_replicas) \in Nat
    <2> HIDE DEF num, den
    <2> QED BY <1>3, <1>4 DEF AtLeast
  <1> QED
    BY <1>5 DEF DecodeForRest

\* Every plan is a pair of natural numbers.
LEMMA PlanTyped ==
  ASSUME NEW c \in PlannerConfigs, NEW raw \in IntPair, NEW q \in Plans(c, raw)
  PROVE  q \in NatPair
  <1> DEFINE w == WithinRole(c, raw)
  <1>1. w \in NatPair
    BY ClampTyped
  <1>2. CASE q = w
    BY <1>1, <1>2
  <1>3. CASE /\ GpuTotal(c, w) > c.max_gpu_budget
             /\ \E p \in ScaledPrefill(c, w) :
                  q = [prefill |-> p, decode |-> DecodeForRest(c, p)]
    <2>1. PICK p \in ScaledPrefill(c, w) : q = [prefill |-> p, decode |-> DecodeForRest(c, p)]
      BY <1>3
    <2> DEFINE num == w.prefill * c.max_gpu_budget
               den == GpuTotal(c, w)
    <2>2. PICK n \in {num \div den, num \div den + 1} : p = AtLeast(n, c.min_replicas)
      BY DEF ScaledPrefill, NearestTo
    <2>3. c.max_gpu_budget \in Nat /\ c.min_replicas \in Nat
      BY DEF PlannerConfigs
    <2>4. num \in Int /\ den \in Nat \ {0}
      <3>1. w \in IntPair
        <4> HIDE DEF w
        <4> QED BY <1>1 DEF NatPair, IntPair
      <3>2. GpuTotal(c, w) \in Int
        BY <3>1, GpuTotalTyped
      <3> HIDE DEF w
      <3> QED BY <1>3, <2>3, <3>1, <3>2 DEF IntPair
    <2>5. num \div den \in Int
      <3> HIDE DEF num, den
      <3> QED BY <2>4
    <2>6. p \in Nat
      <3> HIDE DEF num, den
      <3> QED BY <2>2, <2>3, <2>5 DEF AtLeast
    <2> QED
      BY <2>1, <2>6, DecodeForRestTyped DEF NatPair
  <1> QED
    BY <1>2, <1>3 DEF Plans, FitToBudget

-----------------------------------------------------------------------------
(* What rounding a budget down to engines may add or take away *)

\* round() is at most half a unit away, and even at a tie.
LEMMA RoundedNear ==
  ASSUME NEW num \in Int, NEW den \in Nat \ {0}
  PROVE  LET k == RoundHalfEven(num, den) IN
         /\ k \in Int
         /\ 2 * (k * den - num) <= den
         /\ 2 * (k * den - num) = den => k % 2 = 0
  <1> DEFINE q == num \div den
             r == num % den
  <1>1. q \in Int /\ r \in 0..(den - 1)
    OBVIOUS
  <1>2. num = q * den + r
    OBVIOUS
  <1>3. (q + 1) * den = q * den + den
    BY <1>1
  <1>4. q * den \in Int
    BY <1>1
  <1>5. CASE 2 * r < den
    <2>1. RoundHalfEven(num, den) = q
      BY <1>5 DEF RoundHalfEven
    <2> HIDE DEF q, r
    <2> QED BY <1>1, <1>2, <1>4, <1>5, <2>1
  <1>6. CASE 2 * r = den
    <2>1. CASE q % 2 = 0
      <3>1. RoundHalfEven(num, den) = q
        BY <1>6, <2>1 DEF RoundHalfEven
      <3> HIDE DEF q, r
      <3> QED BY <1>1, <1>2, <1>4, <1>6, <2>1, <3>1
    <2>2. CASE q % 2 # 0
      <3>1. RoundHalfEven(num, den) = q + 1
        BY <1>6, <2>2 DEF RoundHalfEven
      <3>2. (q + 1) % 2 = 0
        <4> HIDE DEF q
        <4> QED BY <1>1, <2>2
      <3> HIDE DEF q, r
      <3> QED BY <1>1, <1>2, <1>3, <1>4, <1>6, <3>1, <3>2
    <2> QED BY <2>1, <2>2
  <1>7. CASE 2 * r > den
    <2>1. RoundHalfEven(num, den) = q + 1
      BY <1>1, <1>7 DEF RoundHalfEven
    <2> HIDE DEF q, r
    <2> QED BY <1>1, <1>2, <1>3, <1>4, <1>7, <2>1
  <1> QED
    BY <1>1, <1>5, <1>6, <1>7

\* A plan the budget cut down: n and k are the rounded counts of the roles, at
\* most half an engine away from their shares.
LEMMA CutParts ==
  ASSUME NEW c \in PlannerConfigs, NEW raw \in IntPair, NEW q \in Plans(c, raw),
         GpuTotal(c, WithinRole(c, raw)) > c.max_gpu_budget
  PROVE  \E n \in Int, k \in Int :
           /\ q.prefill = AtLeast(n, c.min_replicas)
           /\ q.decode = AtLeast(k, c.min_replicas)
           /\ 2 * (n * GpuTotal(c, WithinRole(c, raw)) - WithinRole(c, raw).prefill * c.max_gpu_budget)
                <= GpuTotal(c, WithinRole(c, raw))
           /\ 2 * (WithinRole(c, raw).prefill * c.max_gpu_budget - n * GpuTotal(c, WithinRole(c, raw)))
                <= GpuTotal(c, WithinRole(c, raw))
           /\ 2 * (k * c.decode_engine_num_gpu - (c.max_gpu_budget - q.prefill * c.prefill_engine_num_gpu))
                <= c.decode_engine_num_gpu
           /\ 2 * (k * c.decode_engine_num_gpu - (c.max_gpu_budget - q.prefill * c.prefill_engine_num_gpu))
                = c.decode_engine_num_gpu => k % 2 = 0
  <1> DEFINE w == WithinRole(c, raw)
             total == GpuTotal(c, w)
             share == w.prefill * c.max_gpu_budget
  <1>1. PICK p \in ScaledPrefill(c, w) : q = [prefill |-> p, decode |-> DecodeForRest(c, p)]
    BY DEF Plans, FitToBudget
  <1>2. PICK n \in NearestTo(share, total) : p = AtLeast(n, c.min_replicas)
    BY DEF ScaledPrefill
  <1>3. /\ c.max_gpu_budget \in Nat /\ c.min_replicas \in Nat
        /\ c.prefill_engine_num_gpu \in Nat
        /\ c.decode_engine_num_gpu \in Nat \ {0}
    BY DEF PlannerConfigs
  <1>4. w \in NatPair
    BY ClampTyped
  <1>5. share \in Int
    <2> HIDE DEF w
    <2> QED BY <1>3, <1>4 DEF NatPair
  <1>6. total \in Nat \ {0}
    <2>1. total \in Int
      <3>1. w \in IntPair
        <4> HIDE DEF w
        <4> QED BY <1>4 DEF NatPair, IntPair
      <3> QED BY <3>1, GpuTotalTyped
    <2>2. total > c.max_gpu_budget
      OBVIOUS
    <2> HIDE DEF total
    <2> QED BY <2>1, <2>2, <1>3
  <1>7. /\ n \in Int
        /\ 2 * (n * total - share) <= total
        /\ 2 * (share - n * total) <= total
    <2> HIDE DEF share, total
    <2>1. n \in Int
      BY <1>2, <1>5, <1>6 DEF NearestTo
    <2> QED BY <2>1, <1>2 DEF NearestTo
  <1>8. p \in Int
    BY <1>2, <1>3, <1>7 DEF AtLeast
  <1> DEFINE rest == c.max_gpu_budget - p * c.prefill_engine_num_gpu
             k == RoundHalfEven(rest, c.decode_engine_num_gpu)
  <1>9. rest \in Int
    BY <1>3, <1>8
  <1>10. /\ k \in Int
         /\ 2 * (k * c.decode_engine_num_gpu - rest) <= c.decode_engine_num_gpu
         /\ 2 * (k * c.decode_engine_num_gpu - rest) = c.decode_engine_num_gpu => k % 2 = 0
    <2> HIDE DEF rest
    <2> QED BY <1>3, <1>9, RoundedNear
  <1>11. q.prefill = p /\ q.decode = AtLeast(k, c.min_replicas)
    BY <1>1 DEF DecodeForRest
  <1> HIDE DEF k
  <1> QED
    BY <1>2, <1>7, <1>10, <1>11

\* Half a prefill engine too many costs no more than that: `all` GPUs are asked
\* for, `used` of them for prefill, and n engines of g GPUs are its share.
LEMMA ShareBounded ==
  ASSUME NEW n \in Int, NEW g \in Nat, NEW used \in Nat, NEW all \in Nat, NEW budget \in Nat,
         NEW engines \in Nat, used = engines * g, used <= all, all > 0,
         2 * (n * all - engines * budget) <= all
  PROVE  2 * (n * g) - 2 * budget <= g
  <1> DEFINE excess == 2 * (n * g) - 2 * budget - g
  <1>1. excess \in Int
    OBVIOUS
  <1>2. 2 * (n * all - engines * budget) * g <= all * g
    BY ProductMonotone
  <1>3. 2 * (n * all - engines * budget) * g = 2 * (n * g) * all - 2 * (used * budget)
    OBVIOUS
  <1>4. used * budget <= all * budget
    BY ProductMonotone
  <1>5. excess * all = 2 * (n * g) * all - 2 * (all * budget) - all * g
    OBVIOUS
  <1>6. excess * all <= 0
    <2>1. used * budget \in Int /\ all * budget \in Int /\ all * g \in Int /\ 2 * (n * g) * all \in Int
      OBVIOUS
    <2> HIDE DEF excess
    <2> QED BY <1>2, <1>3, <1>4, <1>5, <2>1
  <1>7. excess <= 0
    <2>1. SUFFICES ASSUME excess >= 1 PROVE FALSE
      BY <1>1
    <2> HIDE DEF excess
    <2>2. 1 * all <= excess * all
      BY <1>1, <2>1, ProductMonotone
    <2> QED BY <1>1, <1>6, <2>2
  <1> QED
    BY <1>7

\* A product of naturals that is not positive has a factor 0.
LEMMA ZeroProduct ==
  ASSUME NEW a \in Nat, NEW b \in Nat \ {0}, a * b <= 0
  PROVE  a = 0
  <1>1. SUFFICES ASSUME 1 <= a PROVE FALSE
    OBVIOUS
  <1>2. 1 * b <= a * b
    BY <1>1, ProductMonotone
  <1> QED
    BY <1>2

\* Decode gets no more than it asked for out of the rest, k engines of h GPUs
\* each: prefill gave up at most half an engine of g <= h GPUs (n of its
\* engines are its share, m >= n the minimum included).  At the extreme, where
\* decode asked for none, the rest is half an engine and rounds to none.
LEMMA RestNeverRaises ==
  ASSUME NEW n \in Int, NEW k \in Int, NEW m \in Nat, n <= m,
         NEW prefill \in Nat, NEW decode \in Nat,
         NEW g \in Nat \ {0}, NEW h \in Nat \ {0}, g <= h,
         NEW budget \in Nat, NEW all \in Nat, all > budget,
         all = prefill * g + decode * h,
         2 * (prefill * budget - n * all) <= all,
         2 * (k * h - (budget - m * g)) <= h,
         2 * (k * h - (budget - m * g)) = h => k % 2 = 0
  PROVE  k <= decode
  <1>1. SUFFICES ASSUME decode + 1 <= k PROVE FALSE
    OBVIOUS
  <1> DEFINE u == prefill * g
             v == decode * h
             x == n * g
             y == m * g
             z == k * h
  <1>2. u \in Nat /\ v \in Nat /\ x \in Int /\ y \in Int /\ z \in Int
    OBVIOUS
  <1>3. x <= y
    BY ProductMonotone
  <1>4. v + h <= z
    <2>1. (decode + 1) * h <= z
      BY <1>1, ProductMonotone
    <2> QED BY <1>2, <2>1
  <1>5. 2 * (z - (budget - y)) <= h
    OBVIOUS
  <1> DEFINE e == (2 * v + h + 2 * x) - 2 * budget
  <1>6. e \in Int /\ e <= 0
    <2> HIDE DEF u, v, x, y, z
    <2> QED BY <1>2, <1>3, <1>4, <1>5
  <1>7. 2 * (u * budget - x * all) <= all * g
    <2>1. 2 * (prefill * budget - n * all) * g <= all * g
      BY ProductMonotone
    <2>2. 2 * (prefill * budget - n * all) * g = 2 * (u * budget - x * all)
      OBVIOUS
    <2> QED BY <2>1, <2>2
  <1>8. e * all <= 0
    <2>1. e * all <= 0 * all
      <3> HIDE DEF e
      <3> QED BY <1>6, ProductMonotone
    <2> QED BY <2>1
  <1>9. v * (all - budget) + v * (all - budget) + (h - g) * all <= 0
    <2>1. all = u + v
      OBVIOUS
    <2>2. e * all = 2 * (v * all) + h * all + 2 * (x * all) - 2 * (budget * all)
      <3> HIDE DEF u, v, x
      <3> QED BY <1>2
    <2>3. budget * all = budget * u + budget * v
      <3> HIDE DEF u, v
      <3> QED BY <1>2, <2>1
    <2>4. v * (all - budget) = v * all - budget * v /\ (h - g) * all = h * all - all * g
      <3> HIDE DEF v
      <3> QED BY <1>2
    <2>5. u * budget = budget * u
      <3> HIDE DEF u
      <3> QED BY <1>2
    <2>6. /\ v * all \in Int /\ h * all \in Int /\ x * all \in Int /\ budget * u \in Int
          /\ budget * v \in Int /\ all * g \in Int
      <3> HIDE DEF u, v, x
      <3> QED BY <1>2
    <2> HIDE DEF e, u, v, x
    <2> QED BY <1>7, <1>8, <2>2, <2>3, <2>4, <2>5, <2>6
  <1>10. v * (all - budget) >= 0 /\ (h - g) * all >= 0
    <2> HIDE DEF v
    <2> QED BY <1>2
  <1>11. v = 0
    <2>1. v * (all - budget) <= 0
      <3>1. v * (all - budget) \in Int /\ (h - g) * all \in Int
        <4> HIDE DEF v
        <4> QED BY <1>2
      <3> HIDE DEF v
      <3> QED BY <1>9, <1>10, <3>1
    <2> HIDE DEF v
    <2> QED BY <1>2, <2>1, ZeroProduct
  <1>12. h = g
    <2>1. (h - g) * all <= 0
      <3>1. (h - g) * all \in Int
        OBVIOUS
      <3> HIDE DEF v
      <3> QED BY <1>9, <1>11, <3>1
    <2>2. h - g = 0
      BY <2>1, ZeroProduct
    <2> QED BY <2>2
  <1>13. decode = 0
    BY <1>11, ZeroProduct
  <1>14. 2 * budget - 2 * x <= h
    <2>1. all = u
      BY <1>11
    <2> DEFINE f == (2 * budget - 2 * x) - h
    <2>2. f \in Int
      <3> HIDE DEF x
      <3> QED BY <1>2
    <2>3. f * all <= 0
      <3>1. f * all = 2 * (all * budget - x * all) - all * g
        <4> HIDE DEF x
        <4> QED BY <1>2, <1>12
      <3>2. all * budget \in Int /\ x * all \in Int /\ all * g \in Int
        <4> HIDE DEF x
        <4> QED BY <1>2
      <3> HIDE DEF f, x, u
      <3> QED BY <1>7, <2>1, <3>1, <3>2
    <2>4. f <= 0
      <3>1. SUFFICES ASSUME 1 <= f PROVE FALSE
        BY <2>2
      <3> HIDE DEF f
      <3>2. 1 * all <= f * all
        BY <2>2, <3>1, ProductMonotone
      <3> QED BY <2>2, <2>3, <3>2
    <2> HIDE DEF x
    <2> QED BY <1>2, <2>4
  <1>15. k = 1
    <2>1. SUFFICES ASSUME 2 <= k PROVE FALSE
      BY <1>1, <1>13
    <2>2. 2 * h <= z
      BY <2>1, ProductMonotone
    <2> HIDE DEF x, y, z
    <2> QED BY <1>2, <1>3, <1>5, <1>14, <2>2
  <1>16. 2 * (z - (budget - y)) = h
    <2>1. z = h
      BY <1>15
    <2> HIDE DEF x, y, z
    <2> QED BY <1>2, <1>3, <1>5, <1>14, <2>1
  <1> QED
    BY <1>15, <1>16

\* Prefill's share never exceeds its demand: the budget is less than `all`.
LEMMA ShareNeverRaises ==
  ASSUME NEW n \in Int, NEW prefill \in Nat, NEW budget \in Nat, NEW all \in Nat,
         all > budget, 2 * (n * all - prefill * budget) <= all
  PROVE  n <= prefill
  <1>1. SUFFICES ASSUME prefill + 1 <= n PROVE FALSE
    OBVIOUS
  <1>2. (prefill + 1) * all <= n * all
    BY <1>1, ProductMonotone
  <1>3. (prefill + 1) * all = prefill * all + all
    OBVIOUS
  <1>4. prefill * budget <= prefill * all
    <2>1. budget * prefill <= all * prefill
      BY ProductMonotone
    <2> QED BY <2>1
  <1>5. prefill * budget \in Int /\ prefill * all \in Int /\ n * all \in Int
    OBVIOUS
  <1> QED
    BY <1>2, <1>3, <1>4, <1>5
=============================================================================
