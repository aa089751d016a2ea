---------------------------- MODULE DemandProofs ----------------------------
(***************************************************************************)
(* What the plan of an interval does for the predicted load: the theorems  *)
(* behind TypeOK, PrefillCarries, DecodeMeetsSla and NoSpareDecode of      *)
(* Sizing, for every profile, surface, load, predictor and configuration.  *)
(*                                                                         *)
(* The invariant (Sized) types what a decision is computed from, from the  *)
(* ConfigMap through the interpolators and measurements to the correction  *)
(* factors, and keeps with a decision the two demands it came from         *)
(* (Computed).  The rest is rounding up, the greatest column within the    *)
(* SLA, and a clamp that a slack budget leaves alone.                      *)
(***************************************************************************)
EXTENDS ProfileProofs, ReplicaMathProofs

-----------------------------------------------------------------------------
(* Greatest and least elements *)

\* A set of natural numbers has a least element.
LEMMA Least ==
  ASSUME NEW T \in SUBSET Nat, T # {}
  PROVE  \E m \in T : \A n \in T : ~(n < m)
  <1>1. \E m \in T : \A n \in T : <<n, m>> \notin OpToRel(<, Nat)
    BY NatLessThanWellFounded, WFMin
  <1>2. \A m, n \in Nat : n < m => <<n, m>> \in OpToRel(<, Nat)
    BY DEF OpToRel
  <1> QED
    BY <1>1, <1>2

\* Of finitely many integers one is the greatest.
LEMMA GreatestEntry ==
  ASSUME NEW n \in Nat \ {0}, NEW f \in [1..n -> Int]
  PROVE  \E k \in 1..n : \A j \in 1..n : f[j] <= f[k]
  <1> DEFINE HasGreatest(m) == \E k \in 1..m : \A j \in 1..m : f[j] <= f[k]
             T == {m \in 1..n : ~HasGreatest(m)}
  <1>1. SUFFICES ASSUME T # {} PROVE FALSE
    <2>1. n \in T \/ HasGreatest(n)
      OBVIOUS
    <2> QED BY <2>1
  <1>2. PICK m \in T : \A l \in T : ~(l < m)
    <2>1. T \in SUBSET Nat
      OBVIOUS
    <2> HIDE DEF T
    <2> QED BY <1>1, <2>1, Least
  <1>3. m \in 1..n /\ ~HasGreatest(m)
    BY <1>2
  <1>4. m # 1
    <2>1. 1 \in 1..n /\ HasGreatest(1)
      OBVIOUS
    <2> QED BY <1>3, <2>1
  <1>5. m - 1 \in 1..n /\ m - 1 < m
    BY <1>3, <1>4
  <1>6. HasGreatest(m - 1)
    <2>1. m - 1 \notin T
      <3> HIDE DEF T
      <3> QED BY <1>2, <1>5
    <2> HIDE DEF HasGreatest
    <2> QED BY <1>5, <2>1
  <1>7. PICK k \in 1..(m - 1) : \A j \in 1..(m - 1) : f[j] <= f[k]
    BY <1>6
  <1>8. /\ k \in 1..m /\ m \in 1..m /\ f[k] \in Int /\ f[m] \in Int
        /\ \A j \in 1..m : j = m \/ j \in 1..(m - 1)
        /\ \A j \in 1..m : f[j] \in Int
    BY <1>3, <1>5
  <1>9. CASE f[m] <= f[k]
    <2>1. \A j \in 1..m : f[j] <= f[k]
      BY <1>7, <1>8, <1>9
    <2> QED BY <1>3, <1>8, <2>1
  <1>10. CASE ~(f[m] <= f[k])
    <2>1. \A j \in 1..m : f[j] <= f[m]
      <3> SUFFICES ASSUME NEW j \in 1..m PROVE f[j] <= f[m]
        OBVIOUS
      <3>1. CASE j = m
        BY <1>8, <3>1
      <3>2. CASE j \in 1..(m - 1)
        BY <1>7, <1>8, <1>10, <3>2
      <3> QED BY <1>8, <3>1, <3>2
    <2> QED BY <1>3, <1>8, <2>1
  <1> QED BY <1>9, <1>10

\* Max and Min of finitely many integers are what their names say.
LEMMA Extremes ==
  ASSUME NEW n \in Nat \ {0}, NEW f \in [1..n -> Int], NEW S, S = {f[j] : j \in 1..n}
  PROVE  /\ Max(S) \in S /\ \A s \in S : s <= Max(S)
         /\ Min(S) \in S /\ \A s \in S : Min(S) <= s
  <1>1. \A s \in S : s \in Int
    OBVIOUS
  <1>2. \E x \in S : \A y \in S : x >= y
    <2>1. PICK k \in 1..n : \A j \in 1..n : f[j] <= f[k]
      BY GreatestEntry
    <2> QED BY <2>1
  <1>3. \E x \in S : \A y \in S : x <= y
    <2> DEFINE g == [j \in 1..n |-> -f[j]]
    <2>1. g \in [1..n -> Int] /\ \A j \in 1..n : g[j] = -f[j]
      OBVIOUS
    <2>2. PICK k \in 1..n : \A j \in 1..n : g[j] <= g[k]
      <3> HIDE DEF g
      <3> QED BY <2>1, GreatestEntry
    <2>3. \A j \in 1..n : f[k] <= f[j]
      <3> HIDE DEF g
      <3> QED BY <2>1, <2>2
    <2> QED BY <2>3
  <1>4. Max(S) \in S /\ \A y \in S : Max(S) >= y
    BY <1>2 DEF Max
  <1>5. Min(S) \in S /\ \A y \in S : Min(S) <= y
    BY <1>3 DEF Min
  <1> QED BY <1>1, <1>4, <1>5

\* The greatest of some columns.
LEMMA GreatestColumn ==
  ASSUME NEW S \in SUBSET Positions, S # {}
  PROVE  Max(S) \in S /\ \A s \in S : s <= Max(S)
  <1> DEFINE T == {b \in Nat : \A s \in S : s <= b}
  <1>1. \A s \in S : s \in Nat /\ s <= Resolution - 1
    BY ResolutionAssumption DEF Positions
  <1>2. Resolution - 1 \in T
    BY <1>1, ResolutionAssumption
  <1>3. PICK b \in T : \A c \in T : ~(c < b)
    <2>1. T \in SUBSET Nat /\ T # {}
      BY <1>2
    <2> HIDE DEF T
    <2> QED BY <2>1, Least
  <1>4. b \in S
    <2> SUFFICES ASSUME b \notin S PROVE FALSE
      OBVIOUS
    <2>1. b \in Nat /\ \A s \in S : s <= b
      BY <1>3
    <2>2. \A s \in S : s <= b - 1 /\ b - 1 \in Nat
      BY <1>1, <2>1
    <2>3. b - 1 \in T /\ b - 1 < b
      BY <2>1, <2>2
    <2> HIDE DEF T
    <2> QED BY <1>3, <2>3
  <1>5. \E x \in S : \A y \in S : x >= y
    BY <1>1, <1>3, <1>4
  <1>6. Max(S) \in S /\ \A y \in S : Max(S) >= y
    BY <1>5 DEF Max
  <1> QED BY <1>1, <1>6

\* What grows from each column to the next grows from any to any later one.
LEMMA GrowsAlongRow ==
  ASSUME NEW f \in [Positions -> Int],
         \A c \in Positions \ {0} : f[c - 1] <= f[c],
         NEW a \in Positions, NEW b \in Positions, a <= b
  PROVE  f[a] <= f[b]
  <1> DEFINE T == {c \in Positions : a <= c /\ ~(f[a] <= f[c])}
  <1> SUFFICES ASSUME T # {} PROVE FALSE
    OBVIOUS
  <1>1. Positions \subseteq Nat
    BY ResolutionAssumption DEF Positions
  <1>2. PICK c \in T : \A d \in T : ~(d < c)
    <2>1. T \in SUBSET Nat
      BY <1>1
    <2> HIDE DEF T
    <2> QED BY <2>1, Least
  <1>3. c \in Positions /\ a <= c /\ ~(f[a] <= f[c])
    BY <1>2
  <1>4. a \in Nat /\ c \in Nat /\ c # a
    BY <1>1, <1>3
  <1>5. c - 1 \in Positions /\ a <= c - 1 /\ c - 1 < c /\ c # 0
    BY <1>3, <1>4, ResolutionAssumption DEF Positions
  <1>6. f[a] <= f[c - 1]
    <2>1. c - 1 \notin T
      <3> HIDE DEF T
      <3> QED BY <1>2, <1>5
    <2> QED BY <1>5, <2>1
  <1>7. f[c - 1] <= f[c]
    BY <1>3, <1>5
  <1>8. f[a] \in Int /\ f[c] \in Int /\ f[c - 1] \in Int
    BY <1>3, <1>5
  <1> QED BY <1>3, <1>6, <1>7, <1>8
-----------------------------------------------------------------------------
(* What a decision is computed from *)

Knots == [x : Nat, y : Nat]

\* What the pod has measured and what the ConfigMap holds are numbers, at
\* lengths the surfaces know.
ProfileTyped ==
  /\ prefill_isl \in Seq(PromptLengths)
  /\ \/ configmap = Absent
     \/ /\ configmap.prefill_isl \in Seq(PromptLengths)
        /\ configmap.points \in Seq(Knots)
        /\ configmap.max_kv_tokens \in Nat \ {0}

\* A planner that runs has interpolators of two lengths or more and a context.
InterpolatorsTyped ==
  pc # "down" =>
    /\ interpolators.min_isl \in PromptLengths /\ interpolators.max_isl \in PromptLengths
    /\ interpolators.min_isl < interpolators.max_isl
    /\ interpolators.max_context \in Nat \ {0} /\ interpolators.max_kv_tokens \in Nat \ {0}
    /\ interpolators.surface \in Surfaces

FactorTyped(factor) == factor.num \in Nat /\ factor.den \in Nat \ {0}

MeasuresTyped ==
  /\ pc \in {"down", "idle", "adjust"}
  /\ load_predictor \in LoadPredictors
  /\ last_metrics \in [Queries -> Nat] /\ last_metrics.isl \in PromptLengths
  /\ FactorTyped(p_correction_factor) /\ FactorTyped(d_correction_factor)
  /\ intervals \in Nat /\ Len(observed) <= intervals

\* A plan is the clamped and fitted pair of two demands, and the numbers that
\* led to them are at hand as long as the plan is.
ComputedFrom(d) ==
  LET p_cap == PrefillCap(d.load)
      d_cap == DecodeCap(d.row, CorrectedItl(d.d))
      p == PrefillDemand(d.load, d.p)
      k == DecodeDemand(d.load)
  IN  /\ d.load.num_req \in Int /\ d.load.osl \in Int /\ d.load.isl \in PromptLengths
      /\ d.row \in Positions
      /\ FactorTyped(d.p) /\ FactorTyped(d.d)
      /\ p_cap \in Int \ {0} /\ d_cap \in Int \ {0}
      /\ \E n \in Ceilings(p.num, p.den * p_cap), m \in Ceilings(k.num, k.den * d_cap) :
           d.plan \in Plans(Config, [prefill |-> n, decode |-> m])

Computed == decision.made => pc = "idle" /\ ComputedFrom(decision)

Sized == ProfileTyped /\ InterpolatorsTyped /\ MeasuresTyped /\ Computed

-----------------------------------------------------------------------------
(* Reading the interpolators *)

\* Surfaces are read at lengths and positions they know.
LEMMA SurfaceTyped ==
  ASSUME NEW surface \in Surfaces
  PROVE  /\ \A isl \in PromptLengths : surface.ttft[isl] \in Int /\ surface.prefill_thpt[isl] \in Int
         /\ \A row, col \in Positions : surface.itl[row, col] \in Int /\ surface.thpt[row, col] \in Int
  <1>1. /\ surface.ttft \in [PromptLengths -> Int] /\ surface.prefill_thpt \in [PromptLengths -> Int]
        /\ surface.itl \in [Positions \X Positions -> Int]
        /\ surface.thpt \in [Positions \X Positions -> Int]
    BY SurfaceAssumption
  <1> QED BY <1>1

\* The prefill interpolator answers with a number at every such length.
LEMMA PrefillRead ==
  ASSUME InterpolatorsTyped, pc # "down", NEW isl \in PromptLengths
  PROVE  Ttft(interpolators, isl) \in Int /\ PrefillThpt(interpolators, isl) \in Int
  <1>1. WithinProfile(interpolators, isl) \in PromptLengths
    BY DEF InterpolatorsTyped, WithinProfile, AtLeast, AtMost
  <1>2. interpolators.surface \in Surfaces
    BY DEF InterpolatorsTyped
  <1> QED BY <1>1, <1>2, SurfaceTyped DEF Ttft, PrefillThpt

\* The column read is the right-most that meets the target, if one does.
LEMMA BestColumnFound ==
  ASSUME InterpolatorsTyped, pc # "down", NEW row \in Positions, NEW itl
  PROVE  LET best == BestColumn(interpolators, row, itl) IN
         /\ best \in Positions
         /\ Meeting(interpolators, row, itl) # {} => best \in Meeting(interpolators, row, itl)
         /\ \A col \in Meeting(interpolators, row, itl) : col <= best
  <1> DEFINE M == Meeting(interpolators, row, itl)
  <1>1. M \in SUBSET Positions
    BY DEF Meeting
  <1>2. 0 \in Positions
    BY ResolutionAssumption DEF Positions
  <1>3. CASE M = {}
    <2>1. BestColumn(interpolators, row, itl) = 0
      BY <1>3 DEF BestColumn
    <2> HIDE DEF M
    <2> QED BY <1>2, <1>3, <2>1 DEF M
  <1>4. CASE M # {}
    <2>1. BestColumn(interpolators, row, itl) = Max(M)
      BY <1>4 DEF BestColumn
    <2>2. Max(M) \in M /\ \A s \in M : s <= Max(M)
      <3> HIDE DEF M
      <3> QED BY <1>1, <1>4, GreatestColumn
    <2> HIDE DEF M
    <2> QED BY <1>1, <1>4, <2>1, <2>2 DEF M
  <1> QED BY <1>3, <1>4

\* What Python's ceiling of a quotient promises.
LEMMA RoundedUp ==
  ASSUME NEW num \in Int, NEW den \in Int \ {0}, NEW n \in Ceilings(num, den)
  PROVE  /\ n \in Int
         /\ den > 0 => n * den >= num /\ (n - 1) * den <= num
  <1> DEFINE up == IF den < 0 THEN -(num \div (-den)) ELSE -((-num) \div den)
  <1>1. n = up \/ (n = up + 1 /\ up * den = num)
    BY DEF Ceilings
  <1>2. CASE den < 0
    <2>1. num \div (-den) \in Int
      BY <1>2
    <2>2. up \in Int
      BY <1>2, <2>1
    <2> HIDE DEF up
    <2> QED BY <1>1, <1>2, <2>2
  <1>3. CASE den > 0
    <2> DEFINE q == (-num) \div den
    <2>1. q \in Int /\ q * den <= -num /\ -num < (q + 1) * den
      <3>1. -num \in Int /\ den \in Nat \ {0}
        BY <1>3
      <3> QED BY <3>1
    <2>2. up = -q
      BY <1>3
    <2> HIDE DEF q, up
    <2>3. up \in Int /\ up * den = -(q * den) /\ (q + 1) * den = q * den + den /\ q * den \in Int
      BY <1>3, <2>1, <2>2
    <2>4. up * den \in Int /\ up * den >= num /\ up * den - den < num
      BY <1>3, <2>1, <2>3
    <2>5. CASE n = up
      <3>1. (n - 1) * den = up * den - den
        BY <1>3, <2>3, <2>5
      <3> QED BY <1>3, <2>3, <2>4, <2>5, <3>1
    <2>6. CASE n = up + 1 /\ up * den = num
      <3>1. (n - 1) * den = num /\ n * den = num + den
        BY <1>3, <2>3, <2>6
      <3> QED BY <1>3, <2>3, <2>6, <3>1
    <2> QED BY <1>1, <2>5, <2>6
  <1> QED BY <1>2, <1>3

\* A profile that loads gives the interpolators two lengths or more and a
\* context that is not 0.
LEMMA LoadedProfile ==
  ASSUME ProfileTyped, configmap # Absent, ~Fails(configmap), NEW surface \in Surfaces
  PROVE  LET ip == Interpolators(configmap, surface) IN
         /\ ip.min_isl \in PromptLengths /\ ip.max_isl \in PromptLengths
         /\ ip.min_isl < ip.max_isl
         /\ ip.max_context \in Nat \ {0} /\ ip.max_kv_tokens \in Nat \ {0}
         /\ ip.surface = surface
  <1> DEFINE s == configmap.prefill_isl
             p == configmap.points
             S == ToSet(s)
             Y == {q.y : q \in ToSet(p)}
  <1>1. /\ s \in Seq(PromptLengths) /\ p \in Seq(Knots) /\ configmap.max_kv_tokens \in Nat \ {0}
        /\ Len(s) >= 4 /\ IsInjective(s)
        /\ \E k, j \in DOMAIN p : p[k].y # p[j].y
    BY DEF ProfileTyped, Fails, PrefillFits, DecodeFails
  <1>2. /\ s \in [1..Len(s) -> Int] /\ Len(s) \in Nat \ {0} /\ S = {s[j] : j \in 1..Len(s)}
        /\ S \subseteq PromptLengths
    <2>1. PromptLengths \subseteq Int
      BY SurfaceAssumption
    <2> HIDE DEF s
    <2>2. s \in Seq(Int) /\ Len(s) \in Nat \ {0}
      <3>1. Len(s) \in Nat \ {0} /\ s \in [1..Len(s) -> PromptLengths]
        BY <1>1
      <3>2. s \in [1..Len(s) -> Int]
        BY <2>1, <3>1
      <3> QED BY <3>1, <3>2
    <2>3. S = {s[j] : j \in 1..Len(s)}
      BY <2>2 DEF ToSet
    <2> QED BY <1>1, <2>2, <2>3
  <1>3. /\ Max(S) \in S /\ \A l \in S : l <= Max(S)
        /\ Min(S) \in S /\ \A l \in S : Min(S) <= l
    <2> HIDE DEF S, s
    <2> QED BY <1>2, Extremes
  <1>4. Min(S) < Max(S)
    <2>1. s[1] \in S /\ s[2] \in S /\ s[1] # s[2]
      <3> HIDE DEF S, s
      <3>1. 1 \in 1..Len(s) /\ 2 \in 1..Len(s) /\ DOMAIN s = 1..Len(s)
        BY <1>1, <1>2
      <3> QED BY <1>1, <1>2, <3>1 DEF IsInjective
    <2>2. S \subseteq Int
      BY <1>2, SurfaceAssumption
    <2> DEFINE least == Min(S)
               most == Max(S)
               a == s[1]
               b == s[2]
    <2>3. /\ least \in Int /\ most \in Int /\ a \in Int /\ b \in Int /\ a # b
          /\ least <= a /\ least <= b /\ a <= most /\ b <= most
      <3> HIDE DEF S, s
      <3> QED BY <1>3, <2>1, <2>2
    <2> HIDE DEF least, most, a, b
    <2>4. least < most
      BY <2>3
    <2> QED BY <2>4 DEF least, most
  <1>5. Max(Y) \in Nat \ {0}
    <2> DEFINE f == [j \in 1..Len(p) |-> p[j].y]
    <2>1. \A j \in 1..Len(p) : p[j] \in Knots
      <3> HIDE DEF p
      <3> QED BY <1>1
    <2>2. f \in [1..Len(p) -> Nat] /\ Y = {f[j] : j \in 1..Len(p)}
      <3>1. \A j \in 1..Len(p) : p[j].y \in Nat
        BY <2>1 DEF Knots
      <3>2. DOMAIN p = 1..Len(p)
        BY <1>1
      <3> HIDE DEF p
      <3> QED BY <3>1, <3>2 DEF ToSet
    <2>3. PICK k, j \in 1..Len(p) : f[k] # f[j]
      <3>1. DOMAIN p = 1..Len(p)
        BY <1>1
      <3> QED BY <1>1, <3>1
    <2>4. Len(p) \in Nat \ {0}
      <3>1. Len(p) \in Nat
        BY <1>1
      <3> HIDE DEF p
      <3> QED BY <2>3, <3>1
    <2>5. Max(Y) \in Y /\ \A y \in Y : y <= Max(Y)
      <3>1. f \in [1..Len(p) -> Int]
        <4> HIDE DEF f
        <4> QED BY <2>2
      <3> HIDE DEF f, Y
      <3> QED BY <2>2, <2>4, <3>1, Extremes
    <2>6. f[k] \in Y /\ f[j] \in Y /\ Y \subseteq Nat
      <3> HIDE DEF f, Y, p
      <3> QED BY <2>2, <2>3
    <2> DEFINE most == Max(Y)
               a == f[k]
               b == f[j]
    <2>7. /\ most \in Nat /\ a \in Nat /\ b \in Nat /\ a # b
          /\ a <= most /\ b <= most
      <3> HIDE DEF f, Y, p
      <3> QED BY <2>3, <2>5, <2>6
    <2> HIDE DEF most, a, b
    <2>8. most \in Nat \ {0}
      BY <2>7
    <2> QED BY <2>8 DEF most
  <1>6. Interpolators(configmap, surface) =
          [min_isl |-> Min(S), max_isl |-> Max(S), max_context |-> Max(Y),
           max_kv_tokens |-> configmap.max_kv_tokens, surface |-> surface]
    BY DEF Interpolators
  <1> HIDE DEF S, Y, s, p
  <1> QED
    BY <1>1, <1>2, <1>3, <1>4, <1>5, <1>6

-----------------------------------------------------------------------------
(* What keeps the numbers typed *)

LEMMA PrefillSettings ==
  ASSUME args \in Settings
  PROVE  args.prefill_isl_points \in Seq(PromptLengths) /\ args.max_kv_tokens \in Nat \ {0}
  <1> DEFINE s == args.prefill_isl_points
  <1>1. s \in Seq(Nat \ {0}) /\ args.max_kv_tokens \in Nat \ {0}
    BY ProfilerAssumption
  <1>2. ToSet(s) \subseteq PromptLengths
    BY SurfaceAssumption
  <1>3. s \in Seq(PromptLengths)
    <2> HIDE DEF s
    <2>1. \A j \in 1..Len(s) : s[j] \in PromptLengths
      BY <1>1, <1>2 DEF ToSet
    <2> QED BY <1>1, <2>1
  <1> QED BY <1>1, <1>3

LEMMA UserProfileTyped ==
  ASSUME NEW profile \in UserProfiles
  PROVE  /\ profile.prefill_isl \in Seq(PromptLengths) /\ profile.points \in Seq(Knots)
         /\ profile.max_kv_tokens \in Nat \ {0}
  <1> DEFINE s == profile.prefill_isl
  <1>1. s \in Seq(Nat) /\ profile.points \in Seq(Knots) /\ profile.max_kv_tokens \in Nat \ {0}
    BY ProfilerAssumption DEF Knots
  <1>2. ToSet(s) \subseteq PromptLengths
    BY SurfaceAssumption
  <1>3. s \in Seq(PromptLengths)
    <2> HIDE DEF s
    <2>1. \A j \in 1..Len(s) : s[j] \in PromptLengths
      BY <1>1, <1>2 DEF ToSet
    <2> QED BY <1>1, <2>1
  <1> QED BY <1>1, <1>3

\* The ConfigMap through every step of the Job and of its users.
LEMMA ProfileTypedStep ==
  ASSUME GridInv, ProfileTyped, [Next]_vars
  PROVE  ProfileTyped'
  <1>1. CASE prefill_isl' = prefill_isl /\ configmap' = configmap
    BY <1>1 DEF ProfileTyped, Knots, Absent
  <1>2. ASSUME prefill_isl' = <<>>, configmap' = configmap PROVE ProfileTyped'
    <2>1. prefill_isl' \in Seq(PromptLengths)
      BY <1>2
    <2> QED BY <1>2, <2>1 DEF ProfileTyped, Knots, Absent
  <1>3. CASE ProfilePrefill
    <2> DEFINE isl == args.prefill_isl_points[at]
    <2>1. /\ configmap' = configmap /\ at <= Len(args.prefill_isl_points)
          /\ prefill_isl' = prefill_isl \/ prefill_isl' = Append(prefill_isl, isl)
      BY <1>3 DEF ProfilePrefill
    <2>2. isl \in PromptLengths
      <3>1. args.prefill_isl_points \in Seq(PromptLengths) /\ at \in Nat \ {0}
        BY PrefillSettings DEF GridInv
      <3> QED BY <2>1, <3>1
    <2>3. prefill_isl' \in Seq(PromptLengths)
      <3>1. prefill_isl \in Seq(PromptLengths)
        BY DEF ProfileTyped
      <3> HIDE DEF isl
      <3> QED BY <2>1, <2>2, <3>1
    <2> QED BY <2>1, <2>3 DEF ProfileTyped, Knots, Absent
  <1>4. ASSUME Store PROVE ProfileTyped'
    <2>1. /\ configmap'.prefill_isl = prefill_isl /\ configmap'.points = points
          /\ configmap'.max_kv_tokens = args.max_kv_tokens /\ prefill_isl' = <<>>
      BY <1>4 DEF Store, EndPod, Measured
    <2>2. prefill_isl \in Seq(PromptLengths) /\ args.max_kv_tokens \in Nat \ {0}
      BY PrefillSettings DEF ProfileTyped, GridInv
    <2>3. points \in Seq(Knots)
      <3>1. GridPoints \subseteq Knots
        <4>1. args.max_kv_tokens \in Nat
          BY <2>2
        <4> QED BY <4>1 DEF GridPoints, Knots
      <3>2. points \in Seq(GridPoints)
        BY DEF GridInv
      <3> HIDE DEF GridPoints
      <3>3. Len(points) \in Nat /\ points \in [1..Len(points) -> GridPoints]
        BY <3>2
      <3>4. points \in [1..Len(points) -> Knots]
        BY <3>1, <3>3
      <3> QED BY <3>3, <3>4
    <2>4. prefill_isl' \in Seq(PromptLengths)
      BY <2>1
    <2> QED BY <2>1, <2>2, <2>3, <2>4 DEF ProfileTyped, Knots
  <1>5. CASE DivideByZero \/ CreateRefused \/ KillPod
    <2>1. FailPod /\ configmap' = configmap
      BY <1>5 DEF DivideByZero, CreateRefused, KillPod
    <2> QED BY <2>1, <1>2 DEF FailPod, EndPod
  <1>6. CASE ReplaceConfigMap \/ CreateConfigMap
    <2>1. Store \/ (Goto("create") /\ configmap' = configmap)
      BY <1>6 DEF ReplaceConfigMap, CreateConfigMap
    <2> QED BY <2>1, <1>1, <1>4 DEF Goto
  <1>7. CASE SupplyConfigMap \/ DeleteConfigMap
    <2>1. prefill_isl' = prefill_isl /\ (configmap' \in UserProfiles \/ configmap' = Absent)
      BY <1>7 DEF SupplyConfigMap, DeleteConfigMap, sweep
    <2>2. CASE configmap' = Absent
      BY <2>1, <2>2 DEF ProfileTyped, Absent
    <2>3. CASE configmap' \in UserProfiles
      <3>1. /\ configmap'.prefill_isl \in Seq(PromptLengths) /\ configmap'.points \in Seq(Knots)
            /\ configmap'.max_kv_tokens \in Nat \ {0}
        BY <2>3, UserProfileTyped
      <3> QED BY <2>1, <3>1 DEF ProfileTyped, Knots
    <2> QED BY <2>1, <2>2, <2>3
  <1>8. CASE StartDecode \/ ProfileDecode \/ SkipDecode \/ ReadConfigMap \/ ExitPod
    BY <1>1, <1>8 DEF StartDecode, ProfileDecode, SkipDecode, ReadConfigMap, ExitPod, Goto
  <1>9. CASE Load \/ KillPlanner \/ ObserveAll \/ ObserveOutage \/ Adjust \/ SkipAdjust \/ UNCHANGED vars
    BY <1>1, <1>9 DEF Load, KillPlanner, ObserveAll, ObserveOutage, Observe, Adjust, SkipAdjust,
                      vars, profilerVars, sweep
  <1> QED
    BY <1>3, <1>5, <1>6, <1>7, <1>8, <1>9 DEF Next, ProfilerNext, ProfilerStep

\* The interpolators are those of the profile loaded, until the process ends.
LEMMA InterpolatorsStep ==
  ASSUME ProfileTyped, InterpolatorsTyped, [Next]_vars
  PROVE  InterpolatorsTyped'
  <1>1. CASE Load
    <2>1. PICK surface \in Surfaces : interpolators' = Interpolators(configmap, surface)
      BY <1>1 DEF Load
    <2>2. configmap # Absent /\ ~Fails(configmap)
      BY <1>1 DEF Load
    <2> QED BY <2>1, <2>2, LoadedProfile DEF InterpolatorsTyped
  <1>2. CASE KillPlanner
    BY <1>2 DEF KillPlanner, InterpolatorsTyped
  <1>3. CASE interpolators' = interpolators /\ (pc' # "down" => pc # "down")
    BY <1>3 DEF InterpolatorsTyped
  <1>4. CASE ObserveAll \/ ObserveOutage \/ Adjust \/ SkipAdjust \/ UNCHANGED planner
    BY <1>3, <1>4 DEF ObserveAll, ObserveOutage, Observe, Adjust, SkipAdjust, planner
  <1> QED
    BY <1>1, <1>2, <1>4 DEF Next, vars

\* A factor is what it was, or a measurement over a positive expectation.
LEMMA CorrectionTyped ==
  ASSUME NEW factor, FactorTyped(factor), NEW actual \in Nat, NEW expected \in Int
  PROVE  FactorTyped(Corrected(factor, actual, expected))
  BY DEF FactorTyped, Corrected

LEMMA FactorsCorrected ==
  ASSUME InterpolatorsTyped, MeasuresTyped, pc # "down", NEW workers, UpdateCorrectionFactors(workers)
  PROVE  FactorTyped(p_correction_factor') /\ FactorTyped(d_correction_factor')
  <1>1. /\ FactorTyped(p_correction_factor) /\ FactorTyped(d_correction_factor)
        /\ last_metrics \in [Queries -> Nat] /\ last_metrics.isl \in PromptLengths
    BY DEF MeasuresTyped
  <1>2. CASE UNCHANGED <<p_correction_factor, d_correction_factor>>
    BY <1>1, <1>2 DEF FactorTyped
  <1>3. CASE ~UNCHANGED <<p_correction_factor, d_correction_factor>>
    <2> DEFINE cell(row, col) == interpolators.surface.itl[row, col]
    <2>1. PICK col \in Columns(workers),
               row \in Rows(interpolators, 2 * last_metrics.isl + last_metrics.osl) :
            /\ p_correction_factor' =
                 Corrected(p_correction_factor, last_metrics.ttft, Ttft(interpolators, last_metrics.isl))
            /\ d_correction_factor' =
                 Corrected(d_correction_factor, last_metrics.itl, cell(row, col))
      BY <1>3 DEF UpdateCorrectionFactors
    <2>2. col \in Positions /\ row \in Positions
      BY <2>1 DEF Columns, Rows, GridIndex
    <2>3. cell(row, col) \in Int
      BY <2>2, SurfaceTyped DEF InterpolatorsTyped
    <2>4. Ttft(interpolators, last_metrics.isl) \in Int
      BY <1>1, PrefillRead
    <2>5. last_metrics.ttft \in Nat /\ last_metrics.itl \in Nat
      BY <1>1 DEF Queries
    <2> HIDE DEF cell
    <2> QED BY <1>1, <2>1, <2>3, <2>4, <2>5, CorrectionTyped
  <1> QED BY <1>2, <1>3

\* What was observed, and the factors.
LEMMA MeasuresStep ==
  ASSUME IInv, InterpolatorsTyped, MeasuresTyped, [Next]_vars
  PROVE  MeasuresTyped'
  <1>1. CASE UNCHANGED planner
    BY <1>1 DEF planner, MeasuresTyped, FactorTyped
  <1>2. CASE Load
    BY <1>2 DEF Load, MeasuresTyped, FactorTyped
  <1>3. CASE KillPlanner
    <2>1. /\ pc' = "down" /\ load_predictor' = load_predictor /\ intervals' = intervals
          /\ last_metrics' = NoMetrics /\ observed' = <<>>
          /\ p_correction_factor' = One /\ d_correction_factor' = One
      BY <1>3 DEF KillPlanner, Forget
    <2>2. NoMetrics \in [Queries -> Nat] /\ NoMetrics.isl = 0 /\ Len(<<>>) = 0
      BY DEF NoMetrics, Queries, Fields
    <2>3. FactorTyped(One)
      BY DEF FactorTyped, One
    <2>4. 0 \in PromptLengths
      BY SurfaceAssumption
    <2> QED BY <2>1, <2>2, <2>3, <2>4 DEF MeasuresTyped, FactorTyped
  <1>4. CASE ObserveAll \/ ObserveOutage
    <2>1. PICK load \in Loads, failed \in {{}} \cup Outages : Observe(load, failed)
      BY <1>4 DEF ObserveAll, ObserveOutage
    <2> DEFINE metrics == Reported(load, failed)
               o == [f \in Fields |-> metrics[f]]
    <2>2. load \in [Queries -> Nat] /\ load.isl \in PromptLengths /\ 0 \in PromptLengths
      BY SizingAssumption, SurfaceAssumption
    <2>3. metrics \in [Queries -> Nat] /\ metrics.isl \in PromptLengths
      <3>1. "isl" \in Queries
        BY DEF Queries, Fields
      <3> QED BY <2>2, <3>1 DEF Reported
    <2>4. o \in Observation
      <3>1. Fields \subseteq Queries
        BY DEF Queries
      <3> HIDE DEF metrics
      <3> QED BY <2>3, <3>1 DEF Observation
    <2>5. /\ last_metrics' = metrics /\ observed' = Append(observed, o)
          /\ intervals' = intervals + 1 /\ pc' = "adjust" /\ load_predictor' = load_predictor
          /\ p_correction_factor' = p_correction_factor /\ d_correction_factor' = d_correction_factor
      BY <2>1 DEF Observe
    <2>6. Len(observed') = Len(observed) + 1 /\ Len(observed) \in Nat
      <3>1. observed \in Seq(Observation)
        BY DEF IInv, HistoryTyped
      <3> HIDE DEF o
      <3> QED BY <2>4, <2>5, <3>1, Appended
    <2> HIDE DEF metrics, o
    <2> QED BY <2>3, <2>5, <2>6 DEF MeasuresTyped, FactorTyped
  <1>5. CASE Adjust
    <2>1. PICK workers : UpdateCorrectionFactors(workers)
      BY <1>5 DEF Adjust
    <2>2. FactorTyped(p_correction_factor') /\ FactorTyped(d_correction_factor')
      BY <1>5, <2>1, FactorsCorrected DEF Adjust
    <2>3. /\ pc' = "idle" /\ load_predictor' = load_predictor /\ last_metrics' = last_metrics
          /\ observed' = observed /\ intervals' = intervals
      BY <1>5 DEF Adjust
    <2> QED BY <2>2, <2>3 DEF MeasuresTyped, FactorTyped
  <1>6. CASE SkipAdjust
    BY <1>6 DEF SkipAdjust, MeasuresTyped, FactorTyped
  <1> QED
    BY <1>1, <1>2, <1>3, <1>4, <1>5, <1>6 DEF Next, vars

\* A prediction is a length the surfaces know and two numbers.
LEMMA PredictionTyped ==
  ASSUME IInv, MeasuresTyped, pc = "adjust", NEW load \in Predictions
  PROVE  load.num_req \in Int /\ load.osl \in Int /\ load.isl \in PromptLengths
  <1>1. ASSUME NEW f \in Fields PROVE load[f] \in {last_metrics[f]} \cup Forecasts[f]
    <2>1. load[f] \in PredictNext(load_predictor, data_buffers[f], Forecasts[f])
      BY DEF Predictions
    <2>2. LastValue(data_buffers[f]) = last_metrics[f]
      BY LastObserved
    <2> QED BY <2>1, <2>2 DEF PredictNext
  <1>2. /\ "num_req" \in Fields /\ "isl" \in Fields /\ "osl" \in Fields /\ Fields \subseteq Queries
    BY DEF Fields, Queries
  <1>3. \A f \in Fields : Forecasts[f] \subseteq Int
    BY SizingAssumption
  <1>4. Forecasts["isl"] \subseteq PromptLengths
    BY SurfaceAssumption
  <1>5. last_metrics \in [Queries -> Nat] /\ last_metrics["isl"] \in PromptLengths
    BY DEF MeasuresTyped
  <1> QED BY <1>1, <1>2, <1>3, <1>4, <1>5

\* The throughput of an engine is a number.
LEMMA CapacityTyped ==
  ASSUME InterpolatorsTyped, pc # "down", NEW load, load.isl \in PromptLengths,
         NEW row \in Positions, NEW itl
  PROVE  PrefillCap(load) \in Int /\ DecodeCap(row, itl) \in Int
  <1> DEFINE thpt == interpolators.surface.thpt[row, BestColumn(interpolators, row, itl)]
  <1>1. Config.prefill_engine_num_gpu \in Int /\ Config.decode_engine_num_gpu \in Int
    BY SizingAssumption DEF PlannerConfigs
  <1>2. PrefillThpt(interpolators, load.isl) \in Int
    BY PrefillRead
  <1>3. thpt \in Int
    <2>1. BestColumn(interpolators, row, itl) \in Positions
      BY BestColumnFound
    <2> QED BY <2>1, SurfaceTyped DEF InterpolatorsTyped
  <1>4. DecodeCap(row, itl) = thpt * Config.decode_engine_num_gpu
    BY DEF DecodeCap
  <1> HIDE DEF thpt
  <1> QED BY <1>1, <1>2, <1>3, <1>4 DEF PrefillCap

\* A decision stays computed from the same numbers while the interpolators stay.
LEMMA ComputedStays ==
  ASSUME interpolators' = interpolators, NEW d
  PROVE  ComputedFrom(d)' <=> ComputedFrom(d)
  BY DEF ComputedFrom, PrefillCap, DecodeCap

\* One decision.
LEMMA AdjustComputes ==
  ASSUME IInv, InterpolatorsTyped, MeasuresTyped, Adjust
  PROVE  decision'.made => pc' = "idle" /\ ComputedFrom(decision')
  <1> DEFINE p == p_correction_factor'
             d == d_correction_factor'
  <1>1. pc = "adjust" /\ pc' = "idle"
    BY DEF Adjust
  <1>2. FactorTyped(p) /\ FactorTyped(d)
    <2>1. PICK workers : UpdateCorrectionFactors(workers)
      BY DEF Adjust
    <2> QED BY <1>1, <2>1, FactorsCorrected
  <1> HIDE DEF p, d
  <1>3. PICK load \in Predictions :
          \E row \in Rows(interpolators, 2 * load.isl + load.osl) :
            IF PrefillCap(load) = 0 \/ DecodeCap(row, CorrectedItl(d)) = 0
            THEN decision' = NoDecision
            ELSE \E n \in Ceilings(PrefillDemand(load, p).num, PrefillDemand(load, p).den * PrefillCap(load)),
                    m \in Ceilings(DecodeDemand(load).num, DecodeDemand(load).den * DecodeCap(row, CorrectedItl(d))) :
                 \E plan \in Plans(Config, [prefill |-> n, decode |-> m]) :
                   decision' = [made |-> TRUE, load |-> load, row |-> row, p |-> p, d |-> d, plan |-> plan]
    BY DEF Adjust, p, d
  <1>4. load.num_req \in Int /\ load.osl \in Int /\ load.isl \in PromptLengths
    BY <1>1, PredictionTyped
  <1>5. CASE decision' = NoDecision
    BY <1>5 DEF NoDecision
  <1>6. CASE decision' # NoDecision
    <2>1. PICK row \in Rows(interpolators, 2 * load.isl + load.osl) :
            /\ PrefillCap(load) # 0 /\ DecodeCap(row, CorrectedItl(d)) # 0
            /\ \E n \in Ceilings(PrefillDemand(load, p).num, PrefillDemand(load, p).den * PrefillCap(load)),
                  m \in Ceilings(DecodeDemand(load).num, DecodeDemand(load).den * DecodeCap(row, CorrectedItl(d))) :
               \E plan \in Plans(Config, [prefill |-> n, decode |-> m]) :
                 decision' = [made |-> TRUE, load |-> load, row |-> row, p |-> p, d |-> d, plan |-> plan]
      BY <1>3, <1>6
    <2>2. row \in Positions
      BY <2>1 DEF Rows, GridIndex
    <2>3. PrefillCap(load) \in Int \ {0} /\ DecodeCap(row, CorrectedItl(d)) \in Int \ {0}
      BY <1>1, <1>4, <2>1, <2>2, CapacityTyped
    <2>4. PICK n \in Ceilings(PrefillDemand(load, p).num, PrefillDemand(load, p).den * PrefillCap(load)),
               m \in Ceilings(DecodeDemand(load).num, DecodeDemand(load).den * DecodeCap(row, CorrectedItl(d))) :
            \E plan \in Plans(Config, [prefill |-> n, decode |-> m]) :
              decision' = [made |-> TRUE, load |-> load, row |-> row, p |-> p, d |-> d, plan |-> plan]
      BY <2>1
    <2>5. PICK plan \in Plans(Config, [prefill |-> n, decode |-> m]) :
            decision' = [made |-> TRUE, load |-> load, row |-> row, p |-> p, d |-> d, plan |-> plan]
      BY <2>4
    <2>6. /\ decision'.load = load /\ decision'.row = row /\ decision'.plan = plan
          /\ decision'.p = p /\ decision'.d = d
      BY <2>5
    <2>7. ComputedFrom(decision')
      BY <1>2, <1>4, <2>2, <2>3, <2>4, <2>5, <2>6 DEF ComputedFrom
    <2> QED BY <1>1, <2>7
  <1> QED BY <1>5, <1>6

\* The numbers behind a plan through every step.
LEMMA ComputedStep ==
  ASSUME IInv, InterpolatorsTyped, MeasuresTyped, Computed, [Next]_vars
  PROVE  Computed'
  <1>1. CASE UNCHANGED planner
    <2>1. interpolators' = interpolators /\ decision' = decision /\ pc' = pc
      BY <1>1 DEF planner
    <2> QED BY <2>1, ComputedStays DEF Computed
  <1>2. CASE Load
    <2>1. pc = "down" /\ decision' = decision
      BY <1>2 DEF Load
    <2> QED BY <2>1 DEF Computed
  <1>3. CASE KillPlanner \/ ObserveAll \/ ObserveOutage \/ SkipAdjust
    <2>1. decision' = NoDecision
      BY <1>3 DEF KillPlanner, Forget, ObserveAll, ObserveOutage, Observe, SkipAdjust
    <2> QED BY <2>1 DEF Computed, NoDecision
  <1>4. CASE Adjust
    <2>1. interpolators' = interpolators
      BY <1>4 DEF Adjust
    <2> QED BY <1>4, <2>1, AdjustComputes, ComputedStays DEF Computed
  <1> QED BY <1>1, <1>2, <1>3, <1>4 DEF Next, vars

\* Sized holds in every state, on top of the invariants of the sweep and of the
\* histories.
LEMMA SizedInvariant == Spec => [](IInv /\ Sized)
  <1>1. Init => GridInv /\ IInv /\ Sized
    <2> SUFFICES ASSUME Init PROVE GridInv /\ IInv /\ Sized
      OBVIOUS
    <2>1. GridInv
      BY DEF Init, ProfilerInit, GridInv, InSweep, GridPoints
    <2>2. IInv
      <3>1. window_size \in Nat
        BY SizingAssumption DEF Init
      <3> QED BY <3>1, Forgotten DEF Init
    <2>3. ProfileTyped
      <3>1. prefill_isl = <<>> /\ (configmap = Absent \/ configmap \in UserProfiles)
        BY DEF Init, ProfilerInit
      <3>2. prefill_isl \in Seq(PromptLengths)
        BY <3>1
      <3> QED BY <3>1, <3>2, UserProfileTyped DEF ProfileTyped
    <2>4. InterpolatorsTyped /\ Computed
      BY DEF Init, InterpolatorsTyped, Computed, NoDecision
    <2>5. MeasuresTyped
      <3>1. /\ pc = "down" /\ load_predictor \in LoadPredictors /\ intervals = 0
            /\ last_metrics = NoMetrics /\ observed = <<>>
            /\ p_correction_factor = One /\ d_correction_factor = One
        BY SizingAssumption DEF Init
      <3>2. NoMetrics \in [Queries -> Nat] /\ NoMetrics.isl = 0 /\ Len(<<>>) = 0
        BY DEF NoMetrics, Queries, Fields
      <3>3. FactorTyped(One)
        BY DEF FactorTyped, One
      <3>4. 0 \in PromptLengths
        BY SurfaceAssumption
      <3> QED BY <3>1, <3>2, <3>3, <3>4 DEF MeasuresTyped
    <2> QED BY <2>1, <2>2, <2>3, <2>4, <2>5 DEF Sized
  <1>2. GridInv /\ IInv /\ Sized /\ [Next]_vars => (GridInv /\ IInv /\ Sized)'
    <2> SUFFICES ASSUME GridInv, IInv, Sized, [Next]_vars PROVE (GridInv /\ IInv /\ Sized)'
      OBVIOUS
    <2>1. ProfileTyped /\ InterpolatorsTyped /\ MeasuresTyped /\ Computed
      BY DEF Sized
    <2> QED
      BY <2>1, GridStep, HistoryStep, ProfileTypedStep, InterpolatorsStep, MeasuresStep, ComputedStep
         DEF Sized
  <1> QED
    BY <1>1, <1>2, PTL DEF Spec

-----------------------------------------------------------------------------
(* What follows for a decision *)

\* The two demands a decision came from.
LEMMA DemandsOf ==
  ASSUME Sized, decision.made
  PROVE  LET load == decision.load
             p == PrefillDemand(load, decision.p)
             k == DecodeDemand(load)
             p_den == p.den * PrefillCap(load)
             k_den == k.den * DecodeCap(decision.row, CorrectedItl(decision.d))
         IN  /\ p.num \in Int /\ k.num \in Int
             /\ p_den \in Int \ {0} /\ k_den \in Int \ {0}
             /\ \E n \in Ceilings(p.num, p_den), m \in Ceilings(k.num, k_den) :
                  /\ n \in Int /\ m \in Int
                  /\ decision.plan \in Plans(Config, [prefill |-> n, decode |-> m])
  <1> DEFINE load == decision.load
             p_cap == PrefillCap(load)
             k_cap == DecodeCap(decision.row, CorrectedItl(decision.d))
             p == PrefillDemand(load, decision.p)
             k == DecodeDemand(load)
  <1>1. ComputedFrom(decision)
    BY DEF Sized, Computed
  <1>2. /\ load.num_req \in Int /\ load.osl \in Int /\ load.isl \in PromptLengths
        /\ FactorTyped(decision.p)
        /\ p_cap \in Int \ {0} /\ k_cap \in Int \ {0}
        /\ \E n \in Ceilings(p.num, p.den * p_cap), m \in Ceilings(k.num, k.den * k_cap) :
             decision.plan \in Plans(Config, [prefill |-> n, decode |-> m])
    BY <1>1 DEF ComputedFrom
  <1>3. Interval \in Nat \ {0} /\ load.isl \in Int
    BY <1>2, SizingAssumption, SurfaceAssumption
  <1>4. p.num \in Int /\ k.num \in Int /\ p.den \in Nat \ {0} /\ k.den \in Nat \ {0}
    <2>1. load.num_req * load.isl \in Int /\ load.num_req * load.osl \in Int
      BY <1>2, <1>3
    <2>2. decision.p.num \in Int /\ Interval * decision.p.den \in Nat \ {0}
      BY <1>2, <1>3 DEF FactorTyped
    <2> QED BY <1>3, <2>1, <2>2 DEF PrefillDemand, DecodeDemand
  <1> HIDE DEF load, p_cap, k_cap, p, k
  <1>5. p.den * p_cap \in Int \ {0} /\ k.den * k_cap \in Int \ {0}
    BY <1>2, <1>4
  <1>6. PICK n \in Ceilings(p.num, p.den * p_cap), m \in Ceilings(k.num, k.den * k_cap) :
          decision.plan \in Plans(Config, [prefill |-> n, decode |-> m])
    BY <1>2
  <1>7. n \in Int /\ m \in Int
    BY <1>4, <1>5, RoundedUp
  <1> QED
    BY <1>4, <1>5, <1>6, <1>7 DEF load, p_cap, k_cap, p, k

\* Types, and the windows, of everything the planner computes with.
THEOREM SizingIsTyped == Spec => []TypeOK
  <1>1. IInv /\ Sized => TypeOK
    <2> SUFFICES ASSUME IInv, Sized PROVE TypeOK
      OBVIOUS
    <2>1. ASSUME load_predictor # "constant", window_size > 0, NEW f \in Fields
          PROVE  Len(data_buffers[f]) <= window_size
      BY <2>1 DEF IInv, Started, History, HistoryAt
    <2>2. ASSUME decision.made PROVE decision.plan \in [prefill : Nat, decode : Nat]
      <3>1. PICK n \in Int, m \in Int : decision.plan \in Plans(Config, [prefill |-> n, decode |-> m])
        BY <2>2, DemandsOf
      <3>2. [prefill |-> n, decode |-> m] \in IntPair /\ Config \in PlannerConfigs
        BY SizingAssumption DEF IntPair
      <3> QED BY <3>1, <3>2, PlanTyped DEF NatPair
    <2>3. pc # "down" => interpolators.min_isl < interpolators.max_isl /\ interpolators.max_context > 0
      BY DEF Sized, InterpolatorsTyped
    <2> QED
      BY <2>1, <2>2, <2>3 DEF TypeOK, IInv, HistoryTyped, Observation, Sized, MeasuresTyped, FactorTyped
  <1> QED
    BY <1>1, SizedInvariant, PTL

\* Under a slack budget a role gets its demand, clamped: no less than the demand
\* unless that is the maximum, no more unless that is the minimum.
LEMMA SlackGrants ==
  ASSUME SlackBudget(Config), NEW n \in Int, NEW m \in Int,
         NEW plan \in Plans(Config, [prefill |-> n, decode |-> m])
  PROVE  /\ plan.prefill \in Nat /\ plan.decode \in Nat
         /\ plan.prefill = Config.max_prefill_replicas \/ n <= plan.prefill
         /\ plan.decode = Config.max_decode_replicas \/ m <= plan.decode
         /\ plan.decode <= Config.min_replicas \/ plan.decode <= m
  <1>1. [prefill |-> n, decode |-> m] \in IntPair /\ Config \in PlannerConfigs
    BY SizingAssumption DEF IntPair
  <1>2. plan = WithinRole(Config, [prefill |-> n, decode |-> m])
    BY <1>1, SlackNeverBinds
  <1>3. /\ plan.prefill = AtMost(AtLeast(n, Config.min_replicas), Config.max_prefill_replicas)
        /\ plan.decode = AtMost(AtLeast(m, Config.min_replicas), Config.max_decode_replicas)
    BY <1>2 DEF WithinRole
  <1>4. /\ Config.min_replicas \in Nat
        /\ Config.max_prefill_replicas \in Nat /\ Config.max_decode_replicas \in Nat
    BY <1>1 DEF PlannerConfigs
  <1> QED BY <1>3, <1>4 DEF AtMost, AtLeast

\* Engines that are at least a demand rounded up carry it.
LEMMA EnoughEngines ==
  ASSUME NEW engines \in Nat, NEW n \in Int, n <= engines,
         NEW num \in Int, NEW span \in Nat \ {0}, NEW cap \in Int \ {0}, cap >= 0,
         n * (span * cap) >= num
  PROVE  engines * (span * cap) >= num
  <1> DEFINE g == span * cap
  <1>1. g \in Nat
    BY DEF g
  <1> HIDE DEF g
  <1>2. n * g <= engines * g
    BY <1>1, ProductMonotone
  <1>3. n * g >= num /\ n * g \in Int /\ engines * g \in Int
    BY <1>1 DEF g
  <1>4. engines * g >= num
    BY <1>2, <1>3
  <1> QED BY <1>4 DEF g

\* The prefill engines of a plan carry the predicted tokens, slowed down by the
\* correction factor, unless the maximum of the role forbids it: for every load
\* and profile whose throughput is not negative.
THEOREM PrefillCapacitySuffices == Spec => []PrefillCarries
  <1>1. Sized => PrefillCarries
    <2> DEFINE load == decision.load
               plan == decision.plan
               cap == PrefillCap(load)
               span == Interval * decision.p.den
               num == load.num_req * load.isl * decision.p.num
    <2> SUFFICES ASSUME Sized, decision.made, SlackBudget(Config),
                        plan.prefill # Config.max_prefill_replicas, ~(cap < 0)
                 PROVE  plan.prefill * cap * Interval * decision.p.den >= num
      BY DEF PrefillCarries
    <2>1. /\ cap \in Int \ {0} /\ Interval \in Nat \ {0} /\ decision.p.den \in Nat \ {0}
      BY SizingAssumption DEF Sized, Computed, ComputedFrom, FactorTyped
    <2>2. PrefillDemand(load, decision.p) = [num |-> num, den |-> span]
      BY DEF PrefillDemand
    <2>3. num \in Int /\ span * cap \in Int \ {0}
      BY <2>2, DemandsOf
    <2>4. PICK n \in Ceilings(num, span * cap), m \in Int :
            n \in Int /\ plan \in Plans(Config, [prefill |-> n, decode |-> m])
      <3> DEFINE p == PrefillDemand(load, decision.p)
                 k == DecodeDemand(load)
                 k_cap == DecodeCap(decision.row, CorrectedItl(decision.d))
      <3>1. PICK n \in Ceilings(p.num, p.den * cap), m \in Ceilings(k.num, k.den * k_cap) :
              /\ n \in Int /\ m \in Int
              /\ plan \in Plans(Config, [prefill |-> n, decode |-> m])
        BY DemandsOf
      <3>2. p.num = num /\ p.den = span
        BY <2>2
      <3>3. n \in Ceilings(num, span * cap)
        <4> HIDE DEF p, num, span, cap
        <4> QED BY <3>1, <3>2
      <3> QED BY <3>1, <3>3
    <2>5. plan.prefill \in Nat /\ n <= plan.prefill
      BY <2>4, SlackGrants
    <2>6. span \in Nat \ {0} /\ span * cap > 0
      <3>1. span \in Nat \ {0}
        BY <2>1
      <3> HIDE DEF span, cap
      <3> QED BY <2>1, <3>1
    <2>7. n * (span * cap) >= num
      <3> DEFINE den == span * cap
      <3>1. den \in Int \ {0} /\ den > 0 /\ n \in Ceilings(num, den)
        BY <2>3, <2>4, <2>6
      <3> HIDE DEF den, num
      <3>2. n * den >= num
        BY <2>3, <3>1, RoundedUp
      <3> QED BY <3>2 DEF den
    <2>8. plan.prefill * (span * cap) >= num
      <3> DEFINE engines == plan.prefill
      <3>1. engines \in Nat /\ n <= engines /\ n \in Int
        BY <2>4, <2>5
      <3> HIDE DEF engines, span, cap, num
      <3>2. engines * (span * cap) >= num
        BY <2>1, <2>3, <2>6, <2>7, <3>1, EnoughEngines
      <3> QED BY <3>2 DEF engines
    <2>9. plan.prefill * cap * Interval * decision.p.den = plan.prefill * (span * cap)
      <3> DEFINE engines == plan.prefill
                 slow == decision.p.den
      <3>1. engines \in Int /\ cap \in Int /\ Interval \in Int /\ slow \in Int
        BY <2>1, <2>5
      <3> HIDE DEF engines, cap, slow
      <3>2. engines * cap * Interval * slow = engines * ((Interval * slow) * cap)
        BY <3>1
      <3> QED BY <3>2 DEF engines, slow
    <2> QED BY <2>8, <2>9
  <1> QED
    BY <1>1, SizedInvariant, PTL

\* The columns that meet the corrected target are those within the SLA.
LEMMA MeetingIsWithinSla ==
  ASSUME Sized, decision.made, NEW col \in Positions
  PROVE  col \in Meeting(interpolators, decision.row, CorrectedItl(decision.d)) <=> WithinSla(col)
  <1> DEFINE itl == interpolators.surface.itl[decision.row, col]
  <1>1. /\ pc # "down" /\ interpolators.surface \in Surfaces /\ decision.row \in Positions
        /\ decision.d.num \in Nat /\ decision.d.den \in Nat \ {0}
    BY DEF Sized, Computed, ComputedFrom, FactorTyped, InterpolatorsTyped
  <1>2. itl \in Int
    BY <1>1, SurfaceTyped
  <1>3. RowItl(decision.row, col) = itl
    BY DEF RowItl
  <1>4. col \in Meeting(interpolators, decision.row, CorrectedItl(decision.d))
          <=> itl * CorrectedItl(decision.d).den <= CorrectedItl(decision.d).num
    BY DEF Meeting
  <1> HIDE DEF itl
  <1>5. CASE decision.d.num = 0
    <2>1. CorrectedItl(decision.d) = [num |-> ItlSla, den |-> 1]
      BY <1>5 DEF CorrectedItl
    <2>2. itl * 1 = itl
      BY <1>2
    <2> QED BY <1>3, <1>4, <1>5, <2>1, <2>2 DEF WithinSla
  <1>6. CASE decision.d.num # 0
    <2>1. CorrectedItl(decision.d) = [num |-> ItlSla * decision.d.den, den |-> decision.d.num]
      BY <1>1, <1>6 DEF CorrectedItl
    <2> QED BY <1>3, <1>4, <1>6, <2>1 DEF WithinSla
  <1> QED BY <1>5, <1>6

\* Between two bounds: the decode engines carry the predicted tokens unless the
\* maximum forbids it, and one fewer would not unless the minimum asks for it.
LEMMA DecodeEngines ==
  ASSUME Sized, decision.made, SlackBudget(Config)
  PROVE  LET cap == DecodeCap(decision.row, CorrectedItl(decision.d))
             num == decision.load.num_req * decision.load.osl
             engines == decision.plan.decode
         IN  /\ cap \in Int \ {0} /\ num \in Int /\ engines \in Nat
             /\ cap >= 0 => \/ engines = Config.max_decode_replicas
                            \/ engines * (Interval * cap) >= num
             /\ cap >= 0 => \/ engines <= Config.min_replicas
                            \/ (engines - 1) * (Interval * cap) <= num
  <1> DEFINE load == decision.load
             plan == decision.plan
             cap == DecodeCap(decision.row, CorrectedItl(decision.d))
             num == load.num_req * load.osl
             p == PrefillDemand(load, decision.p)
             k == DecodeDemand(load)
             engines == plan.decode
             den == Interval * cap
  <1>1. cap \in Int \ {0} /\ Interval \in Nat \ {0}
    BY SizingAssumption DEF Sized, Computed, ComputedFrom
  <1>2. k.num = num /\ k.den = Interval
    BY DEF DecodeDemand
  <1>3. num \in Int
    BY <1>2, DemandsOf
  <1>4. PICK n \in Ceilings(p.num, p.den * PrefillCap(load)), m \in Ceilings(k.num, k.den * cap) :
          /\ n \in Int /\ m \in Int
          /\ plan \in Plans(Config, [prefill |-> n, decode |-> m])
    BY DemandsOf
  <1>5. m \in Ceilings(num, den)
    <2> HIDE DEF k, num, cap
    <2> QED BY <1>2, <1>4
  <1>6. /\ engines \in Nat
        /\ engines = Config.max_decode_replicas \/ m <= engines
        /\ engines <= Config.min_replicas \/ engines <= m
    BY <1>4, SlackGrants
  <1>7. ASSUME cap >= 0
        PROVE  /\ engines = Config.max_decode_replicas \/ engines * (Interval * cap) >= num
               /\ engines <= Config.min_replicas \/ (engines - 1) * (Interval * cap) <= num
    <2>1. den \in Nat \ {0}
      <3> HIDE DEF cap
      <3> QED BY <1>1, <1>7
    <2>2. m * den >= num /\ (m - 1) * den <= num
      <3> HIDE DEF num, den
      <3> QED BY <1>3, <1>5, <2>1, RoundedUp
    <2>3. CASE m <= engines
      <3>1. engines * den >= num
        <4>1. m * den <= engines * den
          <5> HIDE DEF engines, den
          <5> QED BY <1>4, <1>6, <2>1, <2>3, ProductMonotone
        <4>2. m * den \in Int /\ engines * den \in Int
          <5> HIDE DEF engines, den
          <5> QED BY <1>4, <1>6, <2>1
        <4> HIDE DEF engines, den, num
        <4> QED BY <1>3, <2>2, <4>1, <4>2
      <3>2. engines <= m => (engines - 1) * den <= num
        <4>1. engines <= m => engines = m
          <5> HIDE DEF engines
          <5> QED BY <1>4, <1>6, <2>3
        <4> HIDE DEF engines, den, num
        <4> QED BY <2>2, <4>1
      <3> QED BY <1>6, <3>1, <3>2
    <2>4. CASE engines <= m
      <3>1. (engines - 1) * den <= num
        <4>1. engines - 1 \in Int /\ m - 1 \in Int /\ engines - 1 <= m - 1
          <5> HIDE DEF engines
          <5> QED BY <1>4, <1>6, <2>4
        <4>2. (engines - 1) * den <= (m - 1) * den
          <5> HIDE DEF engines, den
          <5> QED BY <2>1, <4>1, ProductMonotone
        <4>3. (m - 1) * den \in Int /\ (engines - 1) * den \in Int
          <5> HIDE DEF engines, den
          <5> QED BY <2>1, <4>1
        <4> HIDE DEF engines, den, num
        <4> QED BY <1>3, <2>2, <4>2, <4>3
      <3>2. m <= engines => engines * den >= num
        <4>1. m <= engines => engines = m
          <5> HIDE DEF engines
          <5> QED BY <1>4, <1>6, <2>4
        <4> HIDE DEF engines, den, num
        <4> QED BY <2>2, <4>1
      <3> QED BY <1>6, <3>1, <3>2
    <2>5. m <= engines \/ engines <= m
      <3> HIDE DEF engines
      <3> QED BY <1>4, <1>6
    <2> QED BY <2>3, <2>4, <2>5
  <1> HIDE DEF cap
  <1> QED BY <1>1, <1>3, <1>6, <1>7 DEF cap

\* The decode engines of a plan carry the predicted tokens at a KV usage whose
\* corrected ITL is within the SLA, if the profile has such a usage at the
\* predicted context and the maximum does not forbid it.
THEOREM DecodeCapacitySuffices == Spec => []DecodeMeetsSla
  <1>1. Sized => DecodeMeetsSla
    <2> DEFINE row == decision.row
               itl == CorrectedItl(decision.d)
               best == BestColumn(interpolators, row, itl)
               engines == decision.plan.decode
               num == decision.load.num_req * decision.load.osl
               thpt == RowThpt(row, best)
    <2> SUFFICES ASSUME Sized, decision.made, SlackBudget(Config),
                        engines # Config.max_decode_replicas,
                        NEW some \in Positions, WithinSla(some)
                 PROVE  \E col \in Positions :
                          /\ WithinSla(col)
                          /\ RowThpt(row, col) < 0 \/ engines * RowThpt(row, col) * Interval >= num
      BY DEF DecodeMeetsSla
    <2>1. pc # "down" /\ row \in Positions /\ InterpolatorsTyped
      BY DEF Sized, Computed, ComputedFrom
    <2>2. best \in Positions /\ WithinSla(best)
      <3>1. some \in Meeting(interpolators, row, itl)
        BY MeetingIsWithinSla
      <3>2. best \in Positions /\ best \in Meeting(interpolators, row, itl)
        BY <2>1, <3>1, BestColumnFound
      <3> QED BY <3>2, MeetingIsWithinSla
    <2>3. thpt = DecodeCap(row, itl)
      BY DEF RowThpt, DecodeCap
    <2>4. /\ thpt \in Int /\ engines \in Nat
          /\ thpt >= 0 => engines * (Interval * thpt) >= num
      <3> HIDE DEF thpt
      <3> QED BY <2>3, DecodeEngines
    <2>5. thpt < 0 \/ engines * thpt * Interval >= num
      <3>1. Interval \in Int
        BY SizingAssumption
      <3> HIDE DEF thpt, engines, num
      <3>2. engines * thpt * Interval = engines * (Interval * thpt)
        BY <2>4, <3>1
      <3> QED BY <2>4, <3>2
    <2> HIDE DEF best
    <2> QED BY <2>2, <2>5
  <1> QED
    BY <1>1, SizedInvariant, PTL

\* Where throughput grows with KV usage and is nowhere negative, one decode
\* engine fewer would not carry more than the predicted tokens at any usage
\* within the SLA: the right-most column is then the best.
THEOREM NoDecodeEngineSpare == Spec => []NoSpareDecode
  <1>1. Sized => NoSpareDecode
    <2> DEFINE row == decision.row
               itl == CorrectedItl(decision.d)
               best == BestColumn(interpolators, row, itl)
               engines == decision.plan.decode
               num == decision.load.num_req * decision.load.osl
               thpt == [c \in Positions |-> RowThpt(row, c)]
    <2> SUFFICES ASSUME Sized, decision.made, SlackBudget(Config),
                        ~(engines <= Config.min_replicas),
                        ~(RowThpt(row, 0) < 0),
                        \A c \in Positions \ {0} : ~(RowThpt(row, c) < RowThpt(row, c - 1)),
                        NEW col \in Positions, WithinSla(col)
                 PROVE  (engines - 1) * RowThpt(row, col) * Interval <= num
      BY DEF NoSpareDecode
    <2>1. pc # "down" /\ row \in Positions /\ InterpolatorsTyped
      BY DEF Sized, Computed, ComputedFrom
    <2>2. thpt \in [Positions -> Int]
      <3> SUFFICES ASSUME NEW c \in Positions PROVE RowThpt(row, c) \in Int
        OBVIOUS
      <3> DEFINE cell == interpolators.surface.thpt[row, c]
      <3>1. cell \in Int
        BY <2>1, SurfaceTyped DEF InterpolatorsTyped
      <3>2. Config.decode_engine_num_gpu \in Int
        BY SizingAssumption DEF PlannerConfigs
      <3>3. RowThpt(row, c) = cell * Config.decode_engine_num_gpu
        BY DEF RowThpt
      <3> HIDE DEF cell
      <3> QED BY <3>1, <3>2, <3>3
    <2>3. 0 \in Positions /\ best \in Positions /\ 0 <= best /\ col <= best
      <3>1. 0 \in Positions /\ Positions \subseteq Nat
        BY ResolutionAssumption DEF Positions
      <3>2. col \in Meeting(interpolators, row, itl)
        BY MeetingIsWithinSla
      <3>3. best \in Positions /\ col <= best
        BY <2>1, <3>2, BestColumnFound
      <3> HIDE DEF best
      <3> QED BY <3>1, <3>3
    <2>4. \A c \in Positions \ {0} : c - 1 \in Positions /\ thpt[c - 1] <= thpt[c]
      <3> SUFFICES ASSUME NEW c \in Positions \ {0} PROVE c - 1 \in Positions /\ thpt[c - 1] <= thpt[c]
        OBVIOUS
      <3>1. c - 1 \in Positions
        BY ResolutionAssumption DEF Positions
      <3>2. thpt[c] = RowThpt(row, c) /\ thpt[c - 1] = RowThpt(row, c - 1)
        BY <3>1
      <3>3. thpt[c] \in Int /\ thpt[c - 1] \in Int
        <4> HIDE DEF thpt
        <4> QED BY <2>2, <3>1
      <3>4. ~(thpt[c] < thpt[c - 1])
        <4> HIDE DEF thpt
        <4> QED BY <3>2
      <3> HIDE DEF thpt
      <3> QED BY <3>1, <3>3, <3>4
    <2>5. thpt[0] <= thpt[best] /\ thpt[col] <= thpt[best]
      <3> HIDE DEF thpt, best
      <3> QED BY <2>2, <2>3, <2>4, GrowsAlongRow
    <2>6. /\ thpt[0] = RowThpt(row, 0) /\ thpt[col] = RowThpt(row, col)
          /\ thpt[best] = DecodeCap(row, itl)
      BY <2>3 DEF RowThpt, DecodeCap
    <2>7. thpt[best] \in Int /\ thpt[col] \in Int /\ thpt[best] >= 0
      <3> HIDE DEF thpt, best
      <3> QED BY <2>2, <2>3, <2>5, <2>6
    <2>8. engines \in Nat \ {0} /\ num \in Int /\ (engines - 1) * (Interval * thpt[best]) <= num
      <3>1. Config.min_replicas \in Nat
        BY SizingAssumption DEF PlannerConfigs
      <3>2. engines \in Nat /\ num \in Int /\ (engines - 1) * (Interval * thpt[best]) <= num
        <4> HIDE DEF thpt
        <4> QED BY <2>6, <2>7, DecodeEngines
      <3> HIDE DEF engines
      <3> QED BY <3>1, <3>2
    <2>9. (engines - 1) * thpt[col] * Interval <= (engines - 1) * (Interval * thpt[best])
      <3> DEFINE a == thpt[col]
                 b == thpt[best]
                 g == (engines - 1) * Interval
      <3>1. Interval \in Nat
        BY SizingAssumption
      <3>2. a \in Int /\ b \in Int /\ a <= b /\ engines \in Nat \ {0}
        BY <2>5, <2>7, <2>8
      <3>3. g \in Nat
        <4> HIDE DEF engines
        <4> QED BY <3>1, <3>2
      <3> HIDE DEF a, b
      <3>4. a * g <= b * g
        <4> HIDE DEF g
        <4> QED BY <3>2, <3>3, ProductMonotone
      <3>5. a * g = (engines - 1) * a * Interval /\ b * g = (engines - 1) * (Interval * b)
        <4> HIDE DEF engines
        <4> QED BY <3>1, <3>2 DEF g
      <3> QED BY <3>4, <3>5 DEF a, b
    <2>10. (engines - 1) * thpt[col] * Interval <= num
      <3> DEFINE a == thpt[col]
                 b == thpt[best]
                 small == (engines - 1) * a * Interval
                 large == (engines - 1) * (Interval * b)
      <3>1. small \in Int /\ large \in Int
        <4>1. a \in Int /\ b \in Int /\ Interval \in Int /\ engines \in Int
          BY <2>7, <2>8, SizingAssumption
        <4> HIDE DEF a, b, engines
        <4> QED BY <4>1
      <3>2. small <= large /\ large <= num /\ num \in Int
        BY <2>8, <2>9
      <3> HIDE DEF small, large, num
      <3>3. small <= num
        BY <3>1, <3>2
      <3> QED BY <3>3 DEF small
    <2> QED BY <2>6, <2>10
  <1> QED
    BY <1>1, SizedInvariant, PTL
=============================================================================
