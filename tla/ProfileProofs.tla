---------------------------- MODULE ProfileProofs ----------------------------
(***************************************************************************)
(* What a profiling Job stores without having lost a benchmark loads into  *)
(* the planner if its settings are adequate: the theorem behind            *)
(* CompleteProfileLoads.                                                   *)
(*                                                                         *)
(* The invariant (Complete) says that what a pod has measured so far       *)
(* covers the sweep up to its position, and that a ConfigMap marked whole  *)
(* covers all of it.  The rest is counting: four lengths, and three decode *)
(* points out of line.                                                     *)
(***************************************************************************)
EXTENDS SizingProofs, FiniteSetTheorems

Lengths == args.prefill_isl_points
Contexts == args.decode_isl_points

\* The prefill lengths before position `upto` that `measured` must hold, and
\* may.
CoversPrefill(measured, upto) ==
  /\ measured \in Seq(Nat)
  /\ \A j \in DOMAIN Lengths :
       j < upto /\ InContext(Lengths[j]) => \E k \in DOMAIN measured : measured[k] = Lengths[j]
  /\ \A k \in DOMAIN measured : \E j \in DOMAIN Lengths : j < upto /\ measured[k] = Lengths[j]
  /\ IsInjective(Lengths) => IsInjective(measured)

\* The n-th benchmark of a context length takes place, and may give a point.
Due(isl, n) == Swept(isl) /\ n < SweepLength(MaxConcurrency(isl))
Gives(isl, n, point) == \E conc \in Concurrencies(MaxConcurrency(isl), n) : point = Point(isl, conc)

\* `measured` holds a point of every benchmark before the n-th of position
\* `upto`.
CoversDecode(measured, upto, next) ==
  \A j \in DOMAIN Contexts, n \in Nat :
    (j < upto \/ (j = upto /\ n < next)) /\ Due(Contexts[j], n)
      => \E k \in DOMAIN measured : Gives(Contexts[j], n, measured[k])

Covers(profile) ==
  /\ CoversPrefill(profile.prefill_isl, Len(Lengths) + 1)
  /\ CoversDecode(profile.points, Len(Contexts) + 1, 0)
  /\ profile.points \in Seq(GridPoints)

\* What the running pod has measured covers the sweeps up to where it is.
Progress ==
  ~dropped =>
    /\ phase = "prefill" => CoversPrefill(prefill_isl, at)
    /\ phase \in {"decode", "replace", "create"} => CoversPrefill(prefill_isl, Len(Lengths) + 1)
    /\ phase = "decode" => CoversDecode(points, at, i)
    /\ phase \in {"replace", "create"} => CoversDecode(points, Len(Contexts) + 1, 0)

Stored == configmap.whole => Covers(configmap)

Complete == GridInv /\ Progress /\ Stored

-----------------------------------------------------------------------------
(* Counting *)

\* A set of natural numbers below a bound is finite.
LEMMA BoundedIsFinite ==
  ASSUME NEW S \in SUBSET Nat, NEW bound \in Nat, \A s \in S : s < bound
  PROVE  IsFiniteSet(S)
  <1>1. \A s \in S : s <= bound
    OBVIOUS
  <1> QED BY <1>1, FS_BoundedSetOfNaturals

\* A sequence that holds every member of a set is at least as long.
LEMMA LongEnough ==
  ASSUME NEW S, IsFiniteSet(S), NEW T, NEW seq \in Seq(T),
         \A s \in S : \E k \in DOMAIN seq : seq[k] = s
  PROVE  Cardinality(S) <= Len(seq)
  <1> DEFINE place == [s \in S |-> CHOOSE k \in DOMAIN seq : seq[k] = s]
  <1>1. Len(seq) \in Nat /\ DOMAIN seq = 1..Len(seq)
    OBVIOUS
  <1>2. IsFiniteSet(1..Len(seq)) /\ Cardinality(1..Len(seq)) = Len(seq)
    <2>1. Cardinality(1..Len(seq)) = IF 1 > Len(seq) THEN 0 ELSE Len(seq) - 1 + 1
      BY <1>1, FS_Interval
    <2> QED BY <1>1, <2>1, FS_Interval
  <1>3. \A s \in S : place[s] \in 1..Len(seq) /\ seq[place[s]] = s
    BY <1>1
  <1>4. place \in [S -> 1..Len(seq)]
    BY <1>3
  <1>5. ~(Cardinality(1..Len(seq)) < Cardinality(S))
    <2> SUFFICES ASSUME Cardinality(1..Len(seq)) < Cardinality(S) PROVE FALSE
      OBVIOUS
    <2>1. PICK x, y \in S : x # y /\ place[x] = place[y]
      <3> HIDE DEF place
      <3> QED BY <1>2, <1>4, FS_PigeonHole
    <2> QED BY <1>3, <2>1
  <1>6. Cardinality(S) \in Nat
    BY FS_CardinalityType
  <1> QED
    BY <1>1, <1>2, <1>5, <1>6

\* A set of two or more has another member.
LEMMA Another ==
  ASSUME NEW S, IsFiniteSet(S), Cardinality(S) >= 2, NEW x \in S
  PROVE  \E y \in S : y # x
  <1> SUFFICES ASSUME S = {x} PROVE FALSE
    OBVIOUS
  <1> QED BY FS_Singleton

-----------------------------------------------------------------------------
(* Points out of line *)

\* Two points at one height and a third at another are not in line.
LEMMA OutOfLine ==
  ASSUME NEW pts \in Seq([x : Int, y : Int]),
         NEW a \in DOMAIN pts, NEW b \in DOMAIN pts, NEW c \in DOMAIN pts,
         pts[a].y = pts[b].y, pts[a].x # pts[b].x, pts[c].y # pts[a].y
  PROVE  ~Flat(pts)
  <1> SUFFICES ASSUME Flat(pts) PROVE FALSE
    OBVIOUS
  <1> DEFINE ax == pts[a].x - pts[1].x
             bx == pts[b].x - pts[1].x
             cx == pts[c].x - pts[1].x
             ay == pts[a].y - pts[1].y
             cy == pts[c].y - pts[1].y
  <1>1. /\ 1 \in DOMAIN pts
        /\ \A k \in DOMAIN pts : pts[k].x \in Int /\ pts[k].y \in Int
    <2>1. DOMAIN pts = 1..Len(pts) /\ Len(pts) \in Nat
      OBVIOUS
    <2>2. \A k \in 1..Len(pts) : pts[k] \in [x : Int, y : Int]
      <3> DEFINE T == [x : Int, y : Int]
      <3>1. pts \in Seq(T)
        OBVIOUS
      <3> HIDE DEF T
      <3>2. \A k \in 1..Len(pts) : pts[k] \in T
        BY <3>1
      <3> QED BY <3>2 DEF T
    <2>3. 1 \in DOMAIN pts
      BY <2>1
    <2> QED BY <2>1, <2>2, <2>3
  <1>2. /\ ax \in Int /\ bx \in Int /\ cx \in Int /\ ay \in Int /\ cy \in Int
        /\ ax # bx /\ ay # cy
    <2>1. /\ pts[1].x \in Int /\ pts[a].x \in Int /\ pts[b].x \in Int /\ pts[c].x \in Int
          /\ pts[1].y \in Int /\ pts[a].y \in Int /\ pts[c].y \in Int
      BY <1>1
    <2>2. \A u, v, w \in Int : u - w \in Int /\ (u # v => u - w # v - w)
      OBVIOUS
    <2> QED BY <2>1, <2>2
  <1>3. ax * ay = bx * ay /\ ax * cy = cx * ay /\ bx * cy = cx * ay
    <2>1. \A j, k \in DOMAIN pts :
            (pts[j].x - pts[1].x) * (pts[k].y - pts[1].y)
              = (pts[k].x - pts[1].x) * (pts[j].y - pts[1].y)
      BY DEF Flat
    <2> QED BY <2>1
  <1> HIDE DEF ax, bx, cx, ay, cy
  <1>4. ay = 0
    <2>1. (ax - bx) * ay = 0
      BY <1>2, <1>3
    <2> QED BY <2>1, <1>2
  <1>5. ax * cy = 0 /\ bx * cy = 0 /\ cy # 0
    BY <1>2, <1>3, <1>4
  <1>6. ax = 0 /\ bx = 0
    BY <1>2, <1>5
  <1> QED BY <1>2, <1>6

\* From a granularity of two on, a length of two or more concurrencies starts
\* with one request, and goes on with more.
LEMMA FirstConcurrencies ==
  ASSUME args \in Settings, args.decode_granularity >= 2, NEW max \in Nat
  PROVE  /\ Concurrencies(max, 0) = {1}
         /\ max >= 2 => \A conc \in Concurrencies(max, 1) : conc \in Nat /\ conc > 1
         /\ max >= 1 => SweepLength(max) >= 1
         /\ max >= 2 => SweepLength(max) >= 2
  <1> DEFINE gran == args.decode_granularity
             gaps == gran - 1
  <1>1. gran \in Int /\ gran >= 2 /\ gaps \in Nat \ {0}
    BY ArgumentsTyped
  <1>2. Concurrencies(max, 0) = {1}
    <2>1. CASE max <= gran
      BY <2>1 DEF Concurrencies
    <2>2. CASE ~(max <= gran)
      <3>1. 0 * (max - 1) = 0
        OBVIOUS
      <3>2. 0 \div gaps = 0
        <4> HIDE DEF gaps
        <4> QED BY <1>1
      <3> QED BY <2>2, <3>1, <3>2 DEF Concurrencies
    <2> QED BY <2>1, <2>2
  <1>3. ASSUME max >= 2, NEW conc \in Concurrencies(max, 1) PROVE conc \in Nat /\ conc > 1
    <2>1. CASE max <= gran
      BY <2>1, <1>3 DEF Concurrencies
    <2>2. CASE ~(max <= gran)
      <3> DEFINE steps == 1 * (max - 1)
                 q == steps \div gaps
      <3>1. steps \in Nat /\ steps > gaps
        BY <2>2, <1>1
      <3>2. q \in Nat /\ q >= 1 /\ (steps % gaps = 0 => q >= 2)
        <4> HIDE DEF steps, gaps
        <4>1. /\ q \in Int /\ steps % gaps \in 0..(gaps - 1)
              /\ steps = gaps * q + (steps % gaps)
          BY <3>1, <1>1
        <4> HIDE DEF q
        <4>2. q > 0
          <5> SUFFICES ASSUME q <= 0 PROVE FALSE
            BY <4>1
          <5>1. gaps * q <= 0
            BY <4>1, <1>1
          <5> QED BY <5>1, <4>1, <3>1, <1>1
        <4>3. q = 1 => steps % gaps # 0
          BY <4>1, <3>1, <1>1
        <4> QED BY <4>1, <4>2, <4>3
      <3>3. conc = q + 1 \/ (conc = q /\ steps % gaps = 0)
        BY <2>2, <1>3 DEF Concurrencies
      <3> HIDE DEF q, steps
      <3> QED BY <3>2, <3>3
    <2> QED BY <2>1, <2>2
  <1>4. /\ max >= 1 => SweepLength(max) >= 1
        /\ max >= 2 => SweepLength(max) >= 2
    BY <1>1 DEF SweepLength, AtLeast
  <1> QED BY <1>2, <1>3, <1>4

-----------------------------------------------------------------------------
-----------------------------------------------------------------------------
(* A profile that covers the sweeps loads *)

LEMMA SettingsTyped ==
  ASSUME args \in Settings
  PROVE  /\ Lengths \in Seq(Nat) /\ Contexts \in Seq(Nat)
         /\ args.max_context_length \in Nat
  <1>1. /\ Lengths \in Seq(Nat \ {0}) /\ Contexts \in Seq(Nat \ {0})
        /\ args.max_context_length \in Nat
    BY ProfilerAssumption DEF Lengths, Contexts
  <1>2. Seq(Nat \ {0}) \subseteq Seq(Nat)
    OBVIOUS
  <1> QED BY <1>1, <1>2

LEMMA PrefillLoads ==
  ASSUME args \in Settings, Adequate, NEW measured, CoversPrefill(measured, Len(Lengths) + 1)
  PROVE  PrefillFits(measured)
  <1> DEFINE wanted == {isl \in ToSet(Lengths) : InContext(isl)}
  <1>1. /\ Lengths \in Seq(Nat) /\ args.max_context_length \in Nat
        /\ Len(Lengths) \in Nat /\ DOMAIN Lengths = 1..Len(Lengths)
    BY SettingsTyped
  <1>2. Cardinality(wanted) >= 4 /\ IsInjective(Lengths)
    BY DEF Adequate, Lengths
  <1>3. \A isl \in wanted : isl \in Nat /\ \E j \in DOMAIN Lengths : isl = Lengths[j] /\ InContext(Lengths[j])
    <2> SUFFICES ASSUME NEW isl \in wanted
                 PROVE  isl \in Nat /\ \E j \in DOMAIN Lengths : isl = Lengths[j] /\ InContext(Lengths[j])
      OBVIOUS
    <2>1. PICK j \in DOMAIN Lengths : isl = Lengths[j]
      BY DEF ToSet
    <2> QED BY <2>1, <1>1
  <1>4. IsFiniteSet(wanted)
    <2>1. \A isl \in wanted : isl < args.max_context_length
      <3> SUFFICES ASSUME NEW isl \in wanted PROVE isl < args.max_context_length
        OBVIOUS
      <3>1. isl < args.max_context_length - 512 /\ isl \in Nat
        BY <1>3 DEF InContext, headroom
      <3> QED BY <3>1, <1>1
    <2> HIDE DEF wanted
    <2>2. wanted \in SUBSET Nat
      BY <1>3
    <2> QED BY <2>1, <2>2, <1>1, BoundedIsFinite
  <1>5. /\ measured \in Seq(Nat) /\ IsInjective(measured)
        /\ \A isl \in wanted : \E k \in DOMAIN measured : measured[k] = isl
    <2>1. \A j \in DOMAIN Lengths : j < Len(Lengths) + 1
      BY <1>1
    <2> HIDE DEF wanted
    <2> QED BY <2>1, <1>2, <1>3 DEF CoversPrefill
  <1>6. Cardinality(wanted) <= Len(measured)
    <2> HIDE DEF wanted
    <2> QED BY <1>4, <1>5, LongEnough
  <1>7. Len(measured) >= 4
    <2>1. Cardinality(wanted) \in Nat /\ Len(measured) \in Nat
      BY <1>4, <1>5, FS_CardinalityType
    <2> HIDE DEF wanted
    <2> QED BY <2>1, <1>2, <1>6
  <1> QED
    BY <1>5, <1>7 DEF PrefillFits

\* Every context length swept has the point of one request.
LEMMA FirstPoints ==
  ASSUME args \in Settings, args.decode_granularity >= 2,
         NEW measured, CoversDecode(measured, Len(Contexts) + 1, 0),
         NEW isl \in ToSet(Contexts), Swept(isl)
  PROVE  /\ isl \in Nat
         /\ \E k \in DOMAIN measured : measured[k] = Point(isl, 1)
         /\ MaxConcurrency(isl) >= 2 =>
              \E k \in DOMAIN measured, conc \in Nat : conc > 1 /\ measured[k] = Point(isl, conc)
  <1> DEFINE max == MaxConcurrency(isl)
  <1>1. /\ Contexts \in Seq(Nat \ {0}) /\ Len(Contexts) \in Nat
        /\ DOMAIN Contexts = 1..Len(Contexts)
    BY ArgumentsTyped DEF Contexts
  <1>2. PICK j \in DOMAIN Contexts : isl = Contexts[j]
    BY DEF ToSet
  <1>3. isl \in Nat \ {0} /\ j < Len(Contexts) + 1
    BY <1>1, <1>2
  <1>4. max \in Nat
    BY <1>3, MaxConcurrencyFits
  <1>5. \A n \in Nat : n < SweepLength(max) =>
          \E k \in DOMAIN measured : \E conc \in Concurrencies(max, n) : measured[k] = Point(isl, conc)
    BY <1>2, <1>3 DEF CoversDecode, Due, Gives
  <1>6. 0 < SweepLength(max)
    BY DEF Swept
  <1>7. \E k \in DOMAIN measured : measured[k] = Point(isl, 1)
    <2> HIDE DEF max
    <2>1. Concurrencies(max, 0) = {1}
      BY <1>4, FirstConcurrencies
    <2> QED BY <1>5, <1>6, <2>1
  <1>8. ASSUME max >= 2
        PROVE  \E k \in DOMAIN measured, conc \in Nat : conc > 1 /\ measured[k] = Point(isl, conc)
    <2> HIDE DEF max
    <2>1. SweepLength(max) >= 2 /\ \A conc \in Concurrencies(max, 1) : conc \in Nat /\ conc > 1
      BY <1>4, <1>8, FirstConcurrencies
    <2>2. 1 < SweepLength(max)
      BY <2>1, <1>4, ArgumentsTyped DEF SweepLength, AtLeast
    <2>3. PICK k \in DOMAIN measured : \E conc \in Concurrencies(max, 1) : measured[k] = Point(isl, conc)
      BY <1>5, <2>2
    <2> QED BY <2>1, <2>3
  <1> QED
    BY <1>3, <1>7, <1>8

LEMMA DecodeLoads ==
  ASSUME args \in Settings, Adequate,
         NEW measured \in Seq(GridPoints), CoversDecode(measured, Len(Contexts) + 1, 0)
  PROVE  DecodeFits(measured)
  <1> DEFINE swept == {isl \in ToSet(Contexts) : Swept(isl)}
  <1>1. args.decode_granularity >= 2 /\ Cardinality(swept) >= 2 /\ args.max_context_length \in Nat
    BY SettingsTyped DEF Adequate, Contexts
  <1>2. PICK b \in swept : MaxConcurrency(b) >= 2
    BY DEF Adequate, Contexts
  <1>3. \A isl \in swept : isl \in Nat /\ \E k \in DOMAIN measured : measured[k] = Point(isl, 1)
    BY <1>1, FirstPoints
  <1>4. IsFiniteSet(swept)
    <2>1. \A isl \in swept : isl < args.max_context_length
      <3> SUFFICES ASSUME NEW isl \in swept PROVE isl < args.max_context_length
        OBVIOUS
      <3>1. isl \in Nat /\ isl + 500 < args.max_context_length
        BY <1>3 DEF Swept, osl
      <3> QED BY <3>1, <1>1
    <2> HIDE DEF swept
    <2> QED BY <2>1, <1>1, <1>3, BoundedIsFinite
  <1>5. PICK a \in swept : a # b
    <2> HIDE DEF swept
    <2> QED BY <1>1, <1>2, <1>4, Another
  <1>6. a \in Nat /\ b \in Nat
    <2> HIDE DEF swept
    <2> QED BY <1>2, <1>3, <1>5
  <1>7. PICK k \in DOMAIN measured : measured[k] = Point(b, 1)
    <2> HIDE DEF swept
    <2> QED BY <1>2, <1>3
  <1>8. PICK m \in DOMAIN measured : \E conc \in Nat : conc > 1 /\ measured[m] = Point(b, conc)
    BY <1>1, <1>2, FirstPoints
  <1>9. PICK n \in DOMAIN measured : measured[n] = Point(a, 1)
    <2> HIDE DEF swept
    <2> QED BY <1>3, <1>5
  <1>10. \A isl, conc : Point(isl, conc) = [x |-> (2 * isl + 500) * conc, y |-> isl + 250]
    BY DEF Point, osl
  <1>11. measured[k].y = measured[m].y /\ measured[n].y # measured[k].y
    <2>1. measured[k].y = b + 250 /\ measured[n].y = a + 250
      BY <1>7, <1>9, <1>10
    <2>2. measured[m].y = b + 250
      BY <1>8, <1>10
    <2> QED BY <2>1, <2>2, <1>5, <1>6
  <1>12. measured[k].x # measured[m].x
    <2>1. PICK conc \in Nat : conc > 1 /\ measured[m] = Point(b, conc)
      BY <1>8
    <2>2. measured[k].x = (2 * b + 500) * 1 /\ measured[m].x = (2 * b + 500) * conc
      BY <2>1, <1>7, <1>10
    <2>3. (2 * b + 500) * conc - (2 * b + 500) * 1 = (2 * b + 500) * (conc - 1)
      BY <2>1, <1>6
    <2>4. (2 * b + 500) * (conc - 1) > 0
      BY <2>1, <1>6
    <2>5. (2 * b + 500) * conc \in Int
      BY <1>6
    <2> QED BY <2>2, <2>3, <2>4, <2>5, <1>6
  <1>13. measured \in Seq([x : Int, y : Int])
    <2>1. GridPoints \subseteq [x : Int, y : Int]
      BY ArgumentsTyped DEF GridPoints
    <2> HIDE DEF GridPoints
    <2> DEFINE T == [x : Int, y : Int]
    <2>2. GridPoints \subseteq T
      BY <2>1
    <2> HIDE DEF T
    <2>3. measured \in Seq(T)
      BY <2>2
    <2> QED BY <2>3 DEF T
  <1>14. ~Flat(measured)
    BY <1>11, <1>12, <1>13, OutOfLine
  <1>15. measured # <<>>
    BY <1>7
  <1> QED BY <1>14, <1>15 DEF DecodeFits

LEMMA WholeLoads ==
  ASSUME args \in Settings, Adequate, Covers(configmap)
  PROVE  Fits(configmap)
  BY PrefillLoads, DecodeLoads DEF Covers, Fits

-----------------------------------------------------------------------------
(* The sweeps of one pod *)

\* What is due in a sweep depends on the arguments alone.
LEMMA ArgumentsStay ==
  ASSUME args' = args
  PROVE  /\ Lengths' = Lengths /\ Contexts' = Contexts /\ GridPoints' = GridPoints
         /\ \A isl : InContext(isl)' <=> InContext(isl)
         /\ \A isl, n : Due(isl, n)' <=> Due(isl, n)
         /\ \A isl, n, point : Gives(isl, n, point)' <=> Gives(isl, n, point)
  BY DEF Lengths, Contexts, GridPoints, InContext, Due, Gives, Swept, SweepLength,
         MaxConcurrency, Concurrencies

\* A step that leaves the sweep alone.
LEMMA SweepRests ==
  ASSUME Progress, UNCHANGED <<args, sweep>>
  PROVE  Progress'
  <1>1. /\ args' = args /\ phase' = phase /\ at' = at /\ i' = i
        /\ prefill_isl' = prefill_isl /\ points' = points /\ dropped' = dropped
    BY DEF sweep
  <1> QED
    BY <1>1, ArgumentsStay DEF Progress, CoversPrefill, CoversDecode

\* A new pod has nothing to cover.
LEMMA PodStartsAnew ==
  ASSUME args \in Settings, NEW next, next \notin {"decode", "replace", "create"},
         EndPod(next), args' = args
  PROVE  Progress'
  <1>1. phase' = next /\ at' = 1 /\ prefill_isl' = <<>>
    BY DEF EndPod
  <1>2. CoversPrefill(prefill_isl, at)'
    <2>1. prefill_isl' \in Seq(Nat) /\ DOMAIN prefill_isl' = {} /\ IsInjective(prefill_isl')
      BY <1>1 DEF IsInjective
    <2>2. \A j \in DOMAIN Lengths' : ~(j < at')
      BY <1>1, ArgumentsStay, SettingsTyped
    <2> QED BY <2>1, <2>2 DEF CoversPrefill
  <1> QED
    BY <1>1, <1>2 DEF Progress

LEMMA PrefillSweeps ==
  ASSUME GridInv, Progress, ProfilePrefill
  PROVE  Progress'
  <1> DEFINE isl == Lengths[at]
  <1> SUFFICES ASSUME ~dropped' PROVE CoversPrefill(prefill_isl, at)'
    BY DEF ProfilePrefill, Progress
  <1>1. /\ phase = "prefill" /\ at' = at + 1 /\ args' = args
        /\ ~dropped /\ at \in DOMAIN Lengths /\ at \in Nat
        /\ \/ ~InContext(isl) /\ prefill_isl' = prefill_isl
           \/ InContext(isl) /\ prefill_isl' = Append(prefill_isl, isl)
    <2>1. args \in Settings /\ at \in Nat \ {0}
      BY DEF GridInv
    <2>2. Lengths \in Seq(Nat)
      BY <2>1, SettingsTyped
    <2>3. at <= Len(Lengths)
      BY DEF ProfilePrefill, Lengths
    <2>4. at \in DOMAIN Lengths
      BY <2>1, <2>2, <2>3
    <2> QED BY <2>1, <2>4 DEF ProfilePrefill, Keep, Drop, Lengths
  <1>2. CoversPrefill(prefill_isl, at)
    BY <1>1 DEF Progress
  <1>3. /\ Lengths' = Lengths /\ \A len : InContext(len)' <=> InContext(len)
        /\ Lengths \in Seq(Nat) /\ \A j \in DOMAIN Lengths : j \in Nat /\ Lengths[j] \in Nat
    BY <1>1, ArgumentsStay, SettingsTyped DEF GridInv
  <1>4. \A j \in DOMAIN Lengths : j < at + 1 <=> j < at \/ j = at
    BY <1>1, <1>3
  <1>5. CASE ~InContext(isl) /\ prefill_isl' = prefill_isl
    BY <1>1, <1>2, <1>3, <1>4, <1>5 DEF CoversPrefill
  <1>6. CASE InContext(isl) /\ prefill_isl' = Append(prefill_isl, isl)
    <2> DEFINE past == Len(prefill_isl)
    <2>1. /\ prefill_isl' \in Seq(Nat) /\ DOMAIN prefill_isl' = 1..(past + 1)
          /\ DOMAIN prefill_isl = 1..past /\ past \in Nat
          /\ prefill_isl'[past + 1] = isl
          /\ \A k \in 1..past : prefill_isl'[k] = prefill_isl[k]
      <3>1. prefill_isl \in Seq(Nat) /\ isl \in Nat
        BY <1>1, <1>2, <1>3 DEF CoversPrefill
      <3> HIDE DEF isl
      <3> QED BY <3>1, <1>6, Appended
    <2>2. \A k \in 1..(past + 1) : k \in 1..past \/ k = past + 1
      BY <2>1
    <2>3. 1..past \subseteq 1..(past + 1) /\ past + 1 \in 1..(past + 1)
      BY <2>1
    <2> HIDE DEF past
    <2>4. \A j \in DOMAIN Lengths :
            j < at + 1 /\ InContext(Lengths[j]) => \E k \in DOMAIN prefill_isl' : prefill_isl'[k] = Lengths[j]
      BY <1>2, <1>4, <2>1, <2>3 DEF CoversPrefill
    <2>5. \A k \in DOMAIN prefill_isl' : \E j \in DOMAIN Lengths : j < at + 1 /\ prefill_isl'[k] = Lengths[j]
      BY <1>1, <1>2, <1>4, <2>1, <2>2 DEF CoversPrefill
    <2>6. ASSUME IsInjective(Lengths) PROVE IsInjective(prefill_isl')
      <3>1. \A k \in 1..past : prefill_isl[k] # isl
        <4> SUFFICES ASSUME NEW k \in 1..past PROVE prefill_isl[k] # isl
          OBVIOUS
        <4>1. PICK j \in DOMAIN Lengths : j < at /\ prefill_isl[k] = Lengths[j]
          BY <1>2, <2>1 DEF CoversPrefill
        <4>2. j # at
          BY <4>1, <1>1, <1>3
        <4> QED BY <4>1, <4>2, <2>6, <1>1 DEF IsInjective
      <3>2. IsInjective(prefill_isl)
        BY <1>2, <2>6 DEF CoversPrefill
      <3> HIDE DEF isl
      <3> QED BY <3>1, <3>2, <2>1, <2>2 DEF IsInjective
    <2> QED BY <1>1, <1>3, <2>1, <2>4, <2>5, <2>6 DEF CoversPrefill
  <1> QED BY <1>1, <1>5, <1>6

\* The prefill sweep is over: all lengths are covered, and no decode benchmark
\* is due yet.
LEMMA DecodeStarts ==
  ASSUME GridInv, Progress, StartDecode
  PROVE  Progress'
  <1> SUFFICES ASSUME ~dropped'
               PROVE  CoversPrefill(prefill_isl, Len(Lengths) + 1)' /\ CoversDecode(points, at, i)'
    BY DEF StartDecode, Progress
  <1>1. /\ phase = "prefill" /\ at > Len(Lengths) /\ at' = 1 /\ i' = i
        /\ args' = args /\ prefill_isl' = prefill_isl /\ ~dropped
    BY DEF StartDecode, Lengths
  <1>2. i = 0
    BY <1>1 DEF GridInv, InSweep
  <1>3. CoversPrefill(prefill_isl, at)
    BY <1>1 DEF Progress
  <1>4. /\ Lengths' = Lengths /\ Contexts' = Contexts
        /\ \A isl : InContext(isl)' <=> InContext(isl)
    BY <1>1, ArgumentsStay
  <1>5. /\ \A j \in DOMAIN Lengths : j < Len(Lengths) + 1 /\ j < at
        /\ \A j \in DOMAIN Contexts, n \in Nat : ~(j < 1 \/ (j = 1 /\ n < 0))
    <2>1. /\ at \in Nat /\ Lengths \in Seq(Nat) /\ Contexts \in Seq(Nat)
      BY SettingsTyped DEF GridInv
    <2> QED BY <1>1, <2>1
  <1>6. CoversPrefill(prefill_isl, Len(Lengths) + 1)'
    BY <1>1, <1>3, <1>4, <1>5 DEF CoversPrefill
  <1>7. CoversDecode(points, at, i)'
    BY <1>1, <1>2, <1>4, <1>5 DEF CoversDecode
  <1> QED BY <1>6, <1>7

LEMMA DecodeSweeps ==
  ASSUME GridInv, Progress, ProfileDecode
  PROVE  Progress'
  <1> DEFINE isl == Contexts[at]
             length == SweepLength(MaxConcurrency(isl))
  <1> SUFFICES ASSUME ~dropped'
               PROVE  CoversPrefill(prefill_isl, Len(Lengths) + 1)' /\ CoversDecode(points, at, i)'
    BY DEF ProfileDecode, Progress
  <1>1. /\ phase = "decode" /\ args' = args /\ prefill_isl' = prefill_isl /\ ~dropped
        /\ at \in DOMAIN Contexts /\ at \in Nat /\ i \in Nat /\ isl \in Nat \ {0}
        /\ \A j \in DOMAIN Contexts : j \in Nat
    <2>1. args \in Settings /\ at \in Nat \ {0} /\ i \in Nat
      BY DEF GridInv
    <2>2. Contexts \in Seq(Nat \ {0})
      BY <2>1, ArgumentsTyped DEF Contexts
    <2>3. at <= Len(Contexts)
      BY DEF ProfileDecode, Contexts
    <2>4. at \in DOMAIN Contexts /\ isl \in Nat \ {0} /\ \A j \in DOMAIN Contexts : j \in Nat
      BY <2>1, <2>2, <2>3
    <2> QED BY <2>1, <2>4 DEF ProfileDecode, Keep, Drop
  <1>2. PICK point : Gives(isl, i, point) /\ points' = Append(points, point)
    <2> HIDE DEF isl
    <2>1. PICK conc \in Concurrencies(MaxConcurrency(isl), i) : points' = Append(points, Point(isl, conc))
      BY <1>1 DEF ProfileDecode, Keep, Drop, Contexts, isl
    <2> QED BY <2>1 DEF Gives
  <1>3. /\ CoversPrefill(prefill_isl, Len(Lengths) + 1) /\ CoversDecode(points, at, i)
    BY <1>1 DEF Progress
  <1>4. /\ Lengths' = Lengths /\ Contexts' = Contexts
        /\ \A len : InContext(len)' <=> InContext(len)
        /\ \A len, n : Due(len, n)' <=> Due(len, n)
        /\ \A len, n, p : Gives(len, n, p)' <=> Gives(len, n, p)
    BY <1>1, ArgumentsStay
  <1>5. CoversPrefill(prefill_isl, Len(Lengths) + 1)'
    BY <1>1, <1>3, <1>4 DEF CoversPrefill
  <1>6. /\ \A k \in DOMAIN points : k \in DOMAIN points' /\ points'[k] = points[k]
        /\ \E k \in DOMAIN points' : points'[k] = point
    <2>1. points \in Seq(GridPoints)
      BY DEF GridInv
    <2> DEFINE T == GridPoints \cup {point}
               past == Len(points)
    <2>2. points \in Seq(T) /\ point \in T
      <3> HIDE DEF GridPoints
      <3> QED BY <2>1
    <2>3. /\ points' \in Seq(T) /\ Len(points') = past + 1 /\ points'[past + 1] = point
          /\ \A n \in 1..past : points'[n] = points[n]
          /\ past \in Nat
      <3> HIDE DEF T
      <3> QED BY <2>2, <1>2, Appended
    <2>4. DOMAIN points = 1..past /\ DOMAIN points' = 1..(past + 1)
      <3> HIDE DEF T
      <3> QED BY <2>2, <2>3
    <2> HIDE DEF T, past
    <2> QED BY <2>3, <2>4
  <1>7. \A j \in DOMAIN Contexts, n \in Nat :
          (j < at' \/ (j = at' /\ n < i')) /\ Due(Contexts[j], n)
            => (j < at \/ (j = at /\ n < i)) \/ (j = at /\ n = i)
    <2>1. length \in Int
      <3>1. MaxConcurrency(isl) \in Nat /\ args.decode_granularity \in Int
        <4> HIDE DEF isl
        <4> QED BY <1>1, MaxConcurrencyFits, ArgumentsTyped DEF GridInv
      <3> HIDE DEF isl
      <3> QED BY <3>1 DEF SweepLength, AtLeast
    <2>2. \/ i' = i + 1 /\ at' = at
          \/ i' = 0 /\ at' = at + 1 /\ ~(i + 1 < length)
      BY DEF ProfileDecode, NextBench, Contexts
    <2>3. CASE i' = i + 1 /\ at' = at
      BY <2>3, <1>1
    <2>4. CASE i' = 0 /\ at' = at + 1 /\ ~(i + 1 < length)
      <3> SUFFICES ASSUME NEW j \in DOMAIN Contexts, NEW n \in Nat,
                          j < at + 1 \/ (j = at + 1 /\ n < 0), Due(Contexts[j], n)
                   PROVE  j < at \/ (j = at /\ (n < i \/ n = i))
        BY <2>4
      <3>1. j < at \/ j = at
        BY <1>1
      <3>2. ASSUME j = at PROVE n < i \/ n = i
        <4>1. n < length
          BY <3>2 DEF Due
        <4> HIDE DEF length
        <4> QED BY <4>1, <2>1, <2>4, <1>1
      <3> QED BY <3>1, <3>2
    <2> QED BY <2>2, <2>3, <2>4
  <1>8. ASSUME NEW j \in DOMAIN Contexts, NEW n \in Nat,
               j < at' \/ (j = at' /\ n < i'), Due(Contexts[j], n)
        PROVE  \E k \in DOMAIN points' : Gives(Contexts[j], n, points'[k])
    <2>1. CASE j < at \/ (j = at /\ n < i)
      <3>1. PICK k \in DOMAIN points : Gives(Contexts[j], n, points[k])
        BY <1>3, <1>8, <2>1 DEF CoversDecode
      <3> QED BY <3>1, <1>6
    <2>2. CASE j = at /\ n = i
      BY <2>2, <1>2, <1>6
    <2> QED BY <1>7, <1>8, <2>1, <2>2
  <1>9. CoversDecode(points, at, i)'
    BY <1>4, <1>8 DEF CoversDecode
  <1> QED BY <1>5, <1>9

LEMMA DecodeSkips ==
  ASSUME GridInv, Progress, SkipDecode
  PROVE  Progress'
  <1> SUFFICES ASSUME ~dropped'
               PROVE  CoversPrefill(prefill_isl, Len(Lengths) + 1)' /\ CoversDecode(points, at, i)'
    BY DEF SkipDecode, Progress
  <1>1. /\ phase = "decode" /\ args' = args /\ prefill_isl' = prefill_isl /\ points' = points
        /\ ~dropped /\ at' = at + 1 /\ i' = i /\ ~Swept(Contexts[at])
    BY DEF SkipDecode, Contexts
  <1>2. i = 0
    BY <1>1 DEF GridInv, InSweep, Contexts
  <1>3. CoversPrefill(prefill_isl, Len(Lengths) + 1) /\ CoversDecode(points, at, i)
    BY <1>1 DEF Progress
  <1>4. /\ Lengths' = Lengths /\ Contexts' = Contexts
        /\ \A len : InContext(len)' <=> InContext(len)
        /\ \A len, n : Due(len, n)' <=> Due(len, n)
        /\ \A len, n, p : Gives(len, n, p)' <=> Gives(len, n, p)
    BY <1>1, ArgumentsStay
  <1>5. CoversPrefill(prefill_isl, Len(Lengths) + 1)'
    BY <1>1, <1>3, <1>4 DEF CoversPrefill
  <1>6. \A j \in DOMAIN Contexts, n \in Nat :
          j < at + 1 \/ (j = at + 1 /\ n < 0) => j < at \/ j = at
    <2>1. at \in Nat /\ Contexts \in Seq(Nat)
      BY SettingsTyped DEF GridInv
    <2> QED BY <2>1
  <1>7. \A n : ~Due(Contexts[at], n)
    BY <1>1 DEF Due
  <1>8. CoversDecode(points, at, i)'
    BY <1>1, <1>2, <1>3, <1>4, <1>6, <1>7 DEF CoversDecode
  <1> QED BY <1>5, <1>8

\* A decode sweep that is over covers all it had to.
LEMMA PhaseChanges ==
  ASSUME GridInv, Progress, NEW next, Goto(next),
         \/ phase = "decode" /\ at > Len(Contexts) /\ next \in {"create", "replace"}
         \/ phase = "replace" /\ next = "create"
         \/ next = "complete"
  PROVE  Progress'
  <1>1. /\ phase' = next /\ args' = args /\ prefill_isl' = prefill_isl /\ points' = points
        /\ dropped' = dropped
    BY DEF Goto
  <1>2. /\ Lengths' = Lengths /\ Contexts' = Contexts
        /\ \A len : InContext(len)' <=> InContext(len)
        /\ \A len, n : Due(len, n)' <=> Due(len, n)
        /\ \A len, n, p : Gives(len, n, p)' <=> Gives(len, n, p)
    BY <1>1, ArgumentsStay
  <1>3. CASE next = "complete"
    BY <1>1, <1>3 DEF Progress
  <1>4. CASE phase = "replace" /\ next = "create"
    BY <1>1, <1>2, <1>4 DEF Progress, CoversPrefill, CoversDecode
  <1>5. CASE phase = "decode" /\ at > Len(Contexts) /\ next \in {"create", "replace"}
    <2> SUFFICES ASSUME ~dropped'
                 PROVE  /\ CoversPrefill(prefill_isl, Len(Lengths) + 1)'
                        /\ CoversDecode(points, Len(Contexts) + 1, 0)'
      BY <1>1, <1>5 DEF Progress
    <2>1. CoversPrefill(prefill_isl, Len(Lengths) + 1) /\ CoversDecode(points, at, i)
      BY <1>1, <1>5 DEF Progress
    <2>2. \A j \in DOMAIN Contexts : j < at
      <3>1. at \in Nat /\ Contexts \in Seq(Nat)
        BY SettingsTyped DEF GridInv
      <3> QED BY <3>1, <1>5
    <2>3. CoversPrefill(prefill_isl, Len(Lengths) + 1)'
      BY <1>1, <1>2, <2>1 DEF CoversPrefill
    <2>4. CoversDecode(points, Len(Contexts) + 1, 0)'
      BY <1>1, <1>2, <2>1, <2>2 DEF CoversDecode
    <2> QED BY <2>3, <2>4
  <1> QED BY <1>3, <1>4, <1>5

-----------------------------------------------------------------------------
(* The ConfigMap *)

LEMMA ProfileRests ==
  ASSUME Stored, args' = args, configmap' = configmap
  PROVE  Stored'
  BY ArgumentsStay DEF Stored, Covers, CoversPrefill, CoversDecode

LEMMA StoresWhole ==
  ASSUME GridInv, Progress, phase \in {"replace", "create"}, Store
  PROVE  Progress' /\ Stored'
  <1>1. args' = args /\ configmap' = Measured /\ EndPod("stored")
    BY DEF Store
  <1>2. Progress'
    BY <1>1, PodStartsAnew DEF GridInv
  <1>3. /\ Lengths' = Lengths /\ Contexts' = Contexts /\ GridPoints' = GridPoints
        /\ \A len : InContext(len)' <=> InContext(len)
        /\ \A len, n : Due(len, n)' <=> Due(len, n)
        /\ \A len, n, p : Gives(len, n, p)' <=> Gives(len, n, p)
    BY <1>1, ArgumentsStay
  <1>4. /\ configmap'.prefill_isl = prefill_isl /\ configmap'.points = points
        /\ configmap'.whole <=> ~dropped
    BY <1>1 DEF Measured
  <1>5. ASSUME configmap'.whole PROVE Covers(configmap)'
    <2>1. /\ CoversPrefill(prefill_isl, Len(Lengths) + 1)
          /\ CoversDecode(points, Len(Contexts) + 1, 0)
          /\ points \in Seq(GridPoints)
      BY <1>4, <1>5 DEF Progress, GridInv
    <2> QED BY <1>3, <1>4, <2>1 DEF Covers, CoversPrefill, CoversDecode
  <1> QED BY <1>2, <1>5 DEF Stored

\* A ConfigMap of a user's, or none.
LEMMA NotWhole ==
  /\ ~Absent.whole
  /\ \A p \in UserProfiles : ~p.whole
  BY ProfilerAssumption DEF Absent

LEMMA CompleteStep == Complete /\ [Next]_vars => Complete'
  <1> SUFFICES ASSUME GridInv, Progress, Stored, [Next]_vars PROVE Progress' /\ Stored'
    BY GridStep DEF Complete
  <1>1. ASSUME UNCHANGED <<args, sweep>>, configmap' = configmap PROVE Progress' /\ Stored'
    BY <1>1, SweepRests, ProfileRests
  <1>2. CASE ProfilePrefill
    BY <1>2, PrefillSweeps, ProfileRests DEF ProfilePrefill
  <1>3. CASE StartDecode
    BY <1>3, DecodeStarts, ProfileRests DEF StartDecode
  <1>4. CASE ProfileDecode
    BY <1>4, DecodeSweeps, ProfileRests DEF ProfileDecode
  <1>5. CASE SkipDecode
    BY <1>5, DecodeSkips, ProfileRests DEF SkipDecode
  <1>6. CASE DivideByZero \/ CreateRefused \/ KillPod
    <2>1. FailPod /\ args' = args /\ configmap' = configmap
      BY <1>6 DEF DivideByZero, CreateRefused, KillPod
    <2> QED BY <2>1, PodStartsAnew, ProfileRests DEF FailPod, GridInv
  <1>7. CASE ReadConfigMap
    <2>1. PICK next \in {"create", "replace"} : Goto(next)
      BY <1>7 DEF ReadConfigMap
    <2>2. phase = "decode" /\ at > Len(Contexts) /\ args' = args /\ configmap' = configmap
      BY <1>7, <2>1 DEF ReadConfigMap, Goto, Contexts
    <2> QED BY <2>1, <2>2, PhaseChanges, ProfileRests
  <1>8. CASE ReplaceConfigMap
    <2>1. phase = "replace" /\ ((Goto("create") /\ configmap' = configmap) \/ Store)
      BY <1>8 DEF ReplaceConfigMap
    <2>2. Goto("create") => args' = args
      BY DEF Goto
    <2> QED BY <2>1, <2>2, PhaseChanges, ProfileRests, StoresWhole
  <1>9. CASE CreateConfigMap
    BY <1>9, StoresWhole DEF CreateConfigMap
  <1>10. CASE ExitPod
    BY <1>10, PhaseChanges, ProfileRests DEF ExitPod, Goto
  <1>11. CASE SupplyConfigMap \/ DeleteConfigMap
    <2>1. UNCHANGED <<args, sweep>> /\ (configmap' \in UserProfiles \/ configmap' = Absent)
      BY <1>11 DEF SupplyConfigMap, DeleteConfigMap
    <2>2. Stored'
      BY <2>1, NotWhole DEF Stored
    <2> QED BY <2>1, <2>2, SweepRests
  <1>12. CASE Load \/ KillPlanner \/ ObserveAll \/ ObserveOutage \/ Adjust \/ SkipAdjust \/ UNCHANGED vars
    BY <1>1, <1>12 DEF Load, KillPlanner, ObserveAll, ObserveOutage, Observe, Adjust, SkipAdjust, vars, profilerVars
  <1> QED
    BY <1>2, <1>3, <1>4, <1>5, <1>6, <1>7, <1>8, <1>9, <1>10, <1>11, <1>12 DEF Next, ProfilerNext, ProfilerStep

\* What a Job stores without having lost a benchmark loads into the planner if
\* its settings are adequate, for all points, granularities and cache sizes,
\* through any number of dead pods and races for the ConfigMap.
THEOREM WholeProfilesLoad == Spec => []CompleteProfileLoads
  <1>1. Init => Complete
    <2> SUFFICES ASSUME Init PROVE Complete
      OBVIOUS
    <2>1. GridInv
      BY DEF Init, ProfilerInit, GridInv, InSweep, GridPoints
    <2>2. Progress
      <3>1. phase = "prefill" /\ at = 1 /\ prefill_isl = <<>>
        BY DEF Init, ProfilerInit
      <3>2. \A j \in DOMAIN Lengths : ~(j < at)
        BY <2>1, <3>1, SettingsTyped DEF GridInv
      <3>3. CoversPrefill(prefill_isl, at)
        BY <3>1, <3>2 DEF CoversPrefill, IsInjective
      <3> QED BY <3>1, <3>3 DEF Progress
    <2>3. Stored
      BY NotWhole DEF Init, ProfilerInit, Stored
    <2> QED BY <2>1, <2>2, <2>3 DEF Complete
  <1>2. Complete => CompleteProfileLoads
    BY WholeLoads DEF Complete, GridInv, Stored, CompleteProfileLoads
  <1> QED
    BY <1>1, <1>2, CompleteStep, PTL DEF Spec
=============================================================================
