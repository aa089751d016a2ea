------------------------- MODULE PerfInterpolation -------------------------
(***************************************************************************)
(* utils/perf_interpolation.py: whether a profile can be interpolated, and *)
(* how the planner reads the result.  scipy's cubic surfaces are external: *)
(* arbitrary functions of the prefill length and of the grid position.     *)
(*                                                                         *)
(* A profile is a record of prefill_isl (a sequence), the decode points (a *)
(* sequence of [x, y]) and max_kv_tokens: y is y_context_length and x is   *)
(* x_kv_usage in units of 1/(2 * max_kv_tokens).                           *)
(***************************************************************************)
EXTENDS ReplicaMath, Sequences, SequencesExt

CONSTANT Resolution  \* grid points along each axis

ASSUME ResolutionAssumption == Resolution \in Nat /\ Resolution >= 2

Positions == 0..(Resolution - 1)

-----------------------------------------------------------------------------
(* Which profiles the constructors accept *)

\* interp1d(kind="cubic") wants four points or more, at different lengths.
PrefillFits(prefill_isl) == Len(prefill_isl) >= 4 /\ IsInjective(prefill_isl)

\* All points on one line.
Flat(points) ==
  LET first == points[1] IN
  \A i, j \in DOMAIN points :
    (points[i].x - first.x) * (points[j].y - first.y)
      = (points[j].x - first.x) * (points[i].y - first.y)

\* griddata triangulates the points: some three of them must not be in line.
DecodeFits(points) == points # <<>> /\ ~Flat(points)

\* At a single context length the points are in line whatever the rounding to
\* six digits; two points always are.
DecodeFails(points) ==
  \/ Cardinality(ToSet(points)) < 3
  \/ \A i, j \in DOMAIN points : points[i].y = points[j].y

\* A profile that is neither fit nor unfit is in line up to that rounding:
\* whether it loads depends on the digits.
Fits(profile) == PrefillFits(profile.prefill_isl) /\ DecodeFits(profile.points)
Fails(profile) == ~PrefillFits(profile.prefill_isl) \/ DecodeFails(profile.points)

-----------------------------------------------------------------------------
(* Reading the interpolators *)

\* PrefillInterpolator and DecodeInterpolator over the surfaces scipy made.
Interpolators(profile, surface) ==
  [min_isl       |-> Min(ToSet(profile.prefill_isl)),
   max_isl       |-> Max(ToSet(profile.prefill_isl)),
   max_context   |-> Max({p.y : p \in ToSet(profile.points)}),
   max_kv_tokens |-> profile.max_kv_tokens,
   surface       |-> surface]

\* interpolate_ttft, interpolate_thpt_per_gpu: flat beyond the profiled lengths.
WithinProfile(ip, isl) == AtLeast(AtMost(isl, ip.max_isl), ip.min_isl)
Ttft(ip, isl) == ip.surface.ttft[WithinProfile(ip, isl)]
PrefillThpt(ip, isl) == ip.surface.prefill_thpt[WithinProfile(ip, isl)]

\* compute_idx along one axis: the grid position nearest to num/den of the
\* axis, clipped; at a tie float noise decides.
GridIndex(num, den) ==
  {n \in Positions :
     \E q \in NearestTo(num * (Resolution - 1), den) : n = AtLeast(AtMost(q, Resolution - 1), 0)}

\* yi ends at the longest context profiled; twice_context is 2*isl + osl.
Rows(ip, twice_context) == GridIndex(twice_context, 2 * ip.max_context)

\* The columns of a row whose ITL is within the target, a fraction.
Meeting(ip, row, itl) ==
  {col \in Positions : ip.surface.itl[row, col] * itl.den <= itl.num}

\* Mutant: the search runs from the left.
FirstColumn(ip, row, itl) ==
  IF Meeting(ip, row, itl) = {} THEN 0 ELSE Min(Meeting(ip, row, itl))

\* find_best_throughput_per_gpu: the right-most column that meets the target,
\* the column of least load when none does.
BestColumn(ip, row, itl) ==
  IF Meeting(ip, row, itl) = {} THEN 0 ELSE Max(Meeting(ip, row, itl))
=============================================================================
