------------------------------ MODULE Profiler ------------------------------
(***************************************************************************)
(* One profiling Job (python/profiler): its pods sweep the prefill lengths *)
(* and the decode grid, benchmark by benchmark, and store what they have   *)
(* measured in the ConfigMap the planner mounts.  Benchmarks fail, pods    *)
(* die, and users create and delete the ConfigMap meanwhile.               *)
(*                                                                         *)
(* Of a measured point only its place is kept; what the engines answered   *)
(* there becomes a surface of PerfInterpolation.  UPDATE_CONFIGMAP is true *)
(* (its default, and what the operator leaves it at).                      *)
(***************************************************************************)
EXTENDS PerfInterpolation

CONSTANTS
  Settings,      \* argument sets of the profiler
  UserProfiles,  \* ConfigMaps a user may supply
  MaxMishaps     \* bound: failed benchmarks, killed pods, users' changes and outages

ASSUME ProfilerAssumption ==
  /\ \A s \in Settings :
       /\ s.prefill_isl_points \in Seq(Nat \ {0}) /\ s.decode_isl_points \in Seq(Nat \ {0})
       /\ s.max_kv_tokens \in Nat \ {0} /\ s.max_context_length \in Nat /\ s.decode_granularity \in Int
  /\ UserProfiles \subseteq [prefill_isl : Seq(Nat), points : Seq([x : Nat, y : Nat]),
                             max_kv_tokens : Nat \ {0}, whole : {FALSE}]
  /\ MaxMishaps \in Nat

VARIABLES
  args,         \* the arguments; they never change
  phase,        \* where the pod is, or how the Job ended
  at, i,        \* positions in the sweeps (1-based) and of the concurrency (0-based)
  prefill_isl,  \* prefill lengths measured so far
  points,       \* decode points measured so far
  dropped,      \* history: this pod lost a benchmark
  failed_pods,
  configmap,
  mishaps

sweep == <<phase, at, i, prefill_isl, points, dropped, failed_pods>>
profilerVars == <<args, sweep, configmap, mishaps>>

osl == 500       \* profile_decode's default; nothing overrides it
headroom == 512
backoffLimit == 1

Absent == [prefill_isl |-> <<>>, points |-> <<>>, max_kv_tokens |-> 0, whole |-> FALSE]

\* prefill_data and decode_data; `whole` is history: no benchmark was lost.
Measured ==
  [prefill_isl |-> prefill_isl, points |-> points,
   max_kv_tokens |-> args.max_kv_tokens, whole |-> ~dropped]

Mishap == mishaps < MaxMishaps /\ mishaps' = mishaps + 1

-----------------------------------------------------------------------------
(* Pods of the Job *)

\* The pod's memory and its output directory are gone.
EndPod(next) ==
  /\ phase' = next /\ at' = 1 /\ i' = 0
  /\ prefill_isl' = <<>> /\ points' = <<>> /\ dropped' = FALSE

\* An exception ends the pod with status 1.  The Job starts a new one, which
\* begins again, backoffLimit times.
FailPod ==
  /\ failed_pods' = failed_pods + 1
  /\ EndPod(IF failed_pods < backoffLimit THEN "prefill" ELSE "failed")

Running == phase \notin {"complete", "failed"}

KillPod == Running /\ Mishap /\ FailPod /\ UNCHANGED <<args, configmap>>

-----------------------------------------------------------------------------
(* run_bench *)

\* The result is unusable, or all three attempts failed: the point is left
\* out and the sweep goes on.
Drop == Mishap /\ dropped' = TRUE

Keep == UNCHANGED <<mishaps, dropped>>

-----------------------------------------------------------------------------
(* profile_prefill *)

InContext(isl) == isl < args.max_context_length - headroom

ProfilePrefill ==
  /\ phase = "prefill" /\ at <= Len(args.prefill_isl_points)
  /\ LET isl == args.prefill_isl_points[at] IN
     \/ ~InContext(isl) /\ Keep /\ UNCHANGED prefill_isl
     \/ InContext(isl) /\ Keep /\ prefill_isl' = Append(prefill_isl, isl)
     \/ InContext(isl) /\ Drop /\ UNCHANGED prefill_isl
  /\ at' = at + 1
  /\ UNCHANGED <<args, phase, i, points, failed_pods, configmap>>

StartDecode ==
  /\ phase = "prefill" /\ at > Len(args.prefill_isl_points)
  /\ phase' = "decode" /\ at' = 1
  /\ UNCHANGED <<args, i, prefill_isl, points, dropped, failed_pods, configmap, mishaps>>

-----------------------------------------------------------------------------
(* profile_decode *)

\* Mutant: the generated tokens are forgotten.
PromptConcurrency(isl) == AtMost(args.max_kv_tokens \div isl, 512)
MaxConcurrency(isl) == AtMost(args.max_kv_tokens \div (isl + osl), 512)

\* How many concurrencies are tried, range(decode_granularity) being empty
\* for a negative one.
SweepLength(max) ==
  IF max <= args.decode_granularity THEN max ELSE AtLeast(args.decode_granularity, 0)

\* int(1 + n * step): from eight points on, the float product may fall short
\* of an exact quotient.
Concurrencies(max, n) ==
  LET steps == n * (max - 1)
      gaps == args.decode_granularity - 1
      q == steps \div gaps
  IN  IF max <= args.decode_granularity
      THEN {n + 1}
      ELSE {q + 1} \cup {c \in {q} : gaps >= 7 /\ n > 0 /\ steps % gaps = 0}

Swept(isl) == isl + osl < args.max_context_length /\ SweepLength(MaxConcurrency(isl)) > 0

\* step = .../(decode_granularity - 1): a ZeroDivisionError.
OneStepOnly(isl) ==
  /\ isl + osl < args.max_context_length
  /\ args.decode_granularity = 1 /\ MaxConcurrency(isl) > 1

Point(isl, conc) == [x |-> (2 * isl + osl) * conc, y |-> isl + osl \div 2]

\* Mutant: the last concurrency is never tried.
NextBenchEarly(isl) ==
  IF i + 2 < SweepLength(MaxConcurrency(isl))
  THEN i' = i + 1 /\ UNCHANGED at
  ELSE i' = 0 /\ at' = at + 1

NextBench(isl) ==
  IF i + 1 < SweepLength(MaxConcurrency(isl))
  THEN i' = i + 1 /\ UNCHANGED at
  ELSE i' = 0 /\ at' = at + 1

ProfileDecode ==
  /\ phase = "decode" /\ at <= Len(args.decode_isl_points)
  /\ LET isl == args.decode_isl_points[at] IN
     /\ Swept(isl) /\ ~OneStepOnly(isl)
     /\ \E conc \in Concurrencies(MaxConcurrency(isl), i) :
          \/ Keep /\ points' = Append(points, Point(isl, conc))
          \/ Drop /\ UNCHANGED points
     /\ NextBench(isl)
  /\ UNCHANGED <<args, phase, prefill_isl, failed_pods, configmap>>

SkipDecode ==
  /\ phase = "decode" /\ at <= Len(args.decode_isl_points)
  /\ ~Swept(args.decode_isl_points[at])
  /\ at' = at + 1
  /\ UNCHANGED <<args, phase, i, prefill_isl, points, dropped, failed_pods, configmap, mishaps>>

DivideByZero ==
  /\ phase = "decode" /\ at <= Len(args.decode_isl_points)
  /\ OneStepOnly(args.decode_isl_points[at])
  /\ FailPod
  /\ UNCHANGED <<args, configmap, mishaps>>

-----------------------------------------------------------------------------
(* _update_configmap *)

Goto(next) ==
  /\ phase' = next
  /\ UNCHANGED <<args, at, i, prefill_isl, points, dropped, failed_pods, mishaps>>

ReadConfigMap ==
  /\ phase = "decode" /\ at > Len(args.decode_isl_points)
  /\ Goto(IF configmap = Absent THEN "create" ELSE "replace")
  /\ UNCHANGED configmap

Store ==
  /\ configmap' = Measured
  /\ EndPod("stored")
  /\ UNCHANGED <<args, failed_pods, mishaps>>

\* The body has no resourceVersion: whatever is there is overwritten.  Both
\* calls of the try answer 404 alike.
ReplaceConfigMap ==
  /\ phase = "replace"
  /\ IF configmap = Absent
     THEN Goto("create") /\ UNCHANGED configmap
     ELSE Store

CreateConfigMap == phase = "create" /\ configmap = Absent /\ Store

\* AlreadyExists, raised in the exception handler: nobody catches it.
CreateRefused ==
  /\ phase = "create" /\ configmap # Absent
  /\ FailPod
  /\ UNCHANGED <<args, configmap, mishaps>>

\* A pod that dies before it has exited, its results stored, is replaced by one
\* that measures again.
ExitPod == phase = "stored" /\ Goto("complete") /\ UNCHANGED configmap

-----------------------------------------------------------------------------
(* Users *)

SupplyConfigMap ==
  /\ configmap = Absent /\ Mishap
  /\ configmap' \in UserProfiles
  /\ UNCHANGED <<args, sweep>>

DeleteConfigMap ==
  /\ configmap # Absent /\ Mishap
  /\ configmap' = Absent
  /\ UNCHANGED <<args, sweep>>

-----------------------------------------------------------------------------
\* The operator starts a Job when it sees no ConfigMap; a user may have supplied
\* one before the pod runs.
ProfilerInit ==
  /\ args \in Settings
  /\ phase = "prefill" /\ at = 1 /\ i = 0
  /\ prefill_isl = <<>> /\ points = <<>> /\ dropped = FALSE
  /\ failed_pods = 0
  /\ configmap \in {Absent} \cup UserProfiles
  /\ mishaps = 0

ProfilerStep ==
  \/ ProfilePrefill \/ StartDecode
  \/ ProfileDecode \/ SkipDecode \/ DivideByZero
  \/ ReadConfigMap \/ ReplaceConfigMap \/ CreateConfigMap \/ CreateRefused \/ ExitPod

ProfilerNext == ProfilerStep \/ KillPod \/ SupplyConfigMap \/ DeleteConfigMap

ProfilerSpec == ProfilerInit /\ [][ProfilerNext]_profilerVars

-----------------------------------------------------------------------------
\* Every decode point lies on the interpolator's grid, whose KV usage ends at 1:
\* (isl + osl / 2) * concurrency, what the cache holds when every request is
\* half-way through its generation, is at most max_kv_tokens.  It says nothing of
\* the peak, (isl + osl) * concurrency.
EveryPointOnGrid ==
  \A n \in DOMAIN points : points[n].x \in 0..(2 * args.max_kv_tokens)

\* The settings leave enough points for the planner: four prefill lengths and,
\* at one of two decode lengths, two concurrencies.
Adequate ==
  LET swept == {isl \in ToSet(args.decode_isl_points) : Swept(isl)} IN
  /\ Cardinality({isl \in ToSet(args.prefill_isl_points) : InContext(isl)}) >= 4
  /\ IsInjective(args.prefill_isl_points)
  /\ args.decode_granularity >= 2
  /\ Cardinality(swept) >= 2
  /\ \E isl \in swept : MaxConcurrency(isl) >= 2

\* What a Job stores without having lost a benchmark loads into the planner if
\* the settings are adequate, through pods that died half-way, their successors
\* and races for the ConfigMap.
CompleteProfileLoads == configmap.whole /\ Adequate => Fits(configmap)

-----------------------------------------------------------------------------
\* profiler.py: "Generates profiling data compatible with the RBG planner's
\* perf_interpolation module", stated for a Job that ended well.
ProfileCompatible == [][phase # "complete" /\ phase' = "complete" => ~Fails(configmap')]_profilerVars
=============================================================================
