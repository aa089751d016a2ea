------------------------------- MODULE Sizing -------------------------------
(***************************************************************************)
(* From measurements to a plan: the profiling Job, the planner that loads  *)
(* what it stored, and the planner's intervals, in which it observes,      *)
(* corrects the profile, predicts the load and computes the two replica    *)
(* counts (planner.py: Planner.__init__, observe_metrics,                  *)
(* _update_correction_factors, predict_load,                               *)
(* _compute_replica_requirements).                                         *)
(*                                                                         *)
(* Module Planner has the calls to the API server and what follows a plan; *)
(* here are the numbers behind one.  Quotients are kept as fractions       *)
(* [num, den]; where Python rounds a float quotient up, a quotient that is *)
(* exactly an integer may come out one above it.                           *)
(***************************************************************************)
EXTENDS Profiler, LoadPredictor

CONSTANTS
  Config,       \* PlannerConfig as far as the arithmetic reads it
  Interval,     \* adjustment_interval
  ItlSla,       \* itl_sla
  NoCorrection, \* no_correction
  Predictors,   \* [load_predictor, window_size] the planner may be configured with
  PromptLengths,\* the input lengths profiled, reported or forecast
  Surfaces,     \* what scipy may make of a profile
  Loads,        \* what the engines may report of an interval
  Outages,      \* sets of queries that may fail together
  DecodeWorkers,\* ready decode replicas there may be
  Forecasts,    \* what a fitted model may extrapolate, by predictor
  MaxIntervals  \* bound

Fields == {"num_req", "isl", "osl"}
Queries == Fields \cup {"ttft", "itl", "request_duration"}

ASSUME SizingAssumption ==
  /\ Config \in PlannerConfigs
  /\ Interval \in Nat \ {0} /\ ItlSla \in Nat /\ NoCorrection \in BOOLEAN
  /\ Predictors \subseteq [load_predictor : LoadPredictors, window_size : Nat]
  /\ Loads \subseteq [Queries -> Nat]
  /\ Outages \subseteq SUBSET Queries
  /\ DecodeWorkers \subseteq Nat
  /\ Forecasts \in [Fields -> SUBSET Int]
  /\ MaxIntervals \in Nat

\* Every length at which a surface is read is one of PromptLengths.
ASSUME SurfaceAssumption ==
  /\ PromptLengths \subseteq Int /\ 0 \in PromptLengths
  /\ \A s \in Settings : ToSet(s.prefill_isl_points) \subseteq PromptLengths
  /\ \A p \in UserProfiles : ToSet(p.prefill_isl) \subseteq PromptLengths
  /\ \A load \in Loads : load.isl \in PromptLengths
  /\ Forecasts.isl \subseteq PromptLengths
  /\ Surfaces \subseteq [ttft         : [PromptLengths -> Int],
                         prefill_thpt : [PromptLengths -> Int],
                         itl          : [Positions \X Positions -> Int],
                         thpt         : [Positions \X Positions -> Int]]

VARIABLES
  pc,              \* where the planner is: down, idle or adjust
  load_predictor, window_size,  \* its configuration; they never change
  interpolators,   \* prefill_interpolator and decode_interpolator
  data_buffers,    \* data_buffer of the three predictors
  last_metrics,
  p_correction_factor, d_correction_factor,
  decision,        \* what the last interval computed, until the next one
  observed,        \* history: what this process observed of the load
  intervals        \* intervals so far, of all processes

planner == <<pc, load_predictor, window_size, interpolators, data_buffers, last_metrics,
             p_correction_factor, d_correction_factor, decision, observed, intervals>>
vars == <<profilerVars, planner>>

One == [num |-> 1, den |-> 1]
NoMetrics == [q \in Queries |-> 0]
NotLoaded == [min_isl |-> 0]
NoDecision == [made |-> FALSE]

-----------------------------------------------------------------------------
(* Planner.__init__ *)

Forget ==
  /\ data_buffers' = [f \in Fields |-> <<>>]
  /\ last_metrics' = NoMetrics
  /\ p_correction_factor' = One /\ d_correction_factor' = One
  /\ decision' = NoDecision
  /\ observed' = <<>>

\* The container runs once the ConfigMap can be mounted; a profile that fails
\* to load ends the process, which is started again and again.
Load ==
  /\ pc = "down"
  /\ configmap # Absent /\ ~Fails(configmap)
  /\ \E surface \in Surfaces : interpolators' = Interpolators(configmap, surface)
  /\ pc' = "idle"
  /\ UNCHANGED <<load_predictor, window_size, data_buffers, last_metrics, p_correction_factor,
                 d_correction_factor, decision, observed, intervals>>
  /\ UNCHANGED profilerVars

\* The process ends (see Planner), and its memory with it.
KillPlanner ==
  /\ pc # "down" /\ Mishap
  /\ pc' = "down" /\ interpolators' = NotLoaded
  /\ Forget
  /\ UNCHANGED <<load_predictor, window_size, intervals>>
  /\ UNCHANGED <<args, sweep, configmap>>

-----------------------------------------------------------------------------
(* observe_metrics *)

Reported(load, failed) == [q \in Queries |-> IF q \in failed THEN 0 ELSE load[q]]

\* Mutant: an interval without requests is not shown to the other predictors.
FeedBusyOnly(metrics) ==
  [f \in Fields |-> IF metrics.num_req = 0 /\ f # "num_req"
                    THEN data_buffers[f]
                    ELSE AddDataPoint(load_predictor, window_size, data_buffers[f], metrics[f])]

FeedPredictors(metrics) ==
  [f \in Fields |-> AddDataPoint(load_predictor, window_size, data_buffers[f], metrics[f])]

Observe(load, failed) ==
  /\ pc = "idle" /\ intervals < MaxIntervals
  /\ LET metrics == Reported(load, failed) IN
     /\ last_metrics' = metrics
     /\ data_buffers' = FeedPredictors(metrics)
     /\ observed' = Append(observed, [f \in Fields |-> metrics[f]])
  /\ decision' = NoDecision
  /\ pc' = "adjust"
  /\ intervals' = intervals + 1
  /\ UNCHANGED <<load_predictor, window_size, interpolators, p_correction_factor,
                 d_correction_factor, args, sweep, configmap>>

ObserveAll == \E load \in Loads : Observe(load, {}) /\ UNCHANGED mishaps

\* A query that fails reports 0.0.
ObserveOutage == \E load \in Loads, failed \in Outages : Observe(load, failed) /\ Mishap

-----------------------------------------------------------------------------
(* _update_correction_factors *)

\* actual / expected; an expectation of nothing leaves the factor as it was.
Corrected(factor, actual, expected) ==
  IF expected > 0 THEN [num |-> actual, den |-> expected] ELSE factor

\* The columns nearest to the concurrency of a decode engine.
Columns(workers) ==
  LET m == last_metrics IN
  GridIndex(m.num_req * m.request_duration * (2 * m.isl + m.osl),
            2 * workers * Interval * interpolators.max_kv_tokens)

UpdateCorrectionFactors(workers) ==
  IF NoCorrection \/ workers = 0
  THEN UNCHANGED <<p_correction_factor, d_correction_factor>>
  ELSE LET m == last_metrics IN
       \E col \in Columns(workers), row \in Rows(interpolators, 2 * m.isl + m.osl) :
         /\ p_correction_factor' =
              Corrected(p_correction_factor, m.ttft, Ttft(interpolators, m.isl))
         /\ d_correction_factor' =
              Corrected(d_correction_factor, m.itl, interpolators.surface.itl[row, col])

-----------------------------------------------------------------------------
(* _compute_replica_requirements *)

\* Mutant: rounded down.
FloorOnly(num, den) ==
  {IF den < 0 THEN (-num) \div (-den) ELSE num \div den}

\* math.ceil(num / den), den # 0.
Ceilings(num, den) ==
  LET up == IF den < 0 THEN -(num \div (-den)) ELSE -((-num) \div den)
  IN  {up} \cup {n \in {up + 1} : num # 0 /\ up * den = num}

\* A factor of zero (no ITL was measured) leaves the SLA as it is.
CorrectedItl(factor) ==
  IF factor.num <= 0
  THEN [num |-> ItlSla, den |-> 1]
  ELSE [num |-> ItlSla * factor.den, den |-> factor.num]

\* Mutant: without the correction factor.
UncorrectedDemand(load, p) == [num |-> load.num_req * load.isl, den |-> Interval]

PrefillDemand(load, p) == [num |-> load.num_req * load.isl * p.num, den |-> Interval * p.den]
DecodeDemand(load) == [num |-> load.num_req * load.osl, den |-> Interval]

\* Throughput of one engine: prefill at the predicted length, decode at the
\* best column of the row of the predicted context.
PrefillCap(load) == PrefillThpt(interpolators, load.isl) * Config.prefill_engine_num_gpu
DecodeCap(row, itl) ==
  interpolators.surface.thpt[row, BestColumn(interpolators, row, itl)] * Config.decode_engine_num_gpu

Predictions ==
  {load \in [Fields -> UNION {PredictNext(load_predictor, data_buffers[f], Forecasts[f]) : f \in Fields}] :
     \A f \in Fields : load[f] \in PredictNext(load_predictor, data_buffers[f], Forecasts[f])}

\* make_adjustments up to the plan.  An engine without throughput is a division
\* by zero, which is caught: the interval has no plan.
Adjust ==
  /\ pc = "adjust"
  /\ \E workers \in DecodeWorkers : UpdateCorrectionFactors(workers)
  /\ \E load \in Predictions :
       \E row \in Rows(interpolators, 2 * load.isl + load.osl) :
         LET cap == [prefill |-> PrefillCap(load),
                     decode  |-> DecodeCap(row, CorrectedItl(d_correction_factor'))]
             p == PrefillDemand(load, p_correction_factor')
             d == DecodeDemand(load)
         IN IF cap.prefill = 0 \/ cap.decode = 0
            THEN decision' = NoDecision
            ELSE \E n \in Ceilings(p.num, p.den * cap.prefill), k \in Ceilings(d.num, d.den * cap.decode) :
                 \E plan \in Plans(Config, [prefill |-> n, decode |-> k]) :
                   decision' = [made |-> TRUE, load |-> load, row |-> row,
                                p |-> p_correction_factor', d |-> d_correction_factor',
                                plan |-> plan]
  /\ pc' = "idle"
  /\ UNCHANGED <<load_predictor, window_size, interpolators, data_buffers, last_metrics,
                 observed, intervals>>
  /\ UNCHANGED profilerVars

\* The API server does not tell how many decode workers there are.
SkipAdjust ==
  /\ pc = "adjust" /\ ~NoCorrection /\ Mishap
  /\ decision' = NoDecision
  /\ pc' = "idle"
  /\ UNCHANGED <<load_predictor, window_size, interpolators, data_buffers, last_metrics,
                 p_correction_factor, d_correction_factor, observed, intervals>>
  /\ UNCHANGED <<args, sweep, configmap>>

-----------------------------------------------------------------------------
Init ==
  /\ ProfilerInit
  /\ pc = "down" /\ interpolators = NotLoaded
  /\ \E c \in Predictors : load_predictor = c.load_predictor /\ window_size = c.window_size
  /\ data_buffers = [f \in Fields |-> <<>>]
  /\ last_metrics = NoMetrics
  /\ p_correction_factor = One /\ d_correction_factor = One
  /\ decision = NoDecision
  /\ observed = <<>>
  /\ intervals = 0

Next ==
  \/ ProfilerNext /\ UNCHANGED planner
  \/ Load \/ KillPlanner
  \/ ObserveAll \/ ObserveOutage
  \/ Adjust \/ SkipAdjust

Spec == Init /\ [][Next]_vars
-----------------------------------------------------------------------------
\* Types; a windowed predictor holds no more than its window (for a window of
\* 0, and for the constant predictor, nothing bounds the buffer).
TypeOK ==
  /\ pc \in {"down", "idle", "adjust"}
  /\ load_predictor \in LoadPredictors /\ window_size \in Nat
  /\ data_buffers \in [Fields -> Seq(Nat)]
  /\ load_predictor # "constant" /\ window_size > 0
       => \A f \in Fields : Len(data_buffers[f]) <= window_size
  /\ last_metrics \in [Queries -> Nat]
  /\ \A factor \in {p_correction_factor, d_correction_factor} :
       factor.num \in Nat /\ factor.den \in Nat \ {0}
  /\ decision.made => decision.plan \in [prefill : Nat, decode : Nat]
  /\ observed \in Seq([Fields -> Nat]) /\ Len(observed) <= intervals
  /\ pc # "down" => interpolators.min_isl < interpolators.max_isl /\ interpolators.max_context > 0

Windowed(n) == load_predictor # "constant" /\ window_size > 0 /\ n = window_size

\* The three histories describe the same intervals: counted from the end, the
\* n-th entry of each predictor is what the n-th last interval reported, zeros
\* and outages included; what a predictor lacks was 0 or has left its window.
HistoriesAligned ==
  \A f \in Fields :
    LET kept == Len(data_buffers[f])
        seen == Len(observed)
    IN  /\ kept <= seen
        /\ \A n \in 0..(kept - 1) : data_buffers[f][kept - n] = observed[seen - n][f]
        /\ Windowed(kept) \/ \A n \in 1..(seen - kept) : observed[n][f] = 0

\* A plan departs from the load last observed only if the predictor forecasts
\* and has minimum_data_points intervals since the first load; a shorter window
\* makes ARIMA and Prophet constant.
WarmUp ==
  decision.made =>
    \A f \in Fields :
      decision.load[f] # last_metrics[f] =>
        /\ load_predictor # "constant"
        /\ window_size = 0 \/ window_size >= MinimumDataPoints
        /\ \E n \in 1..(Len(observed) + 1 - MinimumDataPoints) : observed[n][f] # 0

\* Prefill engines carry the predicted tokens, slowed down by the correction
\* factor, unless the maximum stands in the way or the profile claims a
\* negative throughput (cubic interpolation may).
PrefillCarries ==
  decision.made /\ SlackBudget(Config) =>
    LET load == decision.load
        plan == decision.plan
    IN  \/ plan.prefill = Config.max_prefill_replicas
        \/ PrefillCap(load) < 0
        \/ plan.prefill * PrefillCap(load) * Interval * decision.p.den
             >= load.num_req * load.isl * decision.p.num

RowThpt(row, col) == interpolators.surface.thpt[row, col] * Config.decode_engine_num_gpu
RowItl(row, col) == interpolators.surface.itl[row, col]

\* The column's ITL, slowed down by the correction factor, is within the SLA.
WithinSla(col) ==
  IF decision.d.num = 0
  THEN RowItl(decision.row, col) <= ItlSla
  ELSE RowItl(decision.row, col) * decision.d.num <= ItlSla * decision.d.den

\* Decode engines carry the predicted tokens at a KV usage whose ITL is within
\* the SLA, if the profile has one at that context length.
DecodeMeetsSla ==
  decision.made /\ SlackBudget(Config) =>
    \/ decision.plan.decode = Config.max_decode_replicas
    \/ \A col \in Positions : ~WithinSla(col)
    \/ \E col \in Positions :
         /\ WithinSla(col)
         /\ \/ RowThpt(decision.row, col) < 0
            \/ decision.plan.decode * RowThpt(decision.row, col) * Interval
                 >= decision.load.num_req * decision.load.osl

\* Where throughput is positive and grows with KV usage, no fewer decode engines
\* would do at any usage within the SLA.  (Where it falls again, the right-most
\* column within the SLA is not the best, and more engines are planned than
\* needed.)
NoSpareDecode ==
  decision.made /\ SlackBudget(Config) =>
    LET row == decision.row IN
    \/ decision.plan.decode <= Config.min_replicas
    \/ RowThpt(row, 0) < 0
    \/ \E col \in Positions \ {0} : RowThpt(row, col) < RowThpt(row, col - 1)
    \/ \A col \in Positions :
         WithinSla(col) =>
           (decision.plan.decode - 1) * RowThpt(row, col) * Interval
             <= decision.load.num_req * decision.load.osl
=============================================================================
