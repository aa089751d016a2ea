# rbg-planner in TLA+

rbg-planner scales the two roles of a prefill/decode-disaggregated inference
service. A Go **operator** turns an `AutoScaler` object into a Python
**planner** process; the planner watches Prometheus and sets the replica counts
of a `RoleBasedGroup` (RBG). This directory holds a model of both, the
configurations that check it with TLC, and proofs checked with TLAPS.

    tlc -workers 2 -config MCPlannerSafety.cfg MCPlanner.tla
    tlapm PlannerProofs.tla

TLC takes seconds for most runs, one to three minutes for the largest.

`PROJECT.json` lists components, runs, hazards and theorems, and maps every
definition to the lines it models.

## 1. The system

| Part | State it keeps | Operations | Talks to |
|---|---|---|---|
| Planner loop (`planner.py`) | last metrics, two correction factors, the predictors' histories | observe, correct, predict, compute, apply, once per interval | Prometheus, connector |
| Replica arithmetic (`planner.py:284-346`) | none | demand to plan: ceilings, clamps, budget | called by the loop |
| Connector (`rbg_connector.py`) | `_cached_rbg` | validate, wait until ready, read ready replicas, `set_replicas` | API server |
| Metrics adapters (`metrics/`) | none | six PromQL queries per interval | Prometheus |
| Predictors (`load_predictor.py`) | a buffer each; three of them, for requests, input and output length | add a point, predict the next | the loop |
| Interpolators (`perf_interpolation.py`) | grids of the profile | ITL/TTFT/throughput at a point, best throughput at an ITL | the loop |
| Operator (`roleautoscaler_controller.go`) | informer caches, work queue | reconcile an AutoScaler: finalizer, RBAC, profiling, Deployment, status | API server |
| Profiler (`rbg_profiler/`) | the points measured so far | sweep prefill lengths and the decode grid, write a ConfigMap, exit | engines, API server |
| RBG controller, RBGSA, Job controller, garbage collector, kubelet | outside this repository | roll out, sync, retry, collect, restart | API server |

What is hard here is not in any one function. The planner's process is
sequential, but between any two of its API calls users edit the group, the RBG
controller works, pods die; every uncaught exception ends the process and its
memory; Prometheus failures look like silence. The operator reads from caches
that lag, writes with optimistic concurrency, and is retried from the top after
any failure, with the leftovers of the attempt before. `hazards` in
`PROJECT.json` has each of these at its line with the property that watches it.

What makes each part correct:

* **Arithmetic**: maxima hold whatever the demand and whatever the spec; under
  the operator's budget the roles do not influence each other; a cut to a budget
  overshoots by a bounded amount.
* **Loop and connector**: a command reaches its own role only; one decision per
  interval, in order, through crashes; dry run touches nothing; the group
  converges to the plan for its traffic.
* **Sizing**: the three predictors speak of the same intervals; a plan is no
  extrapolation before there is data for one; prefill engines carry the predicted
  tokens, decode engines do so within the latency target, and no fewer would do.
* **Profiler**: no benchmark's KV usage, half-way through its generation, lies
  beyond the interpolator's grid; what it stores without a lost benchmark loads into
  the planner.
* **Operator**: a binding outlives its AutoScaler, or is missing from a Ready one,
  only where the cache of bindings was behind when the operator looked; Ready means
  the planner of the current spec; every live AutoScaler gets its planner, every
  deleted one goes with what it owned.

## 2. Modules

| Module | What it is | Code |
|---|---|---|
| `ReplicaMath` | the arithmetic as operators, and the operator's `OperatorConfig` | `planner.py:322-346`, `controller.go:472, 553-578` |
| `ReplicaPlan` | decisions over intervals for every configuration and demand | `planner.py:284-346` |
| `RoleBasedGroup` | the RBG, its adapters, controller and users (external) | what `rbg_connector.py` uses |
| `Planner` | the process, one step per API call, with the group and its disturbances; extends the two above | `planner.py`, `rbg_connector.py`, `prometheus.py` |
| `ScalingContract` | what the planner promises: one decision at a time, carried out in order | abstract |
| `LoadPredictor` | the predictors as operators on their buffers | `load_predictor.py` |
| `PerfInterpolation` | which profiles load, and how they are read | `perf_interpolation.py` |
| `Profiler` | the pods of a profiling Job, one step per benchmark and API call; extends `PerfInterpolation` | `profiler.py`, `rbg_profiler/main.py` |
| `Sizing` | profile to planner to plan, with the numbers; extends the three above and `ReplicaMath` | `planner.py:163-407` |
| `Operator` | the reconciler, one step per write, with users, caches and cluster | `controller.go`, profiler |
| `Provisioning` | what the operator promises: charge, grant, deploy, take back, let go, mistaken only where its cache of grants is behind | abstract |
| `ReplicaMathProofs`, `ReplicaPlanProofs`, `PlannerProofs`, `SizingProofs`, `ProfileProofs`, `DemandProofs`, `OperatorProofs` | theorems | |
| `MCReplicaPlan`, `MCPlanner`, `MCSizing`, `MCProfiler`, `MCOperator` | instances for TLC | |

### ReplicaMath and ReplicaPlan

A demand is a pair of integers, the results of the two `math.ceil` calls;
`Plans` is the set of plans it may lead to. It is a set because
`round(n * scale)` rounds a float product whose quotient was rounded before: at
a tie it may fall on either side (`NearestTo`). The second `round` divides two
integers; its tie goes to the even neighbour (`RoundHalfEven`). `ReplicaPlan`
starts with a configuration the operator computed from a spec, or one set by
hand, and meets any demand in every interval, negative forecasts included.

### Planner

`pc` is where the process is between two API calls:

| `pc` | Code | Steps |
|---|---|---|
| `validate` | `run:432` | `ValidateDeployment` |
| `waiting` | `run:436` | `WaitForReady` (one attempt) |
| `idle` | `run:445` | `ObserveMetrics` |
| `adjust` | `make_adjustments` | `MakeAdjustments`, `SkipAdjustment`, `CaughtException` |
| `fetch` | `set_replicas:164` | `FetchGroup` |
| `scale` | `set_replicas:169`, `_try_scale_via_rbgsa:106` | `AlreadyThere`, `RoleNotFound`, `ScaleAdapter`, `AdapterNotFound` |
| `locate` | `_patch_rbg_role_replicas:124` | `LocateRole` |
| `patch` | `_patch_rbg_role_replicas:136` | `PatchRole` |
| `down` | container restart | `Restart` |

`snapshot`, `targets` and `role_index` are locals of `set_replicas` and its
callees; `Crash` forgets everything. Latencies are counted in multiples of the
profiled one and a request count in what one engine serves in an interval, so
the interpolators become the identity on these units; `RawDemand` keeps how the
correction factors enter. An outage takes away the answer of any one query, or of
all. The two GETs of `observe_metrics` are one step: their results go into gauges. A predictor gives back the last value (constant, short
history, constant history, failed fit) or, from `Forecasts`, anything.
`Metrics.is_valid` never fails: no adapter returns None or NaN (see the finding
`no_traffic`), which is why no action has it as a guard.

### LoadPredictor, PerfInterpolation, Profiler and Sizing

`Planner` and `Sizing` are two views of one loop. `Planner` has its API calls and
counts latencies in multiples of the profiled ones; `Sizing` has the numbers: it
takes a profile from the Job that measured it, through the ConfigMap, into a
planner, and follows three intervals of it to the plan.

A predictor is its `data_buffer`. `AddDataPoint` drops leading zeros and trims to
the window (`data_buffer[-n:]`, so a window of 0 trims nothing); `PredictNext` is
the set of values the next prediction may have: the last one, and from
`MinimumDataPoints` entries on whatever a fitted model may extrapolate
(`Forecasts`), or the last one again, where the fit fails. `observed` is history:
what this process saw of the load, against which the buffers are judged.

scipy's cubic surfaces are arbitrary functions of the prefill length and of the
grid cell (`Surfaces`), negative and zero values included: cubic interpolation
overshoots. A surface is a table over `PromptLengths`, which has to hold every
length the settings, loads and forecasts may lead to (`SurfaceAssumption`); for TLC
these are a handful, and `Int` is always enough. What the code adds is modelled: which points the constructors accept
(`Fits`, `Fails`), clipping to the profiled lengths, the nearest grid position
(`GridIndex`, a set at a tie) and the right-most column within the latency target
(`BestColumn`). A profile between `Fits` and `Fails` has its decode points in
line but for the rounding of the stored digits; `Load` may then succeed.
KV usage is counted in units of 1/(2 * max_kv_tokens), which makes every point of
the sweep an integer.

| `phase` | Code | Steps |
|---|---|---|
| `prefill` | `profile_prefill:101` | `ProfilePrefill`, `StartDecode` |
| `decode` | `profile_decode:177` | `ProfileDecode`, `SkipDecode`, `DivideByZero`, `ReadConfigMap` |
| `replace`, `create` | `_update_configmap:259-266` | `ReplaceConfigMap`, `CreateConfigMap`, `CreateRefused` |
| `stored` | `run_profiling:327` | `ExitPod` |

A failed benchmark leaves its point out (`Drop`) and the sweep goes on. A pod that
fails is replaced once (`backoffLimit`), and its successor begins again; a pod
that dies between storing and exiting counts as failed too. Float noise is a
choice here as well: a concurrency may come out one too small (`Concurrencies`),
an exact quotient may be rounded up (`Ceilings`).

### Operator

`pc` names the next write of a reconcile. A typed `Get` reads a cache, so it is
folded into the write after it; `Lagging` names the kinds whose cache may be
behind the store. The manager has the default client (`cmd/main.go`), so this is so
of ServiceAccounts, ClusterRoleBindings, ConfigMaps, Jobs and Deployments alike.
`misjudged` is history: the AutoScalers about whose binding the cache was wrong when
the operator last went on because of it (`Aside`), in `cleanupClusterResources` or in
`ensureRBAC`. No action reads it; the properties about bindings need it to name their
exceptions. AutoScaler and RBG are unstructured and are read live.
`outdated` stands for the resourceVersion of the worker's copy: any change of
the object in between makes its next `Update` a conflict. `RequeueAfter`, a
retry after an error and the event of a status write all put the key back on the
queue; when it is served is left open. `Report(phase)` decides the phase,
`WriteStatus` writes it.

A reconcile always sends an Update of an existing Deployment: the comparison at
`controller.go:545` is between a desired template and one the API server filled
with defaults. Creating the Job relies on the flags of the profiler image: the
repository's own (`rbg_profiler/main.py`) or one a spec names.

## 3. Runs

| Run | Instance | Question |
|---|---|---|
| `plan` | specs with 1..3 replicas and 1..2 GPUs (minima above maxima too), hand-made configurations up to 4 replicas, 3 GPUs per engine, budget 0..9, demands -1..4 | Does every plan keep the bounds it must keep? |
| `planner_safety` | roles prefill (adapted), decode, router; three layouts; loads idle/1/2, the last doubling the TTFT; a forecast of -1/5; dry run or not; 2 disturbances | Can crashes, edits, outages and reordering make a command go wrong? |
| `planner_converges` | the same without forecasts and dry run | Does the group come to its plan and stay? |
| `sizing` | six settings of the profiler (adequate; too short a context; one concurrency per length; granularity 8, 1, 0), a profile supplied by a user before or during the Job; constant, ARIMA and Prophet with windows 0, 1 and 2 for a minimum of 2; loads idle, slow and busy, outages of one query or all; surfaces that grow and that overshoot below zero; 3 intervals, 1 mishap | Do profile, predictors and arithmetic lead to a plan that carries the load? |
| `operator` | one AutoScaler, two specs, an invalid one, RBGs of 1 or 2 GPUs, all five informer caches lagging, 2 disturbances | Can a binding be orphaned or missing in any way but a cache that is behind, a stale planner be reported Ready? Does every AutoScaler get its planner, or go? |
| `hard_ceiling`, `patch_race`, `no_traffic`, `shared_binding`, `orphan_binding`, `profiler_args`, `profile_compatible` | small | The seven disagreements of section 6 |

Bounds and why they are enough:

* `MaxFaults`: two disturbances suffice for every two-party race here (a change
  between a read and a write, and a crash after the write), and for an AutoScaler
  that is deleted and created again before the caches have followed. A behaviour may
  pause anywhere between them. The safety properties of planner and operator are
  theorems for any number of disturbances.
* Two scaled roles and one more cover confusion of one role with another; the
  layouts move the indices of both and drop the third. One role has an adapter,
  one is patched, so both paths are taken.
* `MaxAttempts = 2` stands for 180 attempts: one that fails and counts on, one
  that is the last.
* Three loads make both roles move, both ways, and a correction factor other
  than 1. Demands from -1 to one above the largest maximum meet every branch of
  the clamps; budgets from 0 to more than the smaller maxima bind or not.
* Three intervals are one more than the minimum of a forecast and than the larger
  window: a buffer is short, warm and trimmed in one behaviour. One mishap (a
  failed benchmark, a killed pod or planner, an outage, a user's create or delete)
  falls at any point from the first benchmark to the last interval; two of them
  together are left to the proofs of section 4, which bound neither their number nor
  the intervals.
* Three grid positions have a column to the left and to the right of the best
  one, and rows below, at and above a predicted context.
* One AutoScaler is enough where nothing is shared; the binding and the cluster
  role are, and `shared_binding` has two.

Fairness. The planner: its process is scheduled (weak fairness of its steps,
`Restart` included, which the kubelet does) and the RBG controller gets to every
change it has to roll out. The operator: one worker serves every key on its
queue (strong fairness of `Reconcile(k)`, as the worker is busy in between with
other keys), informers catch up, garbage collector and profiler get to their
work. That a reconcile comes back at all rests on `RequeueAfter` with the spec's
`scalingInterval`, which is taken to be positive. Nothing is assumed of users, traffic or failures except that the bound
ends them.

Two conditions of the liveness properties are worth reading:

* `Converges` holds because `Capacity` admits every plan. A command for more GPUs
  than the cluster has is never rolled out, the group never becomes Ready, and
  `set_replicas` scales only Ready groups, so no later interval takes it back.
* `Provisions` excludes an AutoScaler whose profiling Job ended without leaving
  its ConfigMap (`Profilable`): no code path runs the Job again.

Deadlock is checked in every run but four: `operator` and `orphan_binding`, which rest
when the disturbances are over and the AutoScaler is gone or its spec invalid, and
`sizing` and `profile_compatible`, which rest after the last interval, or when the Job
has ended and nobody creates or deletes its ConfigMap.

## 4. Proofs

TLAPS proves the following for every value of the constants that satisfies the
modules' named assumptions.

* `ReplicaMathProofs`: lemmas about products, clamps, the rounding and `Plans`.
  The key one is `SlackNeverBinds`: where the budget admits both maxima, the
  clamped demand is the plan. `CutParts` says what the two kinds of rounding in
  a cut return, whichever side a float tie falls on; from it, `ShareBounded`
  (cut prefill engines exceed their share of the budget by half an engine),
  `RestNeverRaises` and `ShareNeverRaises`.
* `ReplicaPlanProofs`: `TypeCorrectness`, `DeployedPlannerIsIndependent`,
  `DeployedPlannerKeepsMaxima`, `DeployedPlannerIsMonotone`. The invariant is
  `TypeOK` with `plan \in Plans(cfg, raw)`; the operator's budget is slack by
  arithmetic (`OperatorConfigSlack`), so every deployed planner is covered by
  `SlackNeverBinds`, whatever its spec. For configurations made by hand,
  `BudgetOvershootIsBounded` and `BudgetNeverRaises` split on whether the demand
  fits and on which minimum binds. The second has one extreme case, prefill cut to
  its minimum and the rest exactly half a decode engine above an integer, in which
  only Python's rounding of ties to even keeps decode at its demand.
* `SizingProofs`: `PredictorsAreAligned`, `ForecastsAreWarm` and
  `SweepStaysOnGrid`. The first two share one invariant: the types of buffers and
  history; `HistoriesAligned`; that the last entry of `observed` is
  `last_metrics`; and that a decision in memory was made from the buffers
  as they are now, which is what ties a plan to the warm-up of the predictors that
  led to it. A process that ends loses buffers, history and decision together. The
  third is an invariant of the profiler alone (`GridInv`): the concurrency index stays within
  the sweep, so that a concurrency is at most `MaxConcurrency`, and what its requests
  hold of the cache half-way through their generation, `(isl + osl / 2) * concurrency`,
  at most all of it. It says nothing of the peak, `(isl + osl) * concurrency`, which
  `MaxConcurrency` is computed from. Settings, surfaces, loads, forecasts and the
  number of intervals and mishaps are arbitrary.
* `ProfileProofs`: `WholeProfilesLoad`. Its invariant says that what the running pod
  has measured covers the sweeps up to its position, if it lost no benchmark
  (`Progress`), and that a ConfigMap marked whole covers all of them (`Stored`); a
  new pod has nothing to cover, which is why pods that die half-way do no harm. The
  rest is about a profile that covers the sweeps: four lengths in context make
  four different points (`LongEnough`, by the pigeonhole principle), two
  concurrencies at one context length and one at another are out of line
  (`OutOfLine`), and the second concurrency differs from the first although float
  noise may lower it (`FirstConcurrencies`).
* `DemandProofs`: `SizingIsTyped` and what a plan does for the load it was made for,
  `PrefillCapacitySuffices`, `DecodeCapacitySuffices` and `NoDecodeEngineSpare`. The
  invariant `Sized` follows the numbers from the sweeps and the ConfigMap
  (`ProfileTyped`) through the interpolators (`InterpolatorsTyped`) to measurements
  and correction factors (`MeasuresTyped`: denominators stay positive, whatever
  fails or overshoots), and `Computed` keeps that a plan in memory comes from the
  demands of its prediction; without it the theorems about a decision would have
  nothing to say about how it was made. The argument is the same for both roles:
  `RoundedUp` (a ceiling is at least its quotient, and less than one above it, on
  either side of a float tie), `SlackGrants` (the slack budget and the clamp leave
  a demand alone that the maximum allows) and `EnoughEngines`. For decode,
  `BestColumnFound` says that the column read is the greatest of those within the
  target, and `MeetingIsWithinSla` that being within it means a corrected ITL within
  the SLA; that no engine is spare rests on `GrowsAlongRow`, that a row which never
  falls from one column to the next is greatest at the last. `GreatestEntry`, that
  finitely many integers have a greatest, is proved by a least counterexample.
  Assumptions: user profiles have a positive `max_kv_tokens`, and
  `SurfaceAssumption`, which only says that every surface has a value where it is read.
* `PlannerProofs`: the inductive invariant is
  `IInv == TypeOK /\ PatchAim /\ BoundedTargets`. `PatchAim`: at the patch, the
  index points at the role of the target.
  `BoundedTargets`: under a slack budget every pending target is within the
  bounds of its role. Both are needed because the properties are about the write
  and the facts come from steps before it. From it follow `TypeCorrectness`,
  `CommandsReachTheirRole`, `WritesKeepBounds` and, step by step over the actions
  of the process and its surroundings, `PlannerKeepsContract` (the refinement of
  `ScalingContract`). `DryRunIsPassive` has an invariant of its own: in dry run
  the loop never leaves idle, adjust and down.
  Assumption: `"race" \notin Faults`, nobody reorders the roles between the GET
  that locates a role and the patch. `patch_race` shows what happens without it.
* `OperatorProofs`: the inductive invariant is `TypeOK` with what the worker may
  rely on between two calls: `Objects` (an object that is there has a UID and a
  spec somebody wrote), `Copy` (its copy is the object until a conflict awaits
  it), `ValidCopy`, `Charged` (from the finalizer to the Deployment the object
  holds the finalizer) and `ReadyBacked` (a planner about to be reported Ready is
  the one the copy asked for). `ReadyMeansCurrent` follows from `Copy` and
  `ReadyBacked`. For the rest, `Effects` sums every step up by what it does to
  charge, grants, deployments and `misjudged`. `NothingOrphaned` adds `Released` (the
  finalizer is about to go only when the binding is gone, or was not shown) and
  assumes nothing more. `OperatorKeepsPromise`, the refinement of `Provisioning`, adds
  `Granted` (a planner is deployed with its binding, or one the cache showed),
  `ShownOwn` (what the cache shows of a binding is about the AutoScaler of its name)
  and `KnownSteps`, how the cache follows the store.
  `UniqueNamesKeepBindings` proves `ReadyIsBound`: a binding goes only in the clean-up
  of its own AutoScaler (`BoundKept`), what is cleaned up is being deleted and stays
  so (`Dying`, `ObjectSteps`), and Ready is reported with the binding in place
  (`Assured`).
  Assumption of these last two: no two AutoScalers of one name; they share a binding,
  as `shared_binding` shows. None of the theorems assumes anything of `Lagging` or
  depends on `MaxFaults`.

Every invariant and action property and both refinements of the passing runs are
theorems. Only model-checked are `Converges`, `Provisions` and `CleansUp`: liveness
under fairness is out of the prover's reach.

No module declares a recursive operator.

## 5. What the runs and proofs show

* A planner deployed by the operator keeps to maxReplicas for every spec, even
  with minReplicas above it, and never trades engines of one role for the other:
  the budget branch is dead code for it. Only planners configured by hand reach
  it.
* Through crashes, failed calls, edits and reordering between any two calls, a
  command reaches its own role, except in the one window of `patch_race`.
* The loop repairs what it gets wrong: half-made decisions, counts edited by
  hand, scale-downs caused by an outage, all within a few intervals.
* The finalizer protocol leaves no binding behind but for one reason: clean-up looks
  for it in a cache that need not show it yet (`orphan_binding`). Failed calls,
  restarts, edits and a deletion at any point of `ensureRBAC` leave none.
* The same cache may still show the binding a predecessor's clean-up deleted: an
  AutoScaler deleted and created again then turns Ready without one. `ReadyIsBound`
  says that it happens in no other way, `Provisions` that it does not last: the next
  reconcile with a cache that has caught up makes the binding.
* A group deleted and applied again between an adapter's 404 and the GET after it is
  patched past its adapter (`AdapterNotFound`, `LocateRole`), which takes the count
  back; the next interval scales the adapter.
* Updates of the status carry the resourceVersion the reconcile started from, and
  this alone keeps `ReadyIsCurrent`.
* Through outages, idle intervals and restarts the three predictors describe the
  same intervals, although each drops its leading zeros by itself: what one lacks
  was zero.
* A window below the minimum of ARIMA or Prophet makes it a constant predictor for
  good (`WarmUp`); nothing says so.
* Where throughput falls again at high KV usage, the right-most column within the
  latency target is not the best one: the plan meets the target with more engines
  than needed. `NoSpareDecode` holds where throughput grows, and says so.
* A throughput that interpolation takes below zero makes the demand negative, and
  the role goes to its minimum under full load; the exceptions in `PrefillCarries`
  and `DecodeMeetsSla` are these cases and no others.

## 6. Where code and documentation disagree

Each is a run of its own whose counterexample is a behaviour of the code.

* `hard_ceiling`: the GPU "ceiling" of `docs/blog.md:192` is rounded past
  (`planner.py:332`).
* `patch_race`: the JSON patch addresses a role by a position read earlier
  (`rbg_connector.py:140`).
* `no_traffic`: an interval without metrics is not skipped (`prometheus.py:117`),
  contrary to `planner.py:379` and `docs/sop.md:305`.
* `shared_binding`: the ClusterRoleBinding is not per AutoScaler
  (`controller.go:285`, comment at 328).
* `orphan_binding`: the ClusterRoleBinding is not always "cleaned via finalizer"
  (`controller.go:365`, same comment): deleted before the cache shows its binding, an
  AutoScaler goes and the binding stays.
* `profiler_args`: the operator's profiling Job never succeeds with the
  repository's profiler (`controller.go:447`, `rbg_profiler/main.py:28-42`).
* `profile_compatible`: a Job completes with a profile on which every planner ends
  (`profiler.py:102`): with the default points and a context of 1536 tokens three
  prefill lengths are left, and `perf_interpolation.py:58` needs four.
  `CompleteProfileLoads` states under which settings this cannot happen.

Seen while reading, and not worth a run:

* `decode.minReplicas` (README's "Minimum decode replicas") is dropped;
  `MIN_REPLICAS` is prefill's (`controller.go:564`).
* The budget branch knows no maxima (`planner.py:333`): what rounding takes from
  prefill may put decode above `max_decode_replicas`.
* `status.lastTransitionTime`, "the last time the phase transitioned"
  (`roleautoscaler_types.go:202`), is rewritten by every reconcile; the write is
  a change, so a Ready AutoScaler is reconciled again at once until two of them
  fall into one second.
* Ready says "Planner deployment is running" (`controller.go:606`) without a look
  at its pods, and Failed is reported while a Job still has a retry
  (`controller.go:413`).
* An invalid spec is found before a deletion (`controller.go:103`), so an
  AutoScaler edited into one can no longer be deleted.
* The profiling ConfigMap has no owner and no record of what was measured
  (`controller.go:384`).
* `roleName` of decode defaults to "prefill" in the CRD
  (`roleautoscaler_types.go:62`), to "decode" in the operator.

## 7. Not modelled, and why

* Gauges and GPU hours: nothing reads them back.
* PromQL text and label filters: wording; a query is its answer, or a failure.
* The fit of ARIMA and Prophet and scipy's cubic interpolation: numerical
  libraries, arbitrary values here.
* `UPDATE_CONFIGMAP=false`, which the operator never sets, and `.npz` profiles, which
  nothing here writes: the ConfigMap a planner mounts holds JSON.
* Generated deep copies, charts, CRDs and manifests: static.
* `Operator` and `Planner` in one state space: to one planner a second one, while
  a Deployment rolls, is a user who edits replica counts at any time
  (`EditReplicas`), and everything else they share is the Deployment's environment
  (`OperatorConfig`). Who wins while two planners run is not stated; the code does
  not say.
