---------------------------- MODULE ReplicaMath ----------------------------
(***************************************************************************)
(* The arithmetic of Planner._compute_replica_requirements                 *)
(* (python/planner/rbg_planner/planner.py): how a raw demand, the number   *)
(* of engines of each role that the profiling data calls for, becomes the  *)
(* plan that is sent to the RoleBasedGroup, and how the operator turns an  *)
(* AutoScaler spec into the configuration the arithmetic runs with.        *)
(*                                                                         *)
(* A demand and a plan are records [prefill, decode].  The raw demand is   *)
(* the result of the two math.ceil calls; it is an integer of any sign,    *)
(* because a forecast may be negative.                                     *)
(***************************************************************************)
EXTENDS Integers

\* PlannerConfig as far as the arithmetic reads it.
PlannerConfigs ==
  {c \in [min_replicas : Nat, max_prefill_replicas : Nat, max_decode_replicas : Nat,
          prefill_engine_num_gpu : Nat, decode_engine_num_gpu : Nat, max_gpu_budget : Nat] :
     c.prefill_engine_num_gpu > 0 /\ c.decode_engine_num_gpu > 0}

AtLeast(n, floor)  == IF n < floor THEN floor ELSE n          \* max(n, floor)
AtMost(n, ceiling) == IF n > ceiling THEN ceiling ELSE n      \* min(n, ceiling)

\* Mutant: rounded up.
RoundUp(num, den) == -((-num) \div den)

\* Python 3's round() of the quotient num/den, den > 0: to the nearest
\* integer, a tie to the even neighbour.  num/den is exact at a tie.
RoundHalfEven(num, den) ==
  LET q == num \div den
      twice == 2 * (num % den)
  IN  IF twice < den \/ (twice = den /\ q % 2 = 0) THEN q ELSE q + 1

\* round(n * (budget / total)) of planner.py: the inner quotient is rounded to
\* a float before the product, so a tie may fall on either side of it.
NearestTo(num, den) ==
  {q \in {num \div den, num \div den + 1} :
     /\ 2 * (num - q * den) <= den
     /\ 2 * (q * den - num) <= den}

GpuTotal(cfg, plan) ==
  plan.prefill * cfg.prefill_engine_num_gpu + plan.decode * cfg.decode_engine_num_gpu

\* Mutant: the maximum first.
MaximumFirst(cfg, raw) ==
  [prefill |-> AtLeast(AtMost(raw.prefill, cfg.max_prefill_replicas), cfg.min_replicas),
   decode  |-> AtLeast(AtMost(raw.decode,  cfg.max_decode_replicas), cfg.min_replicas)]

\* "Enforce min/max per role": the minimum first, the maximum last, so that
\* the maximum wins when the two are inverted.
WithinRole(cfg, raw) ==
  [prefill |-> AtMost(AtLeast(raw.prefill, cfg.min_replicas), cfg.max_prefill_replicas),
   decode  |-> AtMost(AtLeast(raw.decode,  cfg.min_replicas), cfg.max_decode_replicas)]

\* "Enforce GPU budget": prefill is scaled in proportion, decode gets the rest.
ScaledPrefill(cfg, plan) ==
  {AtLeast(p, cfg.min_replicas) :
     p \in NearestTo(plan.prefill * cfg.max_gpu_budget, GpuTotal(cfg, plan))}

\* Mutants: prefill engines counted as one GPU each; no minimum.
RestInEngines(cfg, p) ==
  AtLeast(RoundHalfEven(cfg.max_gpu_budget - p, cfg.decode_engine_num_gpu), cfg.min_replicas)

RestUnbounded(cfg, p) ==
  RoundHalfEven(cfg.max_gpu_budget - p * cfg.prefill_engine_num_gpu, cfg.decode_engine_num_gpu)

DecodeForRest(cfg, p) ==
  AtLeast(RoundHalfEven(cfg.max_gpu_budget - p * cfg.prefill_engine_num_gpu,
                        cfg.decode_engine_num_gpu),
          cfg.min_replicas)

FitToBudget(cfg, plan) ==
  IF GpuTotal(cfg, plan) > cfg.max_gpu_budget
  THEN {[prefill |-> p, decode |-> DecodeForRest(cfg, p)] : p \in ScaledPrefill(cfg, plan)}
  ELSE {plan}

\* The plans a raw demand may lead to (several only at a rounding tie).
Plans(cfg, raw) == FitToBudget(cfg, WithinRole(cfg, raw))

\* The counts the minimum and the maximum of a role leave to it.
RoleBounds(cfg, max) == AtMost(cfg.min_replicas, max)..max

\* A budget that admits both maxima never binds.
SlackBudget(cfg) ==
  GpuTotal(cfg, [prefill |-> cfg.max_prefill_replicas,
                 decode |-> cfg.max_decode_replicas]) <= cfg.max_gpu_budget

\* Mutant: the budget counts replicas instead of GPUs.
BudgetInReplicas(spec) ==
  [min_replicas           |-> spec.prefillMinReplicas,
   max_prefill_replicas   |-> spec.prefillMaxReplicas,
   max_decode_replicas    |-> spec.decodeMaxReplicas,
   prefill_engine_num_gpu |-> spec.prefillGPUs,
   decode_engine_num_gpu  |-> spec.decodeGPUs,
   max_gpu_budget         |-> spec.prefillMaxReplicas + spec.decodeMaxReplicas]

\* Of the fields of the AutoScaler spec and the RBG, those that reach the
\* planner's arithmetic: ensurePlannerDeployment computes the budget,
\* buildPlannerEnv writes the environment the planner reads.
OperatorConfig(spec) ==
  [min_replicas           |-> spec.prefillMinReplicas,
   max_prefill_replicas   |-> spec.prefillMaxReplicas,
   max_decode_replicas    |-> spec.decodeMaxReplicas,
   prefill_engine_num_gpu |-> spec.prefillGPUs,
   decode_engine_num_gpu  |-> spec.decodeGPUs,
   max_gpu_budget         |-> spec.prefillMaxReplicas * spec.prefillGPUs
                                + spec.decodeMaxReplicas * spec.decodeGPUs]
=============================================================================
