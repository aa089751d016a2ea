---------------------------- MODULE ReplicaPlan ----------------------------
(***************************************************************************)
(* The planner's decisions, interval after interval, under a configuration *)
(* fixed when the process starts: the demand moves freely, each interval   *)
(* turns it into a plan.  Connector, Prometheus and RBG are left to module *)
(* Planner; here only the numbers matter.                                  *)
(***************************************************************************)
EXTENDS ReplicaMath

CONSTANTS
  Specs,      \* AutoScaler specs (with the GPU counts read from the RBG) the operator may deploy for
  EnvConfigs, \* configurations of a planner started by hand, from env vars and flags
  Demands     \* the raw engine counts one role may call for

ASSUME SpecsAssumption ==
  \A s \in Specs :
    /\ s \in [prefillMinReplicas : Int, prefillMaxReplicas : Int,
              decodeMinReplicas : Int, decodeMaxReplicas : Int,
              prefillGPUs : Int, decodeGPUs : Int]
    \* kubebuilder:validation:Minimum=1; getGPUsFromRBG keeps positive counts only
    /\ \A f \in DOMAIN s : s[f] >= 1

ASSUME EnvConfigsAssumption == EnvConfigs \subseteq PlannerConfigs

ASSUME DemandsAssumption == Demands \subseteq Int

VARIABLES
  cfg,     \* PlannerConfig of the running planner
  origin,  \* the AutoScaler spec it was deployed for, or ByHand
  raw,     \* demand of the last interval
  plan     \* plan of the last interval

vars == <<cfg, origin, raw, plan>>

ByHand == [byHand |-> TRUE]
Pairs == [prefill : Demands, decode : Demands]

Init ==
  /\ \/ \E s \in Specs : origin = s /\ cfg = OperatorConfig(s)
     \/ \E c \in EnvConfigs : origin = ByHand /\ cfg = c
  /\ raw \in Pairs
  /\ plan \in Plans(cfg, raw)

\* One adjustment interval: _compute_replica_requirements on a new demand.
Decide(demand) ==
  /\ raw' = demand
  /\ plan' \in Plans(cfg, demand)
  /\ UNCHANGED <<cfg, origin>>

Next == \E demand \in Pairs : Decide(demand)

Spec == Init /\ [][Next]_vars

-----------------------------------------------------------------------------
Deployed == origin # ByHand
Rebalanced == GpuTotal(cfg, WithinRole(cfg, raw)) > cfg.max_gpu_budget

\* Types; a plan never asks for a negative count, which the API server rejects.
TypeOK ==
  /\ origin \in Specs \cup {ByHand}
  /\ cfg \in IF Deployed THEN {OperatorConfig(origin)} ELSE EnvConfigs
  /\ raw \in Pairs
  /\ plan \in [prefill : Nat, decode : Nat]

\* A planner deployed by the operator never asks for more than maxReplicas of
\* a role, even for a spec whose minReplicas exceeds it: nothing in the CRD
\* rules that out, and only the order of max() and min() protects the maximum.
DeployedWithinMaxima ==
  Deployed => /\ plan.prefill <= origin.prefillMaxReplicas
              /\ plan.decode  <= origin.decodeMaxReplicas

\* Under the budget the operator computes (the sum of both maxima in GPUs) the
\* proportional branch is dead: each role is served independently of the
\* other's demand, and a plan is exactly the clamped demand.
DeployedIndependent ==
  Deployed => /\ ~Rebalanced
              /\ plan = WithinRole(cfg, raw)

\* A plan the budget cut down overshoots it by less than half an engine of a
\* role, but for the engines MIN_REPLICAS forces on the planner.
OvershootBounded ==
  Rebalanced =>
    LET over == 2 * (GpuTotal(cfg, plan) - cfg.max_gpu_budget)
        p == cfg.prefill_engine_num_gpu
        d == cfg.decode_engine_num_gpu
    IN  \/ plan.decode > cfg.min_replicas /\ over <= d
        \/ plan.decode = cfg.min_replicas /\ plan.prefill > cfg.min_replicas
             /\ over <= p + 2 * cfg.min_replicas * d
        \/ plan.decode = cfg.min_replicas /\ plan.prefill = cfg.min_replicas

\* Cutting down never raises a role above what its own demand called for,
\* provided a prefill engine is no larger than a decode engine.  (Otherwise the
\* GPUs freed by rounding one prefill engine away buy extra decode engines.)
CutNeverRaises ==
  Rebalanced =>
    LET clamped == WithinRole(cfg, raw)
    IN  /\ plan.prefill <= AtLeast(clamped.prefill, cfg.min_replicas)
        /\ cfg.prefill_engine_num_gpu <= cfg.decode_engine_num_gpu
             => plan.decode <= AtLeast(clamped.decode, cfg.min_replicas)

\* A role whose demand rises, while the other's stands still, is never planned
\* fewer engines for it by a deployed planner.
DeployedMonotone ==
  [][\A r \in {"prefill", "decode"} :
       Deployed /\ raw'[r] >= raw[r] => plan'[r] >= plan[r]]_vars

-----------------------------------------------------------------------------
\* docs/blog.md: "The planner enforces a hard GPU ceiling to prevent runaway
\* scaling"; here only where the ceiling leaves room for the minimum of both
\* roles, so that rounding alone is to blame.
HardGpuCeiling ==
  cfg.min_replicas * (cfg.prefill_engine_num_gpu + cfg.decode_engine_num_gpu) <= cfg.max_gpu_budget
    => GpuTotal(cfg, plan) <= cfg.max_gpu_budget
=============================================================================
