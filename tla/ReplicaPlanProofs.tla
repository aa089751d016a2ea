------------------------- MODULE ReplicaPlanProofs -------------------------
(***************************************************************************)
(* Theorems of ReplicaPlan: what every decision of the planner satisfies,  *)
(* for all specs, configurations and demands.                              *)
(***************************************************************************)
EXTENDS ReplicaPlan, ReplicaMathProofs

\* Whatever an AutoScaler spec says, the operator derives a well-formed
\* configuration whose budget is the GPUs of the two maxima: it never binds.
LEMMA OperatorConfigSlack ==
  ASSUME NEW s \in Specs
  PROVE  /\ OperatorConfig(s) \in PlannerConfigs
         /\ SlackBudget(OperatorConfig(s))
  <1>1. /\ s.prefillMinReplicas \in Nat
        /\ s.prefillMaxReplicas \in Nat /\ s.decodeMaxReplicas \in Nat
        /\ s.prefillGPUs \in Nat /\ s.prefillGPUs > 0
        /\ s.decodeGPUs \in Nat /\ s.decodeGPUs > 0
    BY SpecsAssumption
  <1> DEFINE budget == s.prefillMaxReplicas * s.prefillGPUs + s.decodeMaxReplicas * s.decodeGPUs
  <1>2. budget \in Nat
    <2>1. s.prefillMaxReplicas * s.prefillGPUs \in Nat /\ s.decodeMaxReplicas * s.decodeGPUs \in Nat
      BY <1>1
    <2> QED BY <2>1
  <1>3. OperatorConfig(s) \in PlannerConfigs
    BY <1>1, <1>2 DEF OperatorConfig, PlannerConfigs
  <1>4. GpuTotal(OperatorConfig(s),
                 [prefill |-> OperatorConfig(s).max_prefill_replicas,
                  decode |-> OperatorConfig(s).max_decode_replicas]) = budget
    BY DEF GpuTotal, OperatorConfig
  <1>5. OperatorConfig(s).max_gpu_budget = budget
    BY DEF OperatorConfig
  <1>6. SlackBudget(OperatorConfig(s))
    <2> HIDE DEF budget
    <2> QED BY <1>2, <1>4, <1>5 DEF SlackBudget
  <1> QED
    BY <1>3, <1>6

\* Both kinds of configuration are well-formed.
LEMMA ConfigTyped ==
  ASSUME TypeOK
  PROVE  /\ cfg \in PlannerConfigs
         /\ Deployed => SlackBudget(cfg)
         /\ raw \in IntPair
  BY OperatorConfigSlack, EnvConfigsAssumption, DemandsAssumption
  DEF TypeOK, Deployed, Pairs, IntPair

-----------------------------------------------------------------------------
\* The invariant of the loop: the types, and that the plan in force is one the
\* arithmetic gives for the demand in force.
IInv == TypeOK /\ plan \in Plans(cfg, raw)

\* The loop invariant is inductive.
LEMMA Invariance == Spec => []IInv
  <1> USE DEF NatPair
  <1>1. Init => IInv
    <2> SUFFICES ASSUME Init PROVE IInv
      OBVIOUS
    <2>1. /\ origin \in Specs \cup {ByHand}
          /\ cfg \in IF Deployed THEN {OperatorConfig(origin)} ELSE EnvConfigs
      <3>1. CASE \E s \in Specs : origin = s /\ cfg = OperatorConfig(s)
        <4>1. PICK s \in Specs : origin = s /\ cfg = OperatorConfig(s)
          BY <3>1
        <4>2. s # ByHand
          BY SpecsAssumption DEF ByHand
        <4> QED BY <4>1, <4>2 DEF Deployed
      <3>2. CASE \E c \in EnvConfigs : origin = ByHand /\ cfg = c
        BY <3>2 DEF Deployed
      <3> QED BY <3>1, <3>2 DEF Init
    <2>2. cfg \in PlannerConfigs /\ raw \in IntPair
      BY <2>1, OperatorConfigSlack, EnvConfigsAssumption, DemandsAssumption
      DEF Init, Deployed, Pairs, IntPair
    <2>3. plan \in NatPair
      BY <2>2, PlanTyped DEF Init
    <2> QED BY <2>1, <2>3 DEF Init, IInv, TypeOK
  <1>2. IInv /\ [Next]_vars => IInv'
    <2> SUFFICES ASSUME IInv, [Next]_vars PROVE IInv'
      OBVIOUS
    <2>1. ASSUME NEW demand \in Pairs, Decide(demand) PROVE IInv'
      <3>1. cfg \in PlannerConfigs
        BY ConfigTyped DEF IInv
      <3>2. demand \in IntPair
        BY DemandsAssumption DEF Pairs, IntPair
      <3>3. plan' \in NatPair
        BY <2>1, <3>1, <3>2, PlanTyped DEF Decide
      <3> QED BY <2>1, <3>3 DEF IInv, TypeOK, Decide, Deployed
    <2>2. CASE UNCHANGED vars
      BY <2>2 DEF IInv, TypeOK, Deployed, vars
    <2> QED BY <2>1, <2>2 DEF Next
  <1> QED
    BY <1>1, <1>2, PTL DEF Spec

\* The types hold for any set of specs, configurations and demands; in
\* particular a plan never asks for a negative count.
THEOREM TypeCorrectness == Spec => []TypeOK
  <1>1. IInv => TypeOK
    BY DEF IInv
  <1> QED
    BY <1>1, Invariance, PTL

\* The operator's budget never binds: a deployed planner's plan is the clamped
\* demand of each role, untouched by the other's.
THEOREM DeployedPlannerIsIndependent == Spec => []DeployedIndependent
  <1>1. IInv => DeployedIndependent
    BY ConfigTyped, SlackNeverBinds DEF IInv, DeployedIndependent, Rebalanced
  <1> QED
    BY <1>1, Invariance, PTL

\* No deployed planner exceeds maxReplicas of a role, whatever the spec, the one
\* whose minReplicas is above it included.
THEOREM DeployedPlannerKeepsMaxima == Spec => []DeployedWithinMaxima
  <1>1. IInv => DeployedWithinMaxima
    <2> SUFFICES ASSUME IInv, Deployed
                 PROVE  /\ plan.prefill <= origin.prefillMaxReplicas
                        /\ plan.decode <= origin.decodeMaxReplicas
      BY DEF DeployedWithinMaxima
    <2>1. /\ origin \in Specs /\ cfg = OperatorConfig(origin)
          /\ cfg \in PlannerConfigs /\ raw \in IntPair
      BY ConfigTyped DEF IInv, TypeOK, Deployed
    <2>2. plan = WithinRole(cfg, raw)
      BY ConfigTyped, SlackNeverBinds DEF IInv
    <2>3. /\ plan.prefill \in RoleBounds(cfg, cfg.max_prefill_replicas)
          /\ plan.decode \in RoleBounds(cfg, cfg.max_decode_replicas)
      BY <2>1, <2>2, ClampTyped
    <2>4. plan.prefill <= cfg.max_prefill_replicas /\ plan.decode <= cfg.max_decode_replicas
      BY <2>1, <2>3 DEF RoleBounds, AtMost, PlannerConfigs
    <2> QED
      BY <2>1, <2>4 DEF OperatorConfig
  <1> QED
    BY <1>1, Invariance, PTL

\* A deployed planner answers a rising demand with no fewer engines: the action
\* property of the runs, from the loop invariant before and after the step.
THEOREM DeployedPlannerIsMonotone == Spec => DeployedMonotone
  <1> DEFINE Monotone == \A r \in {"prefill", "decode"} :
                           Deployed /\ raw'[r] >= raw[r] => plan'[r] >= plan[r]
  <1>1. IInv /\ IInv' /\ [Next]_vars => [Monotone]_vars
    <2> SUFFICES ASSUME IInv, IInv', NEW demand \in Pairs, Decide(demand), Deployed
                 PROVE  \A r \in {"prefill", "decode"} : raw'[r] >= raw[r] => plan'[r] >= plan[r]
      BY DEF Next
    <2>1. /\ cfg \in PlannerConfigs /\ SlackBudget(cfg)
          /\ raw \in IntPair
      BY ConfigTyped DEF IInv
    <2>2. raw' \in IntPair
      BY DemandsAssumption DEF Decide, Pairs, IntPair
    <2>3. plan = WithinRole(cfg, raw) /\ plan' = WithinRole(cfg, raw')
      BY <2>1, <2>2, SlackNeverBinds DEF IInv, Decide
    <2>4. /\ cfg.min_replicas \in Nat
          /\ cfg.max_prefill_replicas \in Nat /\ cfg.max_decode_replicas \in Nat
          /\ raw.prefill \in Int /\ raw.decode \in Int
          /\ raw'.prefill \in Int /\ raw'.decode \in Int
      BY <2>1, <2>2 DEF PlannerConfigs, IntPair
    <2>5. raw'.prefill >= raw.prefill => plan'.prefill >= plan.prefill
      BY <2>3, <2>4 DEF WithinRole, AtLeast, AtMost
    <2>6. raw'.decode >= raw.decode => plan'.decode >= plan.decode
      BY <2>3, <2>4 DEF WithinRole, AtLeast, AtMost
    <2> QED
      BY <2>5, <2>6
  <1> QED
    BY <1>1, Invariance, PTL DEF Spec, DeployedMonotone

-----------------------------------------------------------------------------
(* What the GPU budget does to a plan; the invariant is IInv again *)

\* The numbers of a rebalanced plan, named once for both theorems: w is the
\* clamped demand, all its GPUs, used those of its prefill engines.
LEMMA Rebalancing ==
  ASSUME IInv, Rebalanced
  PROVE  LET w == WithinRole(cfg, raw)
             all == GpuTotal(cfg, w)
             g == cfg.prefill_engine_num_gpu
             h == cfg.decode_engine_num_gpu
         IN  /\ w.prefill \in Nat /\ w.decode \in Nat /\ all \in Nat
             /\ g \in Nat \ {0} /\ h \in Nat \ {0}
             /\ cfg.min_replicas \in Nat /\ cfg.max_gpu_budget \in Nat
             /\ all > cfg.max_gpu_budget /\ all = w.prefill * g + w.decode * h
             /\ w.prefill * g \in Nat /\ w.decode * h \in Nat
             /\ plan.prefill \in Nat /\ plan.decode \in Nat
  <1> DEFINE w == WithinRole(cfg, raw)
             g == cfg.prefill_engine_num_gpu
             h == cfg.decode_engine_num_gpu
  <1>1. cfg \in PlannerConfigs /\ raw \in IntPair
    BY ConfigTyped DEF IInv
  <1>2. /\ g \in Nat \ {0} /\ h \in Nat \ {0}
        /\ cfg.min_replicas \in Nat /\ cfg.max_gpu_budget \in Nat
    BY <1>1 DEF PlannerConfigs
  <1>3. w \in NatPair
    BY <1>1, ClampTyped
  <1>4. w.prefill \in Nat /\ w.decode \in Nat
    <2> HIDE DEF w
    <2> QED BY <1>3 DEF NatPair
  <1>5. w.prefill * g \in Nat /\ w.decode * h \in Nat
    <2> HIDE DEF w, g, h
    <2> QED BY <1>2, <1>4
  <1>6. GpuTotal(cfg, w) = w.prefill * g + w.decode * h
    BY DEF GpuTotal
  <1>7. GpuTotal(cfg, w) > cfg.max_gpu_budget
    BY DEF Rebalanced
  <1>8. plan.prefill \in Nat /\ plan.decode \in Nat
    BY DEF IInv, TypeOK
  <1>9. GpuTotal(cfg, w) \in Nat
    <2> HIDE DEF w, g, h
    <2> QED BY <1>5, <1>6
  <1> QED
    BY <1>2, <1>4, <1>5, <1>6, <1>7, <1>8, <1>9

\* A plan the budget cut down overshoots it by less than half an engine, but
\* for what the minima force on it.
THEOREM BudgetOvershootIsBounded == Spec => []OvershootBounded
  <1>1. IInv => OvershootBounded
    <2> SUFFICES ASSUME IInv, Rebalanced PROVE OvershootBounded
      BY DEF OvershootBounded
    <2> DEFINE w == WithinRole(cfg, raw)
               all == GpuTotal(cfg, w)
               budget == cfg.max_gpu_budget
               min == cfg.min_replicas
               g == cfg.prefill_engine_num_gpu
               h == cfg.decode_engine_num_gpu
               over == 2 * (GpuTotal(cfg, plan) - budget)
    <2>1. /\ w.prefill \in Nat /\ w.decode \in Nat /\ all \in Nat
          /\ g \in Nat \ {0} /\ h \in Nat \ {0}
          /\ min \in Nat /\ budget \in Nat
          /\ all > budget /\ all = w.prefill * g + w.decode * h
          /\ w.prefill * g \in Nat /\ w.decode * h \in Nat
          /\ plan.prefill \in Nat /\ plan.decode \in Nat
      BY Rebalancing
    <2>2. PICK n \in Int, k \in Int :
            /\ plan.prefill = AtLeast(n, min)
            /\ plan.decode = AtLeast(k, min)
            /\ 2 * (n * all - w.prefill * budget) <= all
            /\ 2 * (k * h - (budget - plan.prefill * g)) <= h
      <3>1. cfg \in PlannerConfigs /\ raw \in IntPair
        BY ConfigTyped DEF IInv
      <3>2. plan \in Plans(cfg, raw)
        BY DEF IInv
      <3>3. GpuTotal(cfg, WithinRole(cfg, raw)) > cfg.max_gpu_budget
        BY DEF Rebalanced
      <3> QED BY <3>1, <3>2, <3>3, CutParts
    <2>3. over = 2 * ((plan.prefill * g + plan.decode * h) - budget)
      BY DEF GpuTotal
    <2>4. CASE k > min
      <3>1. plan.decode = k
        <4> HIDE DEF w, all, budget, min, g, h, over
        <4> QED BY <2>1, <2>2, <2>4 DEF AtLeast
      <3>2. over <= h
        <4>1. plan.prefill * g \in Int /\ k * h \in Int
          <5> HIDE DEF g, h
          <5> QED BY <2>1
        <4> HIDE DEF g, h, over, budget, w, all
        <4> QED BY <2>1, <2>2, <2>3, <3>1, <4>1
      <3> QED BY <2>4, <3>1, <3>2 DEF OvershootBounded
    <2>5. CASE k <= min /\ n > min
      <3>1. plan.decode = min /\ plan.prefill = n
        <4> HIDE DEF w, all, budget, min, g, h, over
        <4> QED BY <2>1, <2>2, <2>5 DEF AtLeast
      <3>2. 2 * (n * g) - 2 * budget <= g
        <4> DEFINE used == w.prefill * g
        <4>1. used \in Nat /\ used <= all /\ all > 0
          <5> HIDE DEF w, all, budget, g, h
          <5> QED BY <2>1
        <4> HIDE DEF w, all, budget, g, h
        <4> QED BY <2>1, <2>2, <4>1, ShareBounded
      <3>3. over <= g + 2 * min * h
        <4>1. n * g \in Int /\ min * h \in Int
          <5> HIDE DEF g, h, min
          <5> QED BY <2>1
        <4>2. 2 * min * h = 2 * (min * h)
          <5> HIDE DEF h, min
          <5> QED BY <2>1
        <4> HIDE DEF g, h, over, budget, w, all, min
        <4> QED BY <2>1, <2>3, <3>1, <3>2, <4>1, <4>2
      <3> QED BY <2>5, <3>1, <3>3 DEF OvershootBounded
    <2>6. CASE k <= min /\ n <= min
      <3>1. plan.decode = min /\ plan.prefill = min
        <4> HIDE DEF w, all, budget, min, g, h, over
        <4> QED BY <2>1, <2>2, <2>6 DEF AtLeast
      <3> QED BY <3>1 DEF OvershootBounded
    <2> QED
      BY <2>1, <2>4, <2>5, <2>6
  <1> QED
    BY <1>1, Invariance, PTL

\* The budget only takes away: no role is planned more engines than its demand
\* calls for, where a prefill engine is no larger than a decode engine.
THEOREM BudgetNeverRaises == Spec => []CutNeverRaises
  <1>1. IInv => CutNeverRaises
    <2> SUFFICES ASSUME IInv, Rebalanced PROVE CutNeverRaises
      BY DEF CutNeverRaises
    <2> DEFINE w == WithinRole(cfg, raw)
               all == GpuTotal(cfg, w)
               budget == cfg.max_gpu_budget
               min == cfg.min_replicas
               g == cfg.prefill_engine_num_gpu
               h == cfg.decode_engine_num_gpu
    <2>1. /\ w.prefill \in Nat /\ w.decode \in Nat /\ all \in Nat
          /\ g \in Nat \ {0} /\ h \in Nat \ {0}
          /\ min \in Nat /\ budget \in Nat
          /\ all > budget /\ all = w.prefill * g + w.decode * h
          /\ plan.prefill \in Nat
      BY Rebalancing
    <2>2. PICK n \in Int, k \in Int :
            /\ plan.prefill = AtLeast(n, min)
            /\ plan.decode = AtLeast(k, min)
            /\ 2 * (n * all - w.prefill * budget) <= all
            /\ 2 * (w.prefill * budget - n * all) <= all
            /\ 2 * (k * h - (budget - plan.prefill * g)) <= h
            /\ 2 * (k * h - (budget - plan.prefill * g)) = h => k % 2 = 0
      <3>1. cfg \in PlannerConfigs /\ raw \in IntPair
        BY ConfigTyped DEF IInv
      <3>2. plan \in Plans(cfg, raw)
        BY DEF IInv
      <3>3. GpuTotal(cfg, WithinRole(cfg, raw)) > cfg.max_gpu_budget
        BY DEF Rebalanced
      <3> QED BY <3>1, <3>2, <3>3, CutParts
    <2>3. plan.prefill <= AtLeast(w.prefill, min)
      <3>1. n <= w.prefill
        <4> HIDE DEF w, all, budget
        <4> QED BY <2>1, <2>2, ShareNeverRaises
      <3> HIDE DEF w, all, budget, min, g, h
      <3> QED BY <2>1, <2>2, <3>1 DEF AtLeast
    <2>4. ASSUME g <= h PROVE plan.decode <= AtLeast(w.decode, min)
      <3>1. n <= plan.prefill
        <4> HIDE DEF w, all, budget, min, g, h
        <4> QED BY <2>1, <2>2 DEF AtLeast
      <3>2. k <= w.decode
        <4> HIDE DEF w, all, budget, min, g, h
        <4> QED BY <2>1, <2>2, <2>4, <3>1, RestNeverRaises
      <3> HIDE DEF w, all, budget, min, g, h
      <3> QED BY <2>1, <2>2, <3>2 DEF AtLeast
    <2> QED
      BY <2>3, <2>4 DEF CutNeverRaises
  <1> QED
    BY <1>1, Invariance, PTL
=============================================================================
