--------------------------- MODULE PlannerProofs ---------------------------
(***************************************************************************)
(* Theorems of Planner, for every RoleBasedGroup, configuration, load and  *)
(* number of disturbances.                                                 *)
(*                                                                         *)
(* The properties of the loop need to know, at each point of it, what the  *)
(* locals of set_replicas still have to do with the group: PatchAim says   *)
(* that the index found by the last GET points at the role of the target,  *)
(* BoundedTargets that no target was made up after the decision.           *)
(***************************************************************************)
EXTENDS Planner, ReplicaMathProofs, SequenceTheorems

TargetReplica == [role_name : {Prefill, Decode}, desired_replicas : Nat]

\* The part of TypeOK about the process.
ProcessOK ==
  /\ pc \in {"validate", "waiting", "idle", "adjust", "fetch", "scale", "locate", "patch",
            "down"}
  /\ attempts \in 0..(MaxAttempts - 1)
  /\ last_metrics \in Metrics
  /\ p_correction_factor \in Nat /\ d_correction_factor \in Nat
  /\ snapshot = NoSnapshot \/ snapshot \in [layout : Layouts, replicas : [Roles -> Nat]]
  /\ TargetsOK
  /\ role_index \in Nat

\* Between the GET and the patch, the index points at the role of the target.
PatchAim ==
  "race" \notin Faults /\ pc = "patch" =>
    /\ role_index \in 1..Len(layout)
    /\ layout[role_index] = Head(targets).role_name

InBounds(t) == Bounded(t.role_name, t.desired_replicas)

\* Every target still to be treated is within the bounds of its role.
BoundedTargets ==
  SlackBudget(Config) => \A i \in 1..Len(targets) : InBounds(targets[i])

IInv == TypeOK /\ PatchAim /\ BoundedTargets

-----------------------------------------------------------------------------
(* The group *)

\* Everything anybody but the planner does to the group preserves its types.
LEMMA GroupTyped ==
  ASSUME GroupTypeOK,
         \/ Controller \/ ApplyGroup
         \/ EditReplicas \/ EditLayout \/ LosePod \/ DeleteGroup
  PROVE  GroupTypeOK'
  <1>1. ASSUME NEW r \in Roles, SyncAdapter(r) PROVE GroupTypeOK'
    BY <1>1 DEF GroupTypeOK, SyncAdapter
  <1>2. ASSUME NEW r \in Roles, RollOut(r) PROVE GroupTypeOK'
    BY <1>2 DEF GroupTypeOK, RollOut, Settled
  <1>3. CASE NoticeChange
    BY <1>3 DEF GroupTypeOK, NoticeChange
  <1>4. CASE ReportReady
    BY <1>4 DEF GroupTypeOK, ReportReady
  <1>5. CASE ApplyGroup
    BY <1>5, RolesAssumption DEF GroupTypeOK, ApplyGroup
  <1>6. CASE EditReplicas
    <2>1. PICK r \in Listed, n \in 0..MaxReplicas :
            IF r \in Adapted
            THEN adapter' = [adapter EXCEPT ![r] = n] /\ UNCHANGED replicas
            ELSE replicas' = [replicas EXCEPT ![r] = n] /\ UNCHANGED adapter
      BY <1>6 DEF EditReplicas
    <2>2. n \in Nat
      BY RolesAssumption
    <2> QED BY <1>6, <2>1, <2>2 DEF GroupTypeOK, EditReplicas
  <1>7. CASE EditLayout
    BY <1>7 DEF GroupTypeOK, EditLayout
  <1>8. CASE LosePod
    <2>1. PICK r \in Listed : ready[r] > 0 /\ ready' = [ready EXCEPT ![r] = @ - 1]
      BY <1>8 DEF LosePod
    <2>2. r \in Roles
      BY RolesAssumption DEF GroupTypeOK, Listed, ToSet
    <2>3. ready[r] \in Nat /\ ready[r] - 1 \in Nat
      BY <2>1, <2>2 DEF GroupTypeOK
    <2>4. ready' \in [Roles -> Nat]
      BY <2>1, <2>3 DEF GroupTypeOK
    <2> QED BY <1>8, <2>4 DEF GroupTypeOK, LosePod, Settled
  <1>9. CASE DeleteGroup
    BY <1>9 DEF GroupTypeOK, DeleteGroup
  <1> QED
    BY <1>1, <1>2, <1>3, <1>4, <1>5, <1>6, <1>7, <1>8, <1>9 DEF Controller

\* A listed role is where RoleIndex says it is.
LEMMA RoleIndexFinds ==
  ASSUME layout \in Layouts, NEW r \in Listed
  PROVE  RoleIndex(r) \in 1..Len(layout) /\ layout[RoleIndex(r)] = r
  <1>1. layout \in Seq(Roles)
    BY RolesAssumption
  <1>2. \E i \in 1..Len(layout) : layout[i] = r
    BY <1>1 DEF Listed, ToSet
  <1> QED
    BY <1>2 DEF RoleIndex

-----------------------------------------------------------------------------
(* The building blocks of the process's steps *)

\* A query that fails or finds nothing yields a number all the same.
LEMMA MeasuredTyped ==
  ASSUME traffic \in Traffic, NEW failed
  PROVE  Measured(failed) \in Metrics
  <1>1. traffic \in Metrics
    BY PlannerAssumption DEF Metrics
  <1>2. DOMAIN traffic = {"num_req", "isl", "osl", "ttft", "itl"}
    BY <1>1 DEF Metrics
  <1>3. \A m \in DOMAIN traffic : traffic[m] \in Nat
    BY <1>1, <1>2 DEF Metrics
  <1> QED
    BY <1>2, <1>3 DEF Metrics, Measured

\* The state a restarted process begins with.
LEMMA FreshTyped ==
  ASSUME Fresh, pc \in {"validate", "idle", "down"}
  PROVE  ProcessOK /\ PatchAim /\ BoundedTargets
  <1>1. attempts \in 0..(MaxAttempts - 1)
    BY PlannerAssumption DEF Fresh
  <1>2. last_metrics \in Metrics
    BY DEF Fresh, NoMetrics, Metrics
  <1> QED
    BY <1>1, <1>2 DEF Fresh, ProcessOK, TargetsOK, PatchAim, BoundedTargets

\* A crash forgets everything the invariant speaks of.
LEMMA CrashTyped ==
  ASSUME Crash
  PROVE  (ProcessOK /\ PatchAim /\ BoundedTargets)'
  <1>1. Fresh' /\ (pc \in {"validate", "idle", "down"})'
    BY DEF Crash, Forget, Fresh
  <1>2. attempts' \in 0..(MaxAttempts - 1)
    BY <1>1, PlannerAssumption DEF Fresh
  <1>3. last_metrics' \in Metrics
    BY <1>1 DEF Fresh, NoMetrics, Metrics
  <1> QED
    BY <1>1, <1>2, <1>3 DEF Fresh, ProcessOK, TargetsOK, PatchAim, BoundedTargets

\* The end of an interval leaves no target behind.
LEMMA EndIntervalTyped ==
  ASSUME ProcessOK, EndInterval,
         UNCHANGED <<attempts, last_metrics>>,
         p_correction_factor' \in Nat, d_correction_factor' \in Nat
  PROVE  (ProcessOK /\ PatchAim /\ BoundedTargets)'
  BY DEF ProcessOK, EndInterval, TargetsOK, PatchAim, BoundedTargets

\* The loop of set_replicas goes on with the rest of the targets, or ends.
LEMMA NextTargetTyped ==
  ASSUME ProcessOK, BoundedTargets, targets # <<>>, NextTarget
  PROVE  /\ (ProcessOK /\ PatchAim /\ BoundedTargets)'
         /\ targets' = Tail(targets)
  <1>1. targets \in Seq(TargetReplica) /\ Len(targets) \in 1..2
    <2>1. targets \in Seq(TargetReplica)
      BY DEF ProcessOK, TargetsOK, TargetReplica
    <2>2. Len(targets) <= 2
      BY DEF ProcessOK, TargetsOK
    <2>3. Len(targets) \in Nat /\ Len(targets) # 0
      BY <2>1, EmptySeq
    <2>4. \A n \in Nat : n # 0 /\ n <= 2 => n \in 1..2
      OBVIOUS
    <2> QED BY <2>1, <2>2, <2>3, <2>4
  <1>2. CASE Len(targets) = 1
    <2>1. Tail(targets) \in Seq(TargetReplica) /\ Len(Tail(targets)) = 0
      BY <1>1, <1>2
    <2>2. Tail(targets) = <<>>
      BY <2>1, EmptySeq
    <2> QED
      BY <1>2, <2>2, EndIntervalTyped DEF NextTarget, EndInterval, ProcessOK
  <1>3. CASE Len(targets) # 1
    <2>1. /\ Tail(targets) \in Seq(TargetReplica)
          /\ Len(Tail(targets)) = 1
          /\ Tail(targets)[1] = targets[2]
      BY <1>1, <1>3
    <2>2. pc' = "scale" /\ targets' = Tail(targets) /\ role_index' = 0
          /\ UNCHANGED <<snapshot, attempts, last_metrics, p_correction_factor, d_correction_factor>>
      BY <1>3 DEF NextTarget
    <2>3. targets' # <<>>
      <3>1. Len(targets') = 1
        BY <2>1, <2>2
      <3>2. Len(<<>>) = 0
        BY EmptySeq
      <3> QED BY <3>1, <3>2
    <2>4. TargetsOK'
      BY <2>1, <2>2, <2>3 DEF TargetsOK, TargetReplica
    <2>5. BoundedTargets'
      BY <1>1, <1>3, <2>1, <2>2 DEF BoundedTargets, InBounds, Bounded, PrefillBounds, DecodeBounds
    <2> QED
      BY <2>2, <2>4, <2>5 DEF ProcessOK, PatchAim
  <1> QED
    BY <1>2, <1>3

\* The targets of a decision are typed, and within the bounds of their roles if
\* the budget is slack.
LEMMA DecisionTyped ==
  ASSUME NEW raw \in IntPair, NEW plan \in Plans(Config, raw)
  PROVE  /\ TargetReplicas(plan) \in Seq(TargetReplica)
         /\ Len(TargetReplicas(plan)) = 2
         /\ TargetReplicas(plan) # <<>>
         /\ SlackBudget(Config) =>
              /\ plan.prefill \in PrefillBounds
              /\ plan.decode \in DecodeBounds
              /\ \A i \in 1..Len(TargetReplicas(plan)) : InBounds(TargetReplicas(plan)[i])
  <1>1. Config \in PlannerConfigs
    BY PlannerAssumption
  <1>2. plan \in NatPair
    BY <1>1, PlanTyped
  <1>3. /\ Target(Prefill, plan.prefill) \in TargetReplica
        /\ Target(Decode, plan.decode) \in TargetReplica
    BY <1>2 DEF NatPair, Target, TargetReplica
  <1>4. SlackBudget(Config) =>
          plan.prefill \in PrefillBounds /\ plan.decode \in DecodeBounds
    BY <1>1, SlackNeverBinds, ClampTyped DEF PrefillBounds, DecodeBounds
  <1>5. SlackBudget(Config) =>
          InBounds(Target(Prefill, plan.prefill)) /\ InBounds(Target(Decode, plan.decode))
    BY <1>4 DEF InBounds, Bounded, Target
  <1> QED
    BY <1>3, <1>4, <1>5 DEF TargetReplicas

\* What the correction factors and the metrics call for is a pair of integers.
LEMMA DemandTyped ==
  ASSUME NEW m \in Metrics, NEW p \in Nat, NEW d \in Nat
  PROVE  RawDemand(m, p, d) \in IntPair
  <1>1. m.num_req \in Nat /\ m.isl \in Nat /\ m.osl \in Nat
    BY DEF Metrics
  <1>2. m.num_req * m.isl * p \in Int
    <2>1. m.num_req * m.isl \in Int
      BY <1>1
    <2> QED BY <2>1
  <1>3. m.num_req * m.osl * (IF d <= 0 THEN 1 ELSE d) \in Int
    <2>1. m.num_req * m.osl \in Int
      BY <1>1
    <2> QED BY <2>1
  <1> QED
    BY <1>2, <1>3 DEF RawDemand, IntPair

-----------------------------------------------------------------------------
(* The steps of the process *)

ProcessInv == ProcessOK /\ PatchAim /\ BoundedTargets

\* TypeOK is the types of the group, of the process and of the surroundings.
LEMMA TypeOKParts ==
  TypeOK <=> /\ GroupTypeOK /\ ProcessOK
             /\ no_operation \in Modes /\ traffic \in Traffic /\ faults \in 0..MaxFaults
  BY DEF TypeOK, ProcessOK

\* ObserveMetrics, whichever queries fail.
LEMMA ObserveTyped ==
  ASSUME IInv, NEW failed, ObserveMetrics(failed)
  PROVE  ProcessInv'
  <1>1. CASE no_operation \/ exists
    <2>1. last_metrics' \in Metrics
      BY <1>1, MeasuredTyped DEF IInv, TypeOK, ObserveMetrics
    <2>2. targets = <<>>
      BY DEF IInv, TypeOK, TargetsOK, ObserveMetrics
    <2> QED
      BY <1>1, <2>1, <2>2
      DEF ObserveMetrics, IInv, TypeOK, ProcessInv, ProcessOK, TargetsOK, PatchAim, BoundedTargets
  <1>2. CASE ~(no_operation \/ exists)
    BY <1>2, CrashTyped DEF ObserveMetrics, ProcessInv
  <1> QED
    BY <1>1, <1>2

\* MakeAdjustments: a decision is a pair of typed targets within their bounds.
LEMMA AdjustTyped ==
  ASSUME IInv, MakeAdjustments
  PROVE  ProcessInv'
  <1>1. last_metrics \in Metrics /\ p_correction_factor' \in Nat /\ d_correction_factor' \in Nat
    BY DEF IInv, TypeOK, MakeAdjustments, UpdateCorrectionFactors, Metrics
  <1>2. PICK raw \in {RawDemand(last_metrics, p_correction_factor', d_correction_factor')} \cup Forecasts :
          \E plan \in Plans(Config, raw) : Apply(plan)
    BY DEF MakeAdjustments
  <1>3. raw \in IntPair
    BY <1>1, <1>2, DemandTyped, PlannerAssumption DEF IntPair
  <1>4. PICK plan \in Plans(Config, raw) : Apply(plan)
    BY <1>2
  <1>5. \/ pc' = "idle" /\ targets' = <<>>
        \/ pc' = "fetch" /\ targets' = TargetReplicas(plan)
    BY <1>4 DEF Apply
  <1>6. TargetsOK' /\ BoundedTargets'
    <2>1. CASE pc' = "idle" /\ targets' = <<>>
      BY <2>1 DEF TargetsOK, BoundedTargets
    <2>2. CASE pc' = "fetch" /\ targets' = TargetReplicas(plan)
      <3>1. targets' \in Seq(TargetReplica) /\ Len(targets') = 2 /\ targets' # <<>>
        BY <2>2, <1>3, <1>4, DecisionTyped
      <3>2. TargetsOK'
        BY <2>2, <3>1 DEF TargetsOK, TargetReplica
      <3>3. BoundedTargets'
        BY <2>2, <1>3, <1>4, DecisionTyped
        DEF BoundedTargets, InBounds, Bounded, PrefillBounds, DecodeBounds
      <3> QED BY <3>2, <3>3
    <2> QED BY <1>5, <2>1, <2>2
  <1> QED
    BY <1>1, <1>5, <1>6
    DEF MakeAdjustments, IInv, TypeOK, ProcessInv, ProcessOK, PatchAim

\* At a point of set_replicas there is a target to treat.
LEMMA TargetPending ==
  ASSUME IInv, pc \in {"fetch", "scale", "locate", "patch"}
  PROVE  /\ targets # <<>> /\ targets \in Seq(TargetReplica)
         /\ Head(targets) \in TargetReplica
         /\ Head(targets) = targets[1] /\ 1 \in 1..Len(targets)
         /\ SlackBudget(Config) => InBounds(Head(targets))
  <1>1. targets # <<>> /\ targets \in Seq(TargetReplica)
    BY DEF IInv, TypeOK, TargetsOK, TargetReplica
  <1>2. Head(targets) \in TargetReplica /\ Head(targets) = targets[1]
    BY <1>1, HeadTailProperties
  <1>3. 1 \in 1..Len(targets)
    <2>1. Len(targets) \in Nat /\ Len(targets) # 0
      BY <1>1, EmptySeq
    <2>2. \A n \in Nat : n # 0 => 1 \in 1..n
      OBVIOUS
    <2> QED BY <2>1, <2>2
  <1> QED
    BY <1>1, <1>2, <1>3 DEF IInv, BoundedTargets

\* A step of set_replicas, from its GET to its last patch.
LEMMA SetReplicasTyped ==
  ASSUME IInv, SetReplicas
  PROVE  ProcessInv' /\ GroupTypeOK'
  <1>0. ProcessOK /\ GroupTypeOK
    BY TypeOKParts DEF IInv
  <1>1. CASE FetchGroup
    <2>1. GroupTypeOK'
      BY <1>0, <1>1 DEF FetchGroup, group, GroupTypeOK
    <2>2. CASE Crash
      BY <2>1, <2>2, CrashTyped DEF ProcessInv
    <2>3. CASE EndInterval
               /\ UNCHANGED <<attempts, last_metrics, p_correction_factor, d_correction_factor>>
      BY <1>0, <2>1, <2>3, EndIntervalTyped DEF ProcessInv, ProcessOK
    <2>4. CASE /\ pc' = "scale"
               /\ snapshot' = [layout |-> layout, replicas |-> replicas]
               /\ UNCHANGED <<attempts, last_metrics, p_correction_factor, d_correction_factor,
                              targets, role_index>>
      <3>1. snapshot' \in [layout : Layouts, replicas : [Roles -> Nat]]
        BY <2>4, <1>0 DEF GroupTypeOK
      <3>2. TargetsOK'
        BY <1>0, <1>1, <2>4 DEF FetchGroup, ProcessOK, TargetsOK
      <3> QED
        BY <1>0, <2>1, <2>4, <3>1, <3>2
        DEF IInv, ProcessInv, ProcessOK, PatchAim, BoundedTargets
    <2> QED BY <1>1, <2>2, <2>3, <2>4 DEF FetchGroup
  <1>2. CASE AlreadyThere
    <2>1. NextTarget /\ UNCHANGED group /\ targets # <<>>
      BY <1>2, TargetPending DEF AlreadyThere
    <2> QED
      BY <1>0, <2>1, NextTargetTyped DEF IInv, ProcessInv, group, GroupTypeOK
  <1>3. CASE ScaleAdapter
    <2>1. NextTarget /\ targets # <<>> /\ Head(targets).desired_replicas \in Nat
      BY <1>3, TargetPending DEF ScaleAdapter, TargetReplica
    <2>2. GroupTypeOK'
      BY <1>0, <1>3, <2>1 DEF ScaleAdapter, GroupTypeOK
    <2> QED
      BY <1>0, <2>1, <2>2, NextTargetTyped DEF IInv, ProcessInv
  <1>4. CASE LocateRole
    <2> DEFINE r == Head(targets).role_name
    <2>1. GroupTypeOK'
      BY <1>0, <1>4 DEF LocateRole, group, GroupTypeOK
    <2>2. CASE Crash
      BY <2>1, <2>2, CrashTyped DEF ProcessInv
    <2>3. CASE exists /\ r \in Listed
      <3>1. RoleIndex(r) \in 1..Len(layout) /\ layout[RoleIndex(r)] = r
        BY <1>0, <2>3, RoleIndexFinds DEF GroupTypeOK
      <3>2. /\ pc' = "patch" /\ role_index' = RoleIndex(r)
            /\ UNCHANGED <<attempts, last_metrics, p_correction_factor, d_correction_factor,
                           snapshot, targets>>
            /\ layout' = layout
        BY <1>4, <2>3 DEF LocateRole, group
      <3>3. PatchAim'
        BY <3>1, <3>2 DEF PatchAim
      <3>4. RoleIndex(r) \in Nat
        BY <3>1
      <3>5. TargetsOK'
        BY <1>0, <1>4, <3>2 DEF LocateRole, ProcessOK, TargetsOK
      <3> QED
        BY <1>0, <2>1, <3>2, <3>3, <3>4, <3>5 DEF IInv, ProcessInv, ProcessOK, BoundedTargets
    <2> QED BY <1>4, <2>2, <2>3 DEF LocateRole
  <1>5. CASE RoleNotFound
    BY <1>0, <1>5, CrashTyped DEF RoleNotFound, ProcessInv, group, GroupTypeOK
  <1>7. CASE AdapterNotFound
    BY <1>0, <1>7
    DEF AdapterNotFound, locals, group, GroupTypeOK, IInv, ProcessInv, ProcessOK, TargetsOK,
        PatchAim, BoundedTargets
  <1>6. CASE PatchRole
    <2>1. targets # <<>> /\ Head(targets).desired_replicas \in Nat
      BY <1>6, TargetPending DEF PatchRole, TargetReplica
    <2>2. CASE exists /\ role_index <= Len(layout)
      <3>1. GroupTypeOK'
        BY <1>0, <1>6, <2>1, <2>2 DEF PatchRole, GroupTypeOK
      <3> QED
        BY <1>0, <1>6, <2>1, <2>2, <3>1, NextTargetTyped DEF PatchRole, IInv, ProcessInv
    <2>3. CASE ~(exists /\ role_index <= Len(layout))
      BY <1>0, <1>6, <2>3, CrashTyped DEF PatchRole, ProcessInv, group, GroupTypeOK
    <2> QED BY <2>2, <2>3
  <1> QED
    BY <1>1, <1>2, <1>3, <1>4, <1>5, <1>6, <1>7 DEF SetReplicas

\* A step of the process outside set_replicas.
LEMMA OtherStepsTyped ==
  ASSUME IInv, \/ ValidateDeployment \/ WaitForReady \/ Restart \/ MakeAdjustments
               \/ SkipAdjustment \/ ObserveMetrics({})
  PROVE  ProcessInv' /\ GroupTypeOK'
  <1>0. ProcessOK /\ GroupTypeOK
    BY TypeOKParts DEF IInv
  <1>1. CASE ValidateDeployment
    <2>1. CASE Crash
      BY <1>0, <1>1, <2>1, CrashTyped DEF ValidateDeployment, ProcessInv, group, GroupTypeOK
    <2>2. CASE pc' = "waiting" /\ UNCHANGED locals
      BY <1>0, <1>1, <2>2
      DEF ValidateDeployment, locals, group, GroupTypeOK, IInv, ProcessInv, ProcessOK,
          TargetsOK, PatchAim, BoundedTargets
    <2> QED BY <1>1, <2>1, <2>2 DEF ValidateDeployment
  <1>2. CASE WaitForReady
    <2>1. CASE Crash
      BY <1>0, <1>2, <2>1, CrashTyped DEF WaitForReady, ProcessInv, group, GroupTypeOK
    <2>2. CASE ~Crash
      <3>1. /\ pc = "waiting" /\ pc' \in {"waiting", "idle"}
            /\ \/ attempts' = 0
               \/ attempts' = attempts + 1 /\ attempts + 1 < MaxAttempts
            /\ UNCHANGED <<last_metrics, p_correction_factor, d_correction_factor,
                           snapshot, targets, role_index, group>>
        BY <1>2, <2>2 DEF WaitForReady
      <3>2. attempts' \in 0..(MaxAttempts - 1)
        BY <1>0, <3>1, PlannerAssumption DEF ProcessOK
      <3>3. targets = <<>>
        BY <1>0, <3>1 DEF ProcessOK, TargetsOK
      <3> QED
        BY <1>0, <3>1, <3>2, <3>3
        DEF group, GroupTypeOK, IInv, ProcessInv, ProcessOK, TargetsOK, PatchAim, BoundedTargets
    <2> QED BY <2>1, <2>2
  <1>3. CASE Restart
    <2>1. pc' \in {"validate", "idle"} /\ pc = "down"
      BY <1>3 DEF Restart, Start
    <2>2. targets = <<>>
      BY <1>0, <2>1 DEF ProcessOK, TargetsOK
    <2> QED
      BY <1>0, <1>3, <2>1, <2>2
      DEF Restart, locals, group, GroupTypeOK, IInv, ProcessInv, ProcessOK, TargetsOK,
          PatchAim, BoundedTargets
  <1>4. CASE MakeAdjustments
    BY <1>0, <1>4, AdjustTyped DEF MakeAdjustments, group, GroupTypeOK
  <1>5. CASE SkipAdjustment
    BY <1>0, <1>5, EndIntervalTyped
    DEF SkipAdjustment, ProcessInv, ProcessOK, group, GroupTypeOK
  <1>6. CASE ObserveMetrics({})
    BY <1>0, <1>6, ObserveTyped DEF ObserveMetrics, group, GroupTypeOK
  <1> QED
    BY <1>1, <1>2, <1>3, <1>4, <1>5, <1>6

\* What the process does not do leaves its part of the invariant alone, as long
\* as the layout stands still between GET and patch.
LEMMA OthersKeepProcess ==
  ASSUME IInv, UNCHANGED process,
         layout' = layout \/ LayoutMayChange
  PROVE  ProcessInv'
  <1>1. ProcessOK /\ PatchAim /\ BoundedTargets
    BY TypeOKParts DEF IInv
  <1>2. ProcessOK' /\ BoundedTargets'
    BY <1>1
    DEF process, locals, ProcessOK, TargetsOK, BoundedTargets, InBounds, Bounded, PrefillBounds, DecodeBounds
  <1>3. PatchAim'
    BY <1>1 DEF process, locals, PatchAim, LayoutMayChange
  <1> QED
    BY <1>2, <1>3 DEF ProcessInv

\* A disturbance preserves the invariant.
LEMMA DisturbanceTyped ==
  ASSUME IInv, Disturbance
  PROVE  IInv'
  <1>0. /\ ProcessOK /\ GroupTypeOK
        /\ no_operation \in Modes /\ traffic \in Traffic
        /\ faults' \in 0..MaxFaults
    <2>1. faults \in 0..MaxFaults /\ faults < MaxFaults /\ faults' = faults + 1
      BY DEF IInv, TypeOK, Disturbance
    <2>2. MaxFaults \in Nat
      BY PlannerAssumption
    <2>3. faults' \in 0..MaxFaults
      BY <2>1, <2>2
    <2> QED BY <2>3, TypeOKParts DEF IInv
  <1>1. ASSUME ProcessInv', GroupTypeOK', no_operation' \in Modes, traffic' \in Traffic
        PROVE  IInv'
    BY <1>0, <1>1 DEF IInv, ProcessInv, ProcessOK, TypeOK
  <1>2. CASE Kill
    BY <1>0, <1>1, <1>2, CrashTyped DEF Kill, ProcessInv, group, GroupTypeOK
  <1>3. CASE Outage
    <2>1. PICK failed : ObserveMetrics(failed) /\ UNCHANGED <<no_operation, traffic>>
      BY <1>3 DEF Outage
    <2> QED
      BY <1>0, <1>1, <2>1, ObserveTyped DEF ObserveMetrics, group, GroupTypeOK
  <1>4. CASE CaughtException
    <2>1. p_correction_factor' \in Nat /\ d_correction_factor' \in Nat
      BY <1>0, <1>4 DEF CaughtException, ProcessOK, Metrics
    <2> QED
      BY <1>0, <1>1, <1>4, <2>1, EndIntervalTyped
      DEF CaughtException, ProcessInv, group, GroupTypeOK
  <1>5. CASE ChangeTraffic
    <2>1. UNCHANGED <<group, process>> /\ traffic' \in Traffic
      BY <1>5 DEF ChangeTraffic
    <2>2. ProcessInv'
      BY <2>1, OthersKeepProcess DEF group
    <2> QED
      BY <1>0, <1>1, <2>1, <2>2 DEF process, group, GroupTypeOK
  <1>6. CASE /\ EditReplicas \/ (LayoutMayChange /\ EditLayout) \/ LosePod \/ DeleteGroup
             /\ UNCHANGED <<process, traffic>>
    <2>1. GroupTypeOK'
      BY <1>0, <1>6, GroupTyped
    <2>2. layout' = layout \/ LayoutMayChange
      BY <1>6 DEF EditReplicas, LosePod, DeleteGroup
    <2>3. ProcessInv'
      BY <1>6, <2>2, OthersKeepProcess
    <2> QED
      BY <1>0, <1>1, <1>6, <2>1, <2>3 DEF process
  <1> QED
    BY <1>2, <1>3, <1>4, <1>5, <1>6 DEF Disturbance

-----------------------------------------------------------------------------
\* IInv is inductive.
LEMMA Invariance == Spec => []IInv
  <1>1. Init => IInv
    <2> SUFFICES ASSUME Init PROVE IInv
      OBVIOUS
    <2>1. GroupTypeOK
      BY RolesAssumption DEF Init, GroupInit, GroupTypeOK
    <2>2. ProcessOK /\ PatchAim /\ BoundedTargets
      BY FreshTyped DEF Init, Start
    <2>3. faults \in 0..MaxFaults
      BY PlannerAssumption DEF Init
    <2> QED BY <2>1, <2>2, <2>3, TypeOKParts DEF Init, IInv
  <1>2. IInv /\ [Next]_vars => IInv'
    <2> SUFFICES ASSUME IInv, [Next]_vars PROVE IInv'
      OBVIOUS
    <2>0. /\ ProcessOK /\ GroupTypeOK
          /\ no_operation \in Modes /\ traffic \in Traffic /\ faults \in 0..MaxFaults
      BY TypeOKParts DEF IInv
    <2>1. ASSUME ProcessInv', GroupTypeOK', UNCHANGED <<no_operation, traffic, faults>>
          PROVE  IInv'
      BY <2>0, <2>1 DEF IInv, ProcessInv, ProcessOK, TypeOK
    <2>2. CASE PlannerStep /\ UNCHANGED <<no_operation, traffic, faults>>
      <3>1. ProcessInv' /\ GroupTypeOK'
        BY <2>2, SetReplicasTyped, OtherStepsTyped DEF PlannerStep
      <3> QED BY <2>1, <2>2, <3>1
    <2>3. CASE Controller /\ UNCHANGED <<process, traffic, faults>>
      <3>1. layout' = layout
        BY <2>3 DEF Controller, SyncAdapter, RollOut, NoticeChange, ReportReady
      <3>2. ProcessInv' /\ GroupTypeOK'
        BY <2>0, <2>3, <3>1, OthersKeepProcess, GroupTyped
      <3> QED BY <2>1, <2>3, <3>2 DEF process
    <2>4. CASE LayoutMayChange /\ ApplyGroup /\ UNCHANGED <<process, traffic, faults>>
      <3>1. ProcessInv' /\ GroupTypeOK'
        BY <2>0, <2>4, OthersKeepProcess, GroupTyped
      <3> QED BY <2>1, <2>4, <3>1 DEF process
    <2>5. CASE Disturbance
      BY <2>5, DisturbanceTyped
    <2>6. CASE UNCHANGED vars
      <3>1. ProcessInv'
        BY <2>6, OthersKeepProcess DEF vars, group
      <3> QED BY <2>0, <2>1, <2>6, <3>1 DEF vars, group, process, GroupTypeOK
    <2> QED
      BY <2>2, <2>3, <2>4, <2>5, <2>6 DEF Next
  <1> QED
    BY <1>1, <1>2, PTL DEF Spec

\* The types, and the locals' relation to the program counter, hold whatever the
\* group, the load and the disturbances.
THEOREM TypeCorrectness == Spec => []TypeOK
  <1>1. IInv => TypeOK
    BY DEF IInv
  <1> QED
    BY <1>1, Invariance, PTL

-----------------------------------------------------------------------------
(* What a step of the process may do to the group *)

\* The effect of a command of the planner: the count of the target's role, or
\* its adapter's, becomes the target, and nothing else changes.
Commanded ==
  LET t == Head(targets) IN
  /\ targets # <<>> /\ targets' = Tail(targets)
  /\ \/ /\ t.role_name \in Adapted
        /\ adapter' = [adapter EXCEPT ![t.role_name] = t.desired_replicas]
        /\ UNCHANGED replicas
     \/ /\ replicas' = [replicas EXCEPT ![t.role_name] = t.desired_replicas]
        /\ UNCHANGED adapter

\* What a step of the process does to its targets, if it is no command.
Decided ==
  /\ targets = <<>>
  /\ \E raw \in IntPair : \E plan \in Plans(Config, raw) : targets' = TargetReplicas(plan)
Dropped == targets' = <<>>
Passed == targets # <<>> /\ targets' = Tail(targets)
Kept == UNCHANGED targets

\* A step of set_replicas commands, passes a target or drops them all.
LEMMA SetReplicasMoves ==
  ASSUME IInv, SetReplicas, "race" \notin Faults
  PROVE  \/ Commanded
         \/ (Dropped \/ Passed \/ Kept) /\ UNCHANGED <<replicas, adapter>>
  <1>0. ProcessOK
    BY TypeOKParts DEF IInv
  <1>1. CASE FetchGroup
    BY <1>1 DEF FetchGroup, Crash, Forget, EndInterval, group, Dropped, Kept
  <1>2. CASE AlreadyThere
    <2>1. NextTarget /\ UNCHANGED group /\ targets # <<>>
      BY <1>2, TargetPending DEF AlreadyThere
    <2> QED
      BY <1>0, <2>1, NextTargetTyped DEF IInv, Passed, group
  <1>3. CASE ScaleAdapter
    <2>1. NextTarget /\ targets # <<>>
      BY <1>3, TargetPending DEF ScaleAdapter
    <2> QED
      BY <1>0, <1>3, <2>1, NextTargetTyped DEF IInv, ScaleAdapter, Commanded
  <1>4. CASE LocateRole
    BY <1>4 DEF LocateRole, Crash, Forget, group, Dropped, Kept
  <1>5. CASE RoleNotFound
    BY <1>5 DEF RoleNotFound, Crash, Forget, group, Dropped
  <1>7. CASE AdapterNotFound
    BY <1>7 DEF AdapterNotFound, locals, group, Kept
  <1>6. CASE PatchRole
    <2>1. pc = "patch" /\ targets # <<>>
      BY <1>6, TargetPending DEF PatchRole
    <2>2. layout[role_index] = Head(targets).role_name
      BY <2>1 DEF IInv, PatchAim
    <2>3. CASE exists /\ role_index <= Len(layout)
      BY <1>0, <1>6, <2>1, <2>2, <2>3, NextTargetTyped DEF IInv, PatchRole, Commanded
    <2>4. CASE ~(exists /\ role_index <= Len(layout))
      BY <1>6, <2>4 DEF PatchRole, Crash, Forget, group, Dropped
    <2> QED BY <2>3, <2>4
  <1> QED
    BY <1>1, <1>2, <1>3, <1>4, <1>5, <1>6, <1>7 DEF SetReplicas

\* Every step of the system, as the targets and the counts see it.
LEMMA Moves ==
  ASSUME IInv, [Next]_vars, "race" \notin Faults
  PROVE  \/ UNCHANGED <<pc, targets>>
         \/ Commanded
         \/ (Decided \/ Dropped \/ Passed \/ Kept) /\ UNCHANGED <<replicas, adapter>>
  <1>0. ProcessOK
    BY TypeOKParts DEF IInv
  <1>1. ASSUME NEW failed, ObserveMetrics(failed)
        PROVE  (Dropped \/ Kept) /\ UNCHANGED <<replicas, adapter>>
    BY <1>1 DEF ObserveMetrics, Crash, Forget, Dropped, Kept, group
  <1>2. CASE PlannerStep
    <2>1. CASE ValidateDeployment
      BY <2>1 DEF ValidateDeployment, Crash, Forget, locals, group, Dropped, Kept
    <2>2. CASE WaitForReady
      BY <2>2 DEF WaitForReady, Crash, Forget, group, Dropped, Kept
    <2>3. CASE MakeAdjustments
      <3>1. pc = "adjust" /\ targets = <<>> /\ UNCHANGED group
        BY <1>0, <2>3 DEF MakeAdjustments, ProcessOK, TargetsOK
      <3>2. PICK raw \in {RawDemand(last_metrics, p_correction_factor', d_correction_factor')} \cup Forecasts :
              \E plan \in Plans(Config, raw) : Apply(plan)
        BY <2>3 DEF MakeAdjustments
      <3>3. last_metrics \in Metrics /\ p_correction_factor' \in Nat /\ d_correction_factor' \in Nat
        BY <2>3 DEF IInv, TypeOK, MakeAdjustments, UpdateCorrectionFactors, Metrics
      <3>4. raw \in IntPair
        BY <3>2, <3>3, DemandTyped, PlannerAssumption DEF IntPair
      <3>5. Dropped \/ \E plan \in Plans(Config, raw) : targets' = TargetReplicas(plan)
        BY <3>2 DEF Apply, Dropped
      <3> QED
        BY <3>1, <3>4, <3>5 DEF Decided, group
    <2>4. CASE SkipAdjustment
      BY <2>4 DEF SkipAdjustment, EndInterval, group, Dropped
    <2>5. CASE Restart
      BY <2>5 DEF Restart, locals, group, Kept
    <2> QED
      BY <1>1, <1>2, <2>1, <2>2, <2>3, <2>4, <2>5, SetReplicasMoves DEF PlannerStep
  <1>3. CASE Disturbance
    <2>1. CASE Kill
      BY <2>1 DEF Kill, Crash, Forget, group, Dropped
    <2>2. CASE Outage
      BY <1>1, <2>2 DEF Outage
    <2>3. CASE CaughtException
      BY <2>3 DEF CaughtException, EndInterval, group, Dropped
    <2>4. CASE UNCHANGED process
      BY <2>4 DEF process, locals
    <2> QED
      BY <1>3, <2>1, <2>2, <2>3, <2>4 DEF Disturbance, ChangeTraffic
  <1>4. CASE UNCHANGED process
    BY <1>4 DEF process, locals
  <1>5. CASE UNCHANGED vars
    BY <1>4, <1>5 DEF vars
  <1> QED
    BY <1>2, <1>3, <1>4, <1>5 DEF Next

\* A command is for a role of the group, and leaves its count on that role only.
LEMMA CommandedRole ==
  ASSUME IInv, Commanded
  PROVE  /\ Head(targets) \in TargetReplica /\ Head(targets).role_name \in Roles
         /\ \A r \in Roles : replicas'[r] # replicas[r] => Head(targets) = Target(r, replicas'[r])
         /\ \A r \in Adapted : adapter'[r] # adapter[r] => Head(targets) = Target(r, adapter'[r])
  <1> DEFINE t == Head(targets)
  <1>1. targets \in Seq(TargetReplica) /\ targets # <<>>
    BY DEF IInv, TypeOK, TargetsOK, TargetReplica, Commanded
  <1>2. t \in TargetReplica
    BY <1>1, HeadTailProperties
  <1>3. t.role_name \in Roles
    BY <1>2, PlannerAssumption DEF TargetReplica
  <1>4. t = Target(t.role_name, t.desired_replicas)
    BY <1>2 DEF TargetReplica, Target
  <1>5. replicas \in [Roles -> Nat] /\ adapter \in [Adapted -> Nat]
    BY DEF IInv, TypeOK, GroupTypeOK
  <1>6. ASSUME NEW r \in Roles, replicas'[r] # replicas[r]
        PROVE  t = Target(r, replicas'[r])
    <2>1. replicas' = [replicas EXCEPT ![t.role_name] = t.desired_replicas]
      BY <1>6 DEF Commanded
    <2>2. r = t.role_name /\ replicas'[r] = t.desired_replicas
      BY <1>5, <1>6, <2>1
    <2> QED BY <1>4, <2>2
  <1>7. ASSUME NEW r \in Adapted, adapter'[r] # adapter[r]
        PROVE  t = Target(r, adapter'[r])
    <2>1. adapter' = [adapter EXCEPT ![t.role_name] = t.desired_replicas]
      BY <1>7 DEF Commanded
    <2>2. r = t.role_name /\ adapter'[r] = t.desired_replicas
      BY <1>5, <1>7, <2>1
    <2> QED BY <1>4, <2>2
  <1> QED
    BY <1>2, <1>3, <1>6, <1>7

\* A command takes effect on the role it is meant for and on no other: the JSON
\* patch, which addresses a role by position, follows the role through any
\* reordering that spares the moment between GET and patch.
THEOREM CommandsReachTheirRole ==
  ASSUME "race" \notin Faults
  PROVE  Spec => OwnTargetOnly
  <1> DEFINE Own ==
        ProcessMoves =>
          /\ \A r \in Roles : replicas'[r] # replicas[r] => Head(targets) = Target(r, replicas'[r])
          /\ \A r \in Adapted : adapter'[r] # adapter[r] => Head(targets) = Target(r, adapter'[r])
  <1>1. IInv /\ [Next]_vars => [Own]_vars
    <2> SUFFICES ASSUME IInv, [Next]_vars PROVE Own
      OBVIOUS
    <2>1. CASE UNCHANGED <<pc, targets>>
      BY <2>1 DEF ProcessMoves
    <2>2. CASE UNCHANGED <<replicas, adapter>>
      BY <2>2
    <2>3. CASE Commanded
      BY <2>3, CommandedRole
    <2> QED
      BY <2>1, <2>2, <2>3, Moves
  <1> QED
    BY <1>1, Invariance, PTL DEF Spec, OwnTargetOnly

\* The count that decides over a role's size becomes the target's, but where the
\* command went past an adapter.
LEMMA CommandedControl ==
  ASSUME IInv, Commanded
  PROVE  \/ UNCHANGED Control
         \/ Control' = [Control EXCEPT ![Head(targets).role_name] = Head(targets).desired_replicas]
  <1> DEFINE t == Head(targets)
  <1>1. t.role_name \in Roles
    BY CommandedRole
  <1>2. replicas \in [Roles -> Nat] /\ adapter \in [Adapted -> Nat]
    BY DEF IInv, TypeOK, GroupTypeOK
  <1>3. Control' = [r \in Roles |-> IF r \in Adapted THEN adapter'[r] ELSE replicas'[r]]
    BY DEF Control
  <1>4. CASE t.role_name \in Adapted /\ UNCHANGED adapter
    <2>1. replicas' = [replicas EXCEPT ![t.role_name] = t.desired_replicas] \/ UNCHANGED replicas
      BY DEF Commanded
    <2>2. \A r \in Roles : r \notin Adapted => replicas'[r] = replicas[r]
      BY <1>2, <1>4, <2>1
    <2> QED BY <1>3, <1>4, <2>2 DEF Control
  <1>5. CASE ~(t.role_name \in Adapted /\ UNCHANGED adapter)
    <2>1. ASSUME NEW r \in Roles
          PROVE  (IF r \in Adapted THEN adapter'[r] ELSE replicas'[r])
                   = IF r = t.role_name THEN t.desired_replicas ELSE Control[r]
      <3>1. Control[r] = IF r \in Adapted THEN adapter[r] ELSE replicas[r]
        BY DEF Control
      <3> HIDE DEF t
      <3> QED BY <1>1, <1>2, <1>5, <3>1 DEF Commanded, t
    <2> QED BY <1>1, <1>3, <2>1 DEF Control
  <1> QED
    BY <1>4, <1>5

\* Under the operator's budget no command takes a role outside its bounds, and
\* the group's other roles are left alone.
THEOREM WritesKeepBounds ==
  ASSUME "race" \notin Faults
  PROVE  Spec => WritesWithinBounds
  <1> DEFINE Within ==
        SlackBudget(Config) /\ ProcessMoves =>
          /\ \A r \in Roles : replicas'[r] # replicas[r] => Bounded(r, replicas'[r])
          /\ \A r \in Adapted : adapter'[r] # adapter[r] => Bounded(r, adapter'[r])
  <1>1. IInv /\ [Next]_vars => [Within]_vars
    <2> SUFFICES ASSUME IInv, [Next]_vars PROVE Within
      OBVIOUS
    <2>1. CASE UNCHANGED <<pc, targets>>
      BY <2>1 DEF ProcessMoves
    <2>2. CASE UNCHANGED <<replicas, adapter>>
      BY <2>2
    <2>3. CASE Commanded
      <3> SUFFICES ASSUME SlackBudget(Config)
                   PROVE  /\ \A r \in Roles : replicas'[r] # replicas[r] => Bounded(r, replicas'[r])
                          /\ \A r \in Adapted : adapter'[r] # adapter[r] => Bounded(r, adapter'[r])
        OBVIOUS
      <3>1. targets # <<>> /\ pc \in {"fetch", "scale", "locate", "patch"}
        BY <2>3 DEF Commanded, IInv, TypeOK, TargetsOK
      <3>2. InBounds(Head(targets))
        BY <3>1, TargetPending
      <3>3. ASSUME NEW r, NEW n, Head(targets) = Target(r, n)
            PROVE  Bounded(r, n)
        BY <3>2, <3>3 DEF InBounds, Target
      <3> QED BY <2>3, <3>3, CommandedRole
    <2> QED
      BY <2>1, <2>2, <2>3, Moves
  <1> QED
    BY <1>1, Invariance, PTL DEF Spec, WritesWithinBounds

-----------------------------------------------------------------------------
(* Dry run *)

\* In dry run the process never gets to the code that talks to the RBG.
DryRunLoop == no_operation => pc \in {"idle", "adjust", "down"}

\* In dry run the process changes nothing of the group.
THEOREM DryRunIsPassive == Spec => DryRunTouchesNothing
  <1>1. Init => DryRunLoop
    BY DEF Init, Start, DryRunLoop
  <1>2. DryRunLoop /\ [Next]_vars
          => /\ DryRunLoop'
             /\ no_operation /\ ProcessMoves => UNCHANGED group
    <2> SUFFICES ASSUME DryRunLoop, [Next]_vars
                 PROVE  /\ DryRunLoop'
                        /\ no_operation /\ ProcessMoves => UNCHANGED group
      OBVIOUS
    <2>1. CASE PlannerStep /\ UNCHANGED <<no_operation, traffic, faults>>
      <3>1. CASE ValidateDeployment \/ WaitForReady \/ SetReplicas
        BY <2>1, <3>1
        DEF DryRunLoop, ValidateDeployment, WaitForReady, SetReplicas, FetchGroup, AlreadyThere,
            ScaleAdapter, AdapterNotFound, LocateRole, RoleNotFound, PatchRole
      <3>2. CASE ObserveMetrics({}) \/ SkipAdjustment \/ Restart
        BY <2>1, <3>2
        DEF DryRunLoop, ObserveMetrics, Crash, SkipAdjustment, EndInterval, Restart, Start
      <3>3. CASE MakeAdjustments
        BY <2>1, <3>3 DEF DryRunLoop, MakeAdjustments, Apply
      <3> QED
        BY <2>1, <3>1, <3>2, <3>3 DEF PlannerStep
    <2>2. CASE Disturbance
      <3>1. CASE Kill \/ CaughtException
        BY <3>1 DEF DryRunLoop, Kill, Crash, CaughtException, EndInterval
      <3>2. CASE Outage
        BY <3>2 DEF DryRunLoop, Outage, ObserveMetrics, Crash
      <3>3. CASE UNCHANGED process
        BY <3>3 DEF DryRunLoop, process, locals, ProcessMoves
      <3> QED
        BY <2>2, <3>1, <3>2, <3>3 DEF Disturbance, ChangeTraffic
    <2>3. CASE UNCHANGED process
      BY <2>3 DEF DryRunLoop, process, locals, ProcessMoves
    <2>4. CASE UNCHANGED vars
      BY <2>3, <2>4 DEF vars
    <2> QED
      BY <2>1, <2>2, <2>3, <2>4 DEF Next
  <1>3. DryRunLoop /\ [Next]_vars => [no_operation /\ ProcessMoves => UNCHANGED group]_vars
    BY <1>2
  <1>4. DryRunLoop /\ [Next]_vars => DryRunLoop'
    BY <1>2
  <1> QED
    BY <1>1, <1>3, <1>4, PTL DEF Spec, DryRunTouchesNothing

-----------------------------------------------------------------------------
(* The contract *)

\* The planner, crashes and all, implements the round-based contract: initial
\* states map to initial states, every step to a step of the contract or a
\* stutter.
THEOREM PlannerKeepsContract ==
  ASSUME "race" \notin Faults, SlackBudget(Config)
  PROVE  Spec => KeepsContract
  <1>1. Init => Contract!Init
    BY RolesAssumption DEF Init, GroupInit, Fresh, Control, Contract!Init
  <1>2. IInv /\ IInv' /\ [Next]_vars => [Contract!Next]_<<Control, targets>>
    <2> SUFFICES ASSUME IInv, IInv', [Next]_vars
                 PROVE  Contract!Next \/ UNCHANGED <<Control, targets>>
      OBVIOUS
    <2>1. CASE UNCHANGED <<pc, targets>>
      <3>1. Control' \in [Roles -> Nat]
        BY DEF IInv, TypeOK, GroupTypeOK, Control
      <3> QED BY <2>1, <3>1 DEF Contract!Next, Contract!Others
    <2>2. CASE Commanded
      BY <2>2, CommandedControl
      DEF Commanded, Contract!Next, Contract!Command, Contract!Skip
    <2>3. CASE (Decided \/ Dropped \/ Passed \/ Kept) /\ UNCHANGED <<replicas, adapter>>
      <3>1. UNCHANGED Control
        BY <2>3 DEF Control
      <3>2. CASE Decided
        <4>1. PICK raw \in IntPair : \E plan \in Plans(Config, raw) : targets' = TargetReplicas(plan)
          BY <3>2 DEF Decided
        <4>2. PICK plan \in Plans(Config, raw) : targets' = TargetReplicas(plan)
          BY <4>1
        <4>3. plan.prefill \in PrefillBounds /\ plan.decode \in DecodeBounds
          BY DecisionTyped
        <4> QED
          BY <3>1, <3>2, <4>2, <4>3
          DEF Decided, TargetReplicas, Target, Contract!Next, Contract!Decide, Contract!Target
      <3>3. CASE Dropped
        BY <3>1, <3>3 DEF Dropped, Contract!Next, Contract!GiveUp
      <3>4. CASE Passed
        BY <3>1, <3>4 DEF Passed, Contract!Next, Contract!Skip
      <3>5. CASE Kept
        BY <3>1, <3>5 DEF Kept
      <3> QED BY <2>3, <3>2, <3>3, <3>4, <3>5
    <2> QED
      BY <2>1, <2>2, <2>3, Moves
  <1> QED
    BY <1>1, <1>2, Invariance, PTL DEF Spec, KeepsContract, Contract!Spec
=============================================================================
