------------------------------ MODULE Planner ------------------------------
(***************************************************************************)
(* The planner process (planner.py, rbg_connector.py) against a live       *)
(* RoleBasedGroup.  The process is sequential; between any two of its API  *)
(* calls the group, the traffic and the cluster move.  Every call to the   *)
(* API server that reads or writes the RBG is a step of its own; what runs *)
(* between two calls is folded into the step it follows.                   *)
(*                                                                         *)
(* An exception nobody catches ends the process, and the kubelet starts    *)
(* the container again with nothing remembered: pc = "down".               *)
(***************************************************************************)
EXTENDS RoleBasedGroup, ReplicaMath

CONSTANTS
  Prefill, Decode,  \* prefill_role_name, decode_role_name
  Config,           \* the other PlannerConfig fields the arithmetic needs
  Modes,            \* the values no_operation (dry run) may have
  NoCorrection,     \* no_correction
  MaxAttempts,      \* wait_for_ready's max_attempts
  Traffic,          \* what the engines may report, see Measured
  Forecasts,        \* demands ARIMA or Prophet may extrapolate; {} for the constant predictor
  Faults,           \* the kinds of disturbance of this instance
  MaxFaults         \* bound: how many of them

ASSUME PlannerAssumption ==
  /\ Prefill \in Roles /\ Decode \in Roles
  /\ Config \in PlannerConfigs
  /\ Modes \subseteq BOOLEAN /\ Modes # {} /\ NoCorrection \in BOOLEAN
  /\ MaxAttempts \in Nat \ {0}
  /\ Traffic # {}
  /\ Traffic \subseteq [num_req : Nat, isl : Nat, osl : Nat, ttft : Nat, itl : Nat]
  /\ Forecasts \subseteq [prefill : Int, decode : Int]
  /\ Faults \subseteq {"kill", "outage", "exception", "traffic", "replicas", "layout", "race", "pod", "group"}
  /\ MaxFaults \in Nat

VARIABLES
  no_operation,  \* config.no_operation, fixed when the process is deployed
  pc,            \* where the process is
  attempts,      \* wait_for_ready's loop counter
  last_metrics,  \* Planner.last_metrics
  p_correction_factor, d_correction_factor,
  snapshot,      \* set_replicas' local rbg: the roles and counts its GET returned
  targets,       \* set_replicas' target_replicas still to be treated
  role_index,    \* _patch_rbg_role_replicas' local, 1-based
  traffic,       \* the load the engines carry
  faults         \* disturbances so far

locals == <<attempts, last_metrics, p_correction_factor, d_correction_factor,
            snapshot, targets, role_index>>
process == <<no_operation, pc, locals>>
vars == <<group, process, traffic, faults>>

Metrics == [num_req : Nat, isl : Nat, osl : Nat, ttft : Nat, itl : Nat]
NoMetrics == [m \in {"num_req", "isl", "osl", "ttft", "itl"} |-> 0]
NoSnapshot == [layout |-> <<>>, replicas |-> [r \in {} |-> 0]]

-----------------------------------------------------------------------------
(* Start, end and restart of the process *)

Start == IF no_operation THEN "idle" ELSE "validate"

Fresh ==
  /\ attempts = 0
  /\ last_metrics = NoMetrics
  /\ p_correction_factor = 1 /\ d_correction_factor = 1
  /\ snapshot = NoSnapshot
  /\ targets = <<>>
  /\ role_index = 0

Forget ==
  /\ attempts' = 0
  /\ last_metrics' = NoMetrics
  /\ p_correction_factor' = 1 /\ d_correction_factor' = 1
  /\ snapshot' = NoSnapshot
  /\ targets' = <<>>
  /\ role_index' = 0

\* An uncaught exception: RBGNotFoundError, RoleNotFoundError,
\* DeploymentNotReadyError or an ApiException.
Crash == pc' = "down" /\ Forget

Restart ==
  /\ pc = "down"
  /\ pc' = Start
  /\ UNCHANGED <<locals, group>>

\* Mutant: the targets survive in the connector.
EndIntervalOnly ==
  /\ pc' = "idle"
  /\ snapshot' = NoSnapshot
  /\ role_index' = 0
  /\ UNCHANGED targets

\* The interval is over: the loop sleeps, the locals of set_replicas are gone.
EndInterval ==
  /\ pc' = "idle"
  /\ snapshot' = NoSnapshot
  /\ targets' = <<>>
  /\ role_index' = 0

-----------------------------------------------------------------------------
(* Before the loop *)

\* validate_deployment
ValidateDeployment ==
  /\ pc = "validate"
  /\ IF exists /\ {Prefill, Decode} \subseteq Listed
     THEN pc' = "waiting" /\ UNCHANGED locals
     ELSE Crash
  /\ UNCHANGED group

\* Mutant: the last attempt is not counted, range(max_attempts + 1).
WaitOnceMore ==
  /\ pc = "waiting"
  /\ IF exists /\ ~condition
     THEN attempts' = attempts + 1 /\ pc' = IF attempts = MaxAttempts THEN "idle" ELSE pc
     ELSE attempts' = 0 /\ pc' = "idle"
  /\ UNCHANGED <<last_metrics, p_correction_factor, d_correction_factor,
                 snapshot, targets, role_index, group>>

\* One attempt of wait_for_ready.
WaitForReady ==
  /\ pc = "waiting"
  /\ \/ /\ exists /\ condition
        /\ pc' = "idle" /\ attempts' = 0
        /\ UNCHANGED <<last_metrics, p_correction_factor, d_correction_factor,
                       snapshot, targets, role_index>>
     \/ /\ exists /\ ~condition /\ attempts + 1 < MaxAttempts
        /\ attempts' = attempts + 1
        /\ UNCHANGED <<pc, last_metrics, p_correction_factor, d_correction_factor,
                       snapshot, targets, role_index>>
     \/ /\ exists => ~condition /\ attempts + 1 >= MaxAttempts
        /\ Crash
  /\ UNCHANGED group

-----------------------------------------------------------------------------
(* One adjustment interval *)

\* A query that fails, finds no series or yields NaN is reported as 0.0.
Measured(failed) ==
  [m \in DOMAIN traffic |-> IF m \in failed \/ traffic.num_req = 0 THEN 0 ELSE traffic[m]]

\* observe_metrics.  The two GETs behind the worker counts feed gauges only,
\* but a missing RBG ends the process.
ObserveMetrics(failed) ==
  /\ pc = "idle"
  /\ IF no_operation \/ exists
     THEN /\ last_metrics' = Measured(failed)
          /\ pc' = "adjust"
          /\ UNCHANGED <<attempts, p_correction_factor, d_correction_factor,
                         snapshot, targets, role_index>>
     ELSE Crash
  /\ UNCHANGED group

\* _get_num_workers(decode): a role without a status counts no workers.
DecodeWorkers == IF no_operation THEN 1 ELSE IF Decode \in Listed THEN ready[Decode] ELSE 0

\* _update_correction_factors: observed over profiled latency, latencies being
\* counted in multiples of the profiled one.  Without decode workers the
\* factors of an earlier interval stay in force.
UpdateCorrectionFactors ==
  IF NoCorrection \/ DecodeWorkers = 0
  THEN UNCHANGED <<p_correction_factor, d_correction_factor>>
  ELSE /\ p_correction_factor' = last_metrics.ttft
       /\ d_correction_factor' = last_metrics.itl

\* The two math.ceil calls of _compute_replica_requirements.  num_req counts
\* requests of one token each way in units of what one engine of either role
\* serves in an interval at the SLA; an ITL twice the profiled one halves what
\* a decode engine can be loaded with, an ITL of 0 is replaced by the SLA.
RawDemand(m, p, d) ==
  [prefill |-> m.num_req * m.isl * p,
   decode  |-> m.num_req * m.osl * (IF d <= 0 THEN 1 ELSE d)]

Target(role, n) == [role_name |-> role, desired_replicas |-> n]

\* Mutant: the two counts change places.
CrossedTargets(plan) == <<Target(Prefill, plan.decode), Target(Decode, plan.prefill)>>
TargetReplicas(plan) == <<Target(Prefill, plan.prefill), Target(Decode, plan.decode)>>

\* Mutant: dry run forgotten.
ApplyAlways(plan) == pc' = "fetch" /\ targets' = TargetReplicas(plan)

\* "Apply scaling", unless in dry run.
Apply(plan) ==
  IF no_operation
  THEN pc' = "idle" /\ targets' = <<>>
  ELSE pc' = "fetch" /\ targets' = TargetReplicas(plan)

\* make_adjustments up to set_replicas: the predictors give the last value
\* back (constant, short history, failed fit) or an extrapolation.
MakeAdjustments ==
  /\ pc = "adjust"
  /\ no_operation \/ NoCorrection \/ exists
  /\ UpdateCorrectionFactors
  /\ \E raw \in {RawDemand(last_metrics, p_correction_factor', d_correction_factor')} \cup Forecasts :
       \E plan \in Plans(Config, raw) : Apply(plan)
  /\ UNCHANGED <<attempts, last_metrics, snapshot, role_index, group>>

\* The GET behind the correction factors found no RBG: the exception is caught
\* and the interval skipped.
SkipAdjustment ==
  /\ pc = "adjust"
  /\ ~no_operation /\ ~NoCorrection /\ ~exists
  /\ EndInterval
  /\ UNCHANGED <<attempts, last_metrics, p_correction_factor, d_correction_factor, group>>

-----------------------------------------------------------------------------
(* RBGConnector.set_replicas *)

FetchGroup ==
  /\ pc = "fetch"
  /\ \/ ~exists /\ Crash
     \/ /\ exists /\ ~condition
        /\ EndInterval
        /\ UNCHANGED <<attempts, last_metrics, p_correction_factor, d_correction_factor>>
     \/ /\ exists /\ condition
        /\ pc' = "scale"
        /\ snapshot' = [layout |-> layout, replicas |-> replicas]
        /\ UNCHANGED <<attempts, last_metrics, p_correction_factor, d_correction_factor,
                       targets, role_index>>
  /\ UNCHANGED group

\* The for loop goes on to the next target, or the interval ends.
NextTarget ==
  /\ IF Len(targets) = 1
     THEN EndInterval
     ELSE /\ pc' = "scale"
          /\ targets' = Tail(targets)
          /\ role_index' = 0
          /\ UNCHANGED snapshot
  /\ UNCHANGED <<attempts, last_metrics, p_correction_factor, d_correction_factor>>

\* Mutant: `return` for `continue`.
ReturnWhenThere ==
  LET t == Head(targets) IN
  /\ pc = "scale"
  /\ t.role_name \in ToSet(snapshot.layout)
  /\ snapshot.replicas[t.role_name] = t.desired_replicas
  /\ EndInterval
  /\ UNCHANGED <<attempts, last_metrics, p_correction_factor, d_correction_factor, group>>

\* The role is at its target in the snapshot, whatever it is by now.
AlreadyThere ==
  LET t == Head(targets) IN
  /\ pc = "scale"
  /\ t.role_name \in ToSet(snapshot.layout)
  /\ snapshot.replicas[t.role_name] = t.desired_replicas
  /\ NextTarget
  /\ UNCHANGED group

\* _try_scale_via_rbgsa finds the adapter.
ScaleAdapter ==
  LET t == Head(targets) IN
  /\ pc = "scale"
  /\ t.role_name \in ToSet(snapshot.layout)
  /\ snapshot.replicas[t.role_name] # t.desired_replicas
  /\ exists /\ t.role_name \in Adapted
  /\ adapter' = [adapter EXCEPT ![t.role_name] = t.desired_replicas]
  /\ NextTarget
  /\ UNCHANGED <<exists, layout, replicas, ready, condition>>

\* Mutant: the index is taken from set_replicas' snapshot.
IndexInSnapshot(role) == CHOOSE i \in 1..Len(snapshot.layout) : snapshot.layout[i] = role
\* The position of the role in spec.roles, where names are unique.
RoleIndex(role) == CHOOSE i \in 1..Len(layout) : layout[i] = role

\* _try_scale_via_rbgsa gets a 404: there is no adapter.
AdapterNotFound ==
  LET t == Head(targets) IN
  /\ pc = "scale"
  /\ t.role_name \in ToSet(snapshot.layout)
  /\ snapshot.replicas[t.role_name] # t.desired_replicas
  /\ ~exists \/ t.role_name \notin Adapted
  /\ pc' = "locate"
  /\ UNCHANGED <<locals, group>>

\* The RBG itself is read again: _patch_rbg_role_replicas up to its patch.
LocateRole ==
  LET role == Head(targets).role_name IN
  /\ pc = "locate"
  /\ IF exists /\ role \in Listed
     THEN /\ pc' = "patch"
          /\ role_index' = RoleIndex(role)
          /\ UNCHANGED <<attempts, last_metrics, p_correction_factor, d_correction_factor,
                         snapshot, targets>>
     ELSE Crash
  /\ UNCHANGED group

\* The snapshot lacks the role: RoleNotFoundError.
RoleNotFound ==
  /\ pc = "scale"
  /\ Head(targets).role_name \notin ToSet(snapshot.layout)
  /\ Crash
  /\ UNCHANGED group

\* The JSON patch replaces /spec/roles/<role_index>/replicas, whichever role is
\* there when the API server applies it.
PatchRole ==
  /\ pc = "patch"
  /\ IF exists /\ role_index <= Len(layout)
     THEN /\ replicas' = [replicas EXCEPT ![layout[role_index]] = Head(targets).desired_replicas]
          /\ NextTarget
          /\ UNCHANGED <<exists, layout, adapter, ready, condition>>
     ELSE Crash /\ UNCHANGED group

SetReplicas ==
  \/ FetchGroup
  \/ AlreadyThere \/ RoleNotFound
  \/ ScaleAdapter \/ AdapterNotFound \/ LocateRole \/ PatchRole

PlannerStep ==
  \/ ValidateDeployment
  \/ WaitForReady
  \/ ObserveMetrics({})
  \/ MakeAdjustments
  \/ SkipAdjustment
  \/ SetReplicas
  \/ Restart

-----------------------------------------------------------------------------
(* What the planner does not control *)

\* The pod is killed, or an API call fails with an error other than 404, before
\* or after the server carried it out.
Kill ==
  /\ pc # "down"
  /\ Crash
  /\ UNCHANGED <<no_operation, group, traffic>>

\* Prometheus fails one of the queries of an interval, or all of them.
Outage ==
  /\ \E failed \in {{query} : query \in DOMAIN traffic} \cup {DOMAIN traffic} :
       ObserveMetrics(failed)
  /\ UNCHANGED <<no_operation, traffic>>

\* An exception make_adjustments catches: before, between or after the updates
\* of the two correction factors (an API error, an infinite demand, no model).
CaughtException ==
  /\ pc = "adjust"
  /\ EndInterval
  /\ \/ UNCHANGED <<p_correction_factor, d_correction_factor>>
     \/ /\ ~NoCorrection
        /\ no_operation \/ exists
        /\ DecodeWorkers # 0
        /\ p_correction_factor' = last_metrics.ttft
        /\ d_correction_factor' \in {d_correction_factor, last_metrics.itl}
  /\ UNCHANGED <<attempts, last_metrics, no_operation, group, traffic>>

ChangeTraffic ==
  /\ traffic' \in Traffic \ {traffic}
  /\ UNCHANGED <<group, process>>

\* Assumption of every instance without "race": nobody reorders the roles in the
\* milliseconds between the GET that locates a role and the patch.
LayoutMayChange == pc = "patch" => "race" \in Faults

Disturbance ==
  /\ faults < MaxFaults
  /\ faults' = faults + 1
  /\ \/ "kill" \in Faults /\ Kill
     \/ "outage" \in Faults /\ Outage
     \/ "exception" \in Faults /\ CaughtException
     \/ "traffic" \in Faults /\ ChangeTraffic
     \/ "replicas" \in Faults /\ EditReplicas /\ UNCHANGED <<process, traffic>>
     \/ "layout" \in Faults /\ LayoutMayChange /\ EditLayout /\ UNCHANGED <<process, traffic>>
     \/ "pod" \in Faults /\ LosePod /\ UNCHANGED <<process, traffic>>
     \/ "group" \in Faults /\ DeleteGroup /\ UNCHANGED <<process, traffic>>

-----------------------------------------------------------------------------
Init ==
  /\ GroupInit
  /\ no_operation \in Modes
  /\ pc = Start
  /\ Fresh
  /\ traffic \in Traffic
  /\ faults = 0

Next ==
  \/ PlannerStep /\ UNCHANGED <<no_operation, traffic, faults>>
  \/ Controller /\ UNCHANGED <<process, traffic, faults>>
  \/ LayoutMayChange /\ ApplyGroup /\ UNCHANGED <<process, traffic, faults>>
  \/ Disturbance

Spec == Init /\ [][Next]_vars

\* The process is scheduled, and the RBG controller gets to every change it has
\* to roll out.  Nothing is assumed of users, traffic or failures.
Fairness ==
  /\ WF_vars(PlannerStep /\ UNCHANGED <<no_operation, traffic, faults>>)
  /\ \A r \in Roles : WF_vars((SyncAdapter(r) \/ RollOut(r)) /\ UNCHANGED <<process, traffic, faults>>)
  /\ WF_vars((NoticeChange \/ ReportReady) /\ UNCHANGED <<process, traffic, faults>>)

FairSpec == Spec /\ Fairness

-----------------------------------------------------------------------------
TargetsOK ==
  /\ targets \in Seq([role_name : {Prefill, Decode}, desired_replicas : Nat])
  /\ Len(targets) <= 2
  /\ pc \in {"fetch", "scale", "locate", "patch"} <=> targets # <<>>

\* Types, and what is known of the locals at each point of the loop.
TypeOK ==
  /\ GroupTypeOK
  /\ no_operation \in Modes
  /\ pc \in {"validate", "waiting", "idle", "adjust", "fetch", "scale", "locate", "patch",
            "down"}
  /\ attempts \in 0..(MaxAttempts - 1)
  /\ last_metrics \in Metrics
  /\ p_correction_factor \in Nat /\ d_correction_factor \in Nat
  /\ snapshot = NoSnapshot \/ snapshot \in [layout : Layouts, replicas : [Roles -> Nat]]
  /\ TargetsOK
  /\ role_index \in Nat
  /\ traffic \in Traffic
  /\ faults \in 0..MaxFaults

\* The steps in which the process, and not its surroundings, moves.
ProcessMoves == <<pc, targets>>' # <<pc, targets>>

\* A command reaches the role it is meant for and no other, although the JSON
\* patch addresses the role by position and users reorder the roles while the
\* planner works: set_replicas' snapshot may not supply the index.  (A group that
\* is applied again after the 404 has its count patched although there is an
\* adapter by now; the adapter takes it back.)
OwnTargetOnly ==
  [][ProcessMoves =>
       /\ \A r \in Roles : replicas'[r] # replicas[r] => Head(targets) = Target(r, replicas'[r])
       /\ \A r \in Adapted : adapter'[r] # adapter[r] => Head(targets) = Target(r, adapter'[r])]_vars

\* The count that decides over a role's size: its adapter's, or its own.
Control == [r \in Roles |-> IF r \in Adapted THEN adapter[r] ELSE replicas[r]]

PrefillBounds == RoleBounds(Config, Config.max_prefill_replicas)
DecodeBounds == RoleBounds(Config, Config.max_decode_replicas)
Bounded(r, n) ==
  \/ r = Prefill /\ n \in PrefillBounds
  \/ r = Decode /\ n \in DecodeBounds

\* Whatever the metrics, the forecasts, crashes and concurrent edits, a planner
\* deployed by the operator never writes a count outside the bounds of the role
\* it writes, through an adapter or past it, and leaves the group's other roles
\* alone.
WritesWithinBounds ==
  [][SlackBudget(Config) /\ ProcessMoves =>
       /\ \A r \in Roles : replicas'[r] # replicas[r] => Bounded(r, replicas'[r])
       /\ \A r \in Adapted : adapter'[r] # adapter[r] => Bounded(r, adapter'[r])]_vars

\* The planner keeps its promise: a round is one decision, carried out in order,
\* each role at most once, through crashes, skipped intervals and the fallback
\* from adapter to patch.
Contract == INSTANCE ScalingContract WITH counts <- Control, round <- targets
KeepsContract == Contract!Spec

\* NO_OPERATION: "observe only, no scaling".
DryRunTouchesNothing == [][no_operation /\ ProcessMoves => UNCHANGED group]_vars

-----------------------------------------------------------------------------
Present == exists /\ {Prefill, Decode} \subseteq Listed

\* What the traffic calls for, correctly measured.
Needed ==
  LET m == Measured({})
  IN  Plans(Config, IF NoCorrection THEN RawDemand(m, 1, 1) ELSE RawDemand(m, m.ttft, m.itl))

AtPlan ==
  \E plan \in Needed :
    /\ replicas[Prefill] = plan.prefill /\ replicas[Decode] = plan.decode
    /\ Prefill \in Adapted => adapter[Prefill] = plan.prefill
    /\ Decode \in Adapted => adapter[Decode] = plan.decode

\* Once the disturbances are over, the group that still has both roles comes to
\* the plan for its traffic and stays there: crashes between the two commands,
\* commands lost to edits, rollouts that outlast an interval or wait_for_ready,
\* stale correction factors are all made good.
Converges == <>[](Present /\ ~no_operation => AtPlan)

\* planner.py: "Metrics contain None/NaN (no active requests), skipping
\* adjustment".
NoTrafficNoAdjustment ==
  [][pc = "adjust" /\ last_metrics = NoMetrics => targets' = <<>>]_vars
=============================================================================
