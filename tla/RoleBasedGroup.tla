--------------------------- MODULE RoleBasedGroup ---------------------------
(***************************************************************************)
(* The RoleBasedGroup (RBG) of the workloads.x-k8s.io API as the planner   *)
(* meets it: the object in the API server, its scaling adapters (RBGSA),   *)
(* the RBG controller that makes the cluster follow, and the users who     *)
(* edit it.  None of that code is in this repository; what is modelled is  *)
(* what RBGConnector (rbg_connector.py) reads and writes, and what the     *)
(* planner's waiting loops rely on.                                        *)
(***************************************************************************)
EXTENDS Integers, Sequences, SequencesExt

CONSTANTS
  Roles,         \* every role name an RBG of this cluster may have
  Layouts,       \* the orders users may list the roles in
  Adapted,       \* roles that have a RoleBasedGroupScalingAdapter
  InitReplicas,  \* replicas of each role when the group is applied
  MaxReplicas,   \* bound: the largest count a user writes
  GpusOf,        \* GPUs one replica of a role occupies
  Capacity       \* GPUs of the cluster

ASSUME RolesAssumption ==
  /\ Layouts \subseteq Seq(Roles)
  /\ Layouts # {}
  /\ \A l \in Layouts : \A i, j \in 1..Len(l) : l[i] = l[j] => i = j
  /\ Adapted \subseteq Roles
  /\ InitReplicas \in [Roles -> Nat]
  /\ MaxReplicas \in Nat
  /\ GpusOf \in [Roles -> Nat]
  /\ Capacity \in Nat

VARIABLES
  exists,     \* the RBG object is in the API server
  layout,     \* spec.roles[*].name, in order
  replicas,   \* spec.roles[*].replicas, by role
  adapter,    \* spec.replicas of the RBGSA <rbg>-<role>, by adapted role
  ready,      \* status.roleStatuses[*].readyReplicas, by role
  condition   \* the Ready condition in status.conditions is "True"

group == <<exists, layout, replicas, adapter, ready, condition>>

GroupTypeOK ==
  /\ exists \in BOOLEAN
  /\ layout \in Layouts
  /\ replicas \in [Roles -> Nat]
  /\ adapter \in [Adapted -> Nat]
  /\ ready \in [Roles -> Nat]
  /\ condition \in BOOLEAN

GroupInit ==
  /\ exists = TRUE
  /\ layout \in Layouts
  /\ replicas = InitReplicas
  /\ adapter = [r \in Adapted |-> InitReplicas[r]]
  /\ ready = [r \in Roles |-> 0]
  /\ condition = FALSE

-----------------------------------------------------------------------------
(* The RBG controller *)

Listed == ToSet(layout)
Settled(counts) == \A r \in Listed : counts[r] = replicas[r]
GpusWanted == SumFunctionOnSet([r \in Roles |-> replicas[r] * GpusOf[r]], Listed)

\* The adapter's value reaches the role it scales.
SyncAdapter(r) ==
  /\ exists /\ r \in Adapted
  /\ replicas[r] # adapter[r]
  /\ replicas' = [replicas EXCEPT ![r] = adapter[r]]
  /\ UNCHANGED <<exists, layout, adapter, ready, condition>>

\* The controller notices a spec its pods do not match yet.
NoticeChange ==
  /\ exists /\ condition
  /\ ~Settled(ready)
  /\ condition' = FALSE
  /\ UNCHANGED <<exists, layout, replicas, adapter, ready>>

\* Surplus pods of the role are gone, or the missing ones are scheduled and ready.
RollOut(r) ==
  /\ exists /\ r \in Listed
  /\ \/ ready[r] > replicas[r]
     \/ ready[r] < replicas[r] /\ GpusWanted <= Capacity
  /\ ready' = [ready EXCEPT ![r] = replicas[r]]
  /\ condition' = Settled(ready')
  /\ UNCHANGED <<exists, layout, replicas, adapter>>

\* Nothing to roll out, the condition lags behind (a role was listed or dropped).
ReportReady ==
  /\ exists /\ ~condition
  /\ Settled(ready)
  /\ condition' = TRUE
  /\ UNCHANGED <<exists, layout, replicas, adapter, ready>>

Controller ==
  \/ \E r \in Roles : SyncAdapter(r) \/ RollOut(r)
  \/ NoticeChange
  \/ ReportReady

-----------------------------------------------------------------------------
(* Users and the cluster *)

\* kubectl edit of a role's replicas; an adapted role is edited at its adapter.
EditReplicas ==
  /\ exists
  /\ \E r \in Listed, n \in 0..MaxReplicas :
       IF r \in Adapted
       THEN adapter' = [adapter EXCEPT ![r] = n] /\ UNCHANGED replicas
       ELSE replicas' = [replicas EXCEPT ![r] = n] /\ UNCHANGED adapter
  /\ UNCHANGED <<exists, layout, ready, condition>>

\* kubectl apply of a manifest that lists the roles in another order, or other roles.
EditLayout ==
  /\ exists
  /\ layout' \in Layouts \ {layout}
  /\ UNCHANGED <<exists, replicas, adapter, ready, condition>>

LosePod ==
  /\ exists
  /\ \E r \in Listed :
       /\ ready[r] > 0
       /\ ready' = [ready EXCEPT ![r] = @ - 1]
  /\ condition' = Settled(ready')
  /\ UNCHANGED <<exists, layout, replicas, adapter>>

DeleteGroup ==
  /\ exists
  /\ exists' = FALSE
  /\ UNCHANGED <<layout, replicas, adapter, ready, condition>>

\* The group is applied again: spec from the manifest, no pods yet.
ApplyGroup ==
  /\ ~exists
  /\ exists' = TRUE
  /\ layout' \in Layouts
  /\ replicas' = InitReplicas
  /\ adapter' = [r \in Adapted |-> InitReplicas[r]]
  /\ ready' = [r \in Roles |-> 0]
  /\ condition' = FALSE
=============================================================================
