------------------------------ MODULE Operator ------------------------------
(***************************************************************************)
(* The AutoScaler operator (internal/controller/                           *)
(* roleautoscaler_controller.go): one worker that reconciles AutoScalers   *)
(* with the API server, call by call, while users edit and delete them,    *)
(* the garbage collector, the Job controller and the profiler work, calls  *)
(* fail and the process restarts.                                          *)
(*                                                                         *)
(* AutoScaler and RBG are unstructured objects and read from the API       *)
(* server; every other kind is read from an informer cache, which lags     *)
(* behind the store for the kinds in Lagging.  A read of the cache is      *)
(* folded into the call that follows it.                                   *)
(*                                                                         *)
(* RequeueAfter and the retry after an error put the key back on the queue *)
(* at once: when the worker gets to it is left open.  Events of owned Jobs *)
(* and Deployments would only bring a reconcile forward and are left out.  *)
(***************************************************************************)
EXTENDS Integers, FiniteSets

CONSTANTS
  Keys,           \* the [namespace, name] of the AutoScalers (an RBG has the name of its AutoScaler)
  Specs,          \* what their spec may say
  InvalidSpec,    \* a spec without PDDisaggregated or DynamoPlanner, which the CRD admits
  GroupGpus,      \* GPUs per engine an RBG may request
  Lagging,        \* the kinds whose informer may be behind
  JobArgs,        \* flags createProfilingJob passes
  ProfilerFlags,  \* flags the profiler image a spec names knows, by spec
  Faults,         \* the kinds of disturbance of this instance
  MaxFaults       \* bound: how many of them

Kinds == {"account", "binding", "profile", "job", "deployment"}

ASSUME OperatorAssumption ==
  /\ IsFiniteSet(Keys)
  /\ \A k \in Keys : k = [namespace |-> k.namespace, name |-> k.name] /\ k.namespace # "none"
  /\ Specs # {} /\ InvalidSpec \notin Specs
  /\ GroupGpus \subseteq Nat \ {0}
  /\ Lagging \subseteq Kinds
  /\ DOMAIN ProfilerFlags = Specs
  /\ Faults \subseteq {"edit", "delete", "create", "group", "profile", "pod",
                       "deployment", "error", "crash"}
  /\ MaxFaults \in Nat

VARIABLES
  as,        \* the AutoScaler objects
  rbg,       \* GPUs per engine of the RBG of that name, 0 if there is none
  store,     \* the other objects, by kind
  cluster_role,  \* the shared ClusterRole exists
  cache,     \* the operator's informer caches of the kinds in Lagging
  queue,     \* keys to reconcile
  pc, key,   \* where the worker is, and the key it works on
  ras,       \* its copy of the AutoScaler
  outdated,  \* that copy's resourceVersion is no longer the current one
  gpus,      \* what it read from the RBG
  report,    \* the phase it is about to write
  created,   \* AutoScalers created so far; their UIDs
  misjudged, \* history: AutoScalers whose binding the cache last misrepresented
  faults     \* disturbances so far

worker == <<pc, key, ras, outdated, gpus, report>>
vars == <<as, rbg, store, cluster_role, cache, queue, worker, created, misjudged, faults>>

None == "none"
Names == {k.name : k \in Keys}
Namespaces == {k.namespace : k \in Keys}

Absent == [uid |-> 0, spec |-> None, deleting |-> FALSE, finalizer |-> FALSE, phase |-> None]
NewAutoScaler(uid, spec) ==
  [uid |-> uid, spec |-> spec, deleting |-> FALSE, finalizer |-> FALSE, phase |-> None]
Exists(k) == as[k] # Absent

backoffLimit == 1
NoJob == [owner |-> 0, accepted |-> FALSE, state |-> None, failed |-> 0]
NewJob(uid, spec) ==
  [owner |-> uid, accepted |-> JobArgs \subseteq ProfilerFlags[spec], state |-> "running", failed |-> 0]
NoDeployment == [owner |-> 0, spec |-> None, gpus |-> 0]
NewDeployment(uid, spec, g) == [owner |-> uid, spec |-> spec, gpus |-> g]
NoKey == [namespace |-> None, name |-> None]

EmptyStore ==
  [account    |-> [k \in Keys |-> 0],        \* ServiceAccount: the UID of its owner
   binding    |-> [n \in Names |-> None],    \* ClusterRoleBinding: the namespace of its subject
   profile    |-> [k \in Keys |-> FALSE],    \* profiling ConfigMap; nobody owns it
   job        |-> [k \in Keys |-> NoJob],
   deployment |-> [k \in Keys |-> NoDeployment]]

\* What a typed Get sees.
Seen(kind) == IF kind \in Lagging THEN cache[kind] ELSE store[kind]

Put(kind, i, object) == store' = [store EXCEPT ![kind][i] = object]

-----------------------------------------------------------------------------
(* How a reconcile ends, or goes on *)

Goto(label) ==
  /\ pc' = label
  /\ UNCHANGED <<key, ras, outdated, gpus, report>>

Done ==
  /\ pc' = "idle"
  /\ key' = NoKey /\ ras' = Absent /\ outdated' = FALSE /\ gpus' = 0 /\ report' = None

\* RequeueAfter, or an error and its rate-limited retry.
Retry == Done /\ queue' = queue \cup {key}

Report(phase) ==
  /\ pc' = "status"
  /\ report' = phase
  /\ UNCHANGED <<key, ras, outdated, gpus>>

-----------------------------------------------------------------------------
(* Reconcile: the AutoScaler and its finalizer *)

\* Steps 1 to 3 of Reconcile up to their first write.  The spec is parsed
\* before the deletion timestamp is looked at.
Reconcile(k) ==
  /\ pc = "idle" /\ k \in queue
  /\ queue' = queue \ {k}
  /\ IF Exists(k) /\ ~(as[k].deleting /\ ~as[k].finalizer)
     THEN /\ key' = k /\ ras' = as[k] /\ outdated' = FALSE /\ gpus' = 0
          /\ IF as[k].spec = InvalidSpec
             THEN pc' = "status" /\ report' = "Failed"
             ELSE /\ report' = None
                  /\ pc' = IF as[k].deleting THEN "cleanup"
                           ELSE IF as[k].finalizer THEN "group" ELSE "finalizer"
     ELSE UNCHANGED worker
  /\ UNCHANGED <<as, store, cluster_role>>

\* Mutant: the finalizer is added to the copy only.
FinalizerInMemory ==
  /\ pc = "finalizer"
  /\ pc' = "group"
  /\ ras' = [ras EXCEPT !.finalizer = TRUE]
  /\ UNCHANGED <<as, store, cluster_role, queue, key, outdated, gpus, report>>

\* The Update is refused if the object changed since it was read.
AddFinalizer ==
  /\ pc = "finalizer"
  /\ IF outdated
     THEN Retry /\ UNCHANGED as
     ELSE /\ as' = [as EXCEPT ![key].finalizer = TRUE]
          /\ ras' = as'[key]
          /\ queue' = queue \cup {key}
          /\ pc' = "group"
          /\ UNCHANGED <<key, outdated, gpus, report>>
  /\ UNCHANGED <<store, cluster_role>>

\* Mutants: only a Ready AutoScaler is cleaned up; a missing binding is an error.
CleanupReady ==
  /\ pc = "cleanup"
  /\ IF ras.phase = "Ready"
     THEN Put("binding", key.name, None)
     ELSE UNCHANGED store
  /\ Goto("release")
  /\ UNCHANGED <<as, cluster_role, queue>>

CleanupStrict ==
  /\ pc = "cleanup"
  /\ IF store.binding[key.name] = None
     THEN Retry /\ UNCHANGED store
     ELSE Put("binding", key.name, None) /\ Goto("release") /\ UNCHANGED queue
  /\ UNCHANGED <<as, cluster_role>>

\* cleanupClusterResources: a binding that is not there is none to delete.
CleanupClusterResources ==
  /\ pc = "cleanup"
  /\ IF Seen("binding")[key.name] = None
     THEN Goto("release") /\ UNCHANGED <<store, queue>>
     ELSE IF store.binding[key.name] = None
     THEN Retry /\ UNCHANGED store
     ELSE Put("binding", key.name, None) /\ Goto("release") /\ UNCHANGED queue
  /\ UNCHANGED <<as, cluster_role>>

\* Without its last finalizer the object is gone.
RemoveFinalizer ==
  /\ pc = "release"
  /\ IF outdated
     THEN Retry /\ UNCHANGED as
     ELSE as' = [as EXCEPT ![key] = Absent] /\ Done /\ UNCHANGED queue
  /\ UNCHANGED <<store, cluster_role>>

\* Mutant: the missing RBG is reported, but the reconcile goes on.
GroupUnchecked ==
  /\ pc = "group"
  /\ pc' = "account" /\ gpus' = rbg[key]
  /\ UNCHANGED <<as, store, cluster_role, queue, key, ras, outdated, report>>

\* Step 4: the target RBG must exist; its GPUs per engine are read.
GetGroup ==
  /\ pc = "group"
  /\ IF rbg[key] = 0
     THEN Report("Pending")
     ELSE pc' = "account" /\ gpus' = rbg[key] /\ UNCHANGED <<key, ras, outdated, report>>
  /\ UNCHANGED <<as, store, cluster_role, queue>>

-----------------------------------------------------------------------------
(* ensureRBAC: three objects, created if the cache does not show them *)

\* Mutant: a ServiceAccount that is there means that RBAC is.
RbacByAccount ==
  /\ pc = "account"
  /\ IF Seen("account")[key] # 0
     THEN Goto("profile") /\ UNCHANGED <<store, queue>>
     ELSE IF store.account[key] # 0
     THEN Retry /\ UNCHANGED store
     ELSE Put("account", key, ras.uid) /\ Goto("role") /\ UNCHANGED queue
  /\ UNCHANGED <<as, cluster_role>>

\* createOrUpdate of the ServiceAccount; what exists is left as it is.
EnsureServiceAccount ==
  /\ pc = "account"
  /\ IF Seen("account")[key] # 0
     THEN Goto("role") /\ UNCHANGED <<store, queue>>
     ELSE IF store.account[key] # 0
     THEN Retry /\ UNCHANGED store
     ELSE Put("account", key, ras.uid) /\ Goto("role") /\ UNCHANGED queue
  /\ UNCHANGED <<as, cluster_role>>

\* createIfNotExists of the ClusterRole all planners share.
EnsureClusterRole ==
  /\ pc = "role"
  /\ cluster_role' = TRUE
  /\ Goto("binding")
  /\ UNCHANGED <<as, store, queue>>

\* createOrUpdate of the ClusterRoleBinding <name>-planner-binding: the mutate
\* function changes a local, so an existing binding keeps its subject.
EnsureBinding ==
  /\ pc = "binding"
  /\ IF Seen("binding")[key.name] # None
     THEN Goto("profile") /\ UNCHANGED <<store, queue>>
     ELSE IF store.binding[key.name] # None
     THEN Retry /\ UNCHANGED store
     ELSE Put("binding", key.name, key.namespace) /\ Goto("profile") /\ UNCHANGED queue
  /\ UNCHANGED <<as, cluster_role>>

-----------------------------------------------------------------------------
(* handleProfiling *)

\* An existing ConfigMap ends profiling, whoever made it.  (Any error of this Get
\* counts as its absence; a read of the cache has no other than NotFound.)
CheckProfile ==
  /\ pc = "profile"
  /\ Goto(IF Seen("profile")[key] THEN "deployment" ELSE "job")
  /\ UNCHANGED <<as, store, cluster_role, queue>>

\* No Job in sight: createProfilingJob.
CreateProfilingJob ==
  /\ pc = "job"
  /\ Seen("job")[key] = NoJob
  /\ IF store.job[key] = NoJob
     THEN Put("job", key, NewJob(ras.uid, ras.spec)) /\ Report("Initializing")
     ELSE UNCHANGED store /\ Report("Failed")
  /\ UNCHANGED <<as, cluster_role, queue>>

\* A Job that succeeded must have left its ConfigMap; one with a failed pod
\* counts as failed even while it retries.
CheckJob ==
  LET job == Seen("job")[key] IN
  /\ pc = "job"
  /\ job # NoJob
  /\ IF job.state = "succeeded" /\ Seen("profile")[key]
     THEN Goto("deployment")
     ELSE IF job.state = "succeeded" \/ job.failed > 0
     THEN Report("Failed")
     ELSE Report("Initializing")
  /\ UNCHANGED <<as, store, cluster_role, queue>>

-----------------------------------------------------------------------------
(* ensurePlannerDeployment and the status *)

\* The API server fills in defaults, so the template it returns always differs
\* from the desired one and an Update is sent; it is refused if the cached
\* object is not the current one.  The owner reference is kept.
EnsurePlannerDeployment ==
  LET existing == Seen("deployment")[key] IN
  /\ pc = "deployment"
  /\ IF existing # store.deployment[key]
     THEN Retry /\ UNCHANGED store
     ELSE /\ Put("deployment", key,
                 NewDeployment(IF existing = NoDeployment THEN ras.uid ELSE existing.owner,
                               ras.spec, gpus))
          /\ Report("Ready")
          /\ UNCHANGED queue
  /\ UNCHANGED <<as, cluster_role>>

\* Mutants: a merge patch instead of an Update; no RequeueAfter while Pending.
WriteStatusUnchecked ==
  /\ pc = "status"
  /\ as' = IF Exists(key) THEN [as EXCEPT ![key].phase = report] ELSE as
  /\ Retry
  /\ UNCHANGED <<store, cluster_role>>

WriteStatusOnce ==
  /\ pc = "status"
  /\ IF outdated
     THEN Retry /\ UNCHANGED as
     ELSE /\ as' = [as EXCEPT ![key].phase = report]
          /\ IF (ras.spec = InvalidSpec \/ report = "Pending") /\ as[key].phase = report
             THEN Done /\ UNCHANGED queue
             ELSE Retry
  /\ UNCHANGED <<store, cluster_role>>

\* setPhase or updateReadyStatus, and the end of the reconcile.  An invalid spec
\* is not requeued; once it is reported it is looked at again only because
\* lastTransitionTime, which counts seconds, made the write a change.
WriteStatus ==
  /\ pc = "status"
  /\ IF outdated
     THEN Retry /\ UNCHANGED as
     ELSE /\ as' = [as EXCEPT ![key].phase = report]
          /\ \/ Retry
             \/ ras.spec = InvalidSpec /\ as[key].phase = report /\ Done /\ UNCHANGED queue
  /\ UNCHANGED <<store, cluster_role>>

OperatorStep ==
  \/ AddFinalizer \/ CleanupClusterResources \/ RemoveFinalizer
  \/ GetGroup
  \/ EnsureServiceAccount \/ EnsureClusterRole \/ EnsureBinding
  \/ CheckProfile \/ CreateProfilingJob \/ CheckJob
  \/ EnsurePlannerDeployment
  \/ WriteStatus

\* An informer catches up.
SyncCache(kind) ==
  /\ kind \in Lagging
  /\ cache[kind] # store[kind]
  /\ cache' = [cache EXCEPT ![kind] = store[kind]]
  /\ UNCHANGED <<as, rbg, store, cluster_role, queue, worker, created, misjudged, faults>>

\* The process ends and starts again: its caches are filled by a fresh list, and
\* every AutoScaler is reconciled.
RestartOperator ==
  /\ Done
  /\ cache' = [kind \in Lagging |-> store[kind]]
  /\ queue' = {k \in Keys : Exists(k)}
  /\ UNCHANGED <<as, rbg, store, cluster_role, created, misjudged>>

\* A call fails, before or after the API server carried it out.
CallFails ==
  /\ pc # "idle"
  /\ Retry
  /\ UNCHANGED <<as, rbg, store, cluster_role, cache, created, misjudged>>

-----------------------------------------------------------------------------
(* Users *)

\* The API server changes AutoScaler k: the operator is notified, and its copy,
\* if it is working on k, gets outdated.
Change(k, object) ==
  /\ as' = [as EXCEPT ![k] = object]
  /\ queue' = queue \cup {k}
  /\ outdated' = (outdated \/ k = key)
  /\ UNCHANGED <<rbg, store, cluster_role, cache, pc, key, ras, gpus, report, misjudged>>

CreateAutoScaler(k) ==
  /\ ~Exists(k)
  /\ created' = created + 1
  /\ \E spec \in Specs : Change(k, NewAutoScaler(created', spec))

EditAutoScaler(k) ==
  /\ Exists(k)
  /\ \E spec \in (Specs \cup {InvalidSpec}) \ {as[k].spec} :
       Change(k, [as[k] EXCEPT !.spec = spec])
  /\ UNCHANGED created

DeleteAutoScaler(k) ==
  /\ Exists(k) /\ ~as[k].deleting
  /\ Change(k, IF as[k].finalizer THEN [as[k] EXCEPT !.deleting = TRUE] ELSE Absent)
  /\ UNCHANGED created

\* The RBG is applied, with other requests perhaps, or deleted; nobody tells the
\* operator.
ChangeGroup(k) ==
  /\ rbg' \in {[rbg EXCEPT ![k] = g] : g \in (GroupGpus \cup {0}) \ {rbg[k]}}
  /\ UNCHANGED <<as, store, cluster_role, cache, queue, worker, created, misjudged>>

\* A user brings profiling data of his own, or throws it away.
ChangeProfile(k) ==
  /\ Put("profile", k, ~store.profile[k])
  /\ UNCHANGED <<as, rbg, cluster_role, cache, queue, worker, created, misjudged>>

DeleteDeployment(k) ==
  /\ store.deployment[k] # NoDeployment
  /\ Put("deployment", k, NoDeployment)
  /\ UNCHANGED <<as, rbg, cluster_role, cache, queue, worker, created, misjudged>>

-----------------------------------------------------------------------------
(* The cluster *)

\* The garbage collector removes what an AutoScaler that is gone owned.
CollectGarbage(k) ==
  /\ LET stale(uid) == uid # 0 /\ uid # as[k].uid IN
     \/ stale(store.account[k]) /\ Put("account", k, 0)
     \/ stale(store.job[k].owner) /\ Put("job", k, NoJob)
     \/ stale(store.deployment[k].owner) /\ Put("deployment", k, NoDeployment)
  /\ UNCHANGED <<as, rbg, cluster_role, cache, queue, worker, created, misjudged, faults>>

Running(k) == store.job[k].state = "running"
Accepted(k) == store.job[k].accepted

\* The profiler stores its results before its pod ends.
WriteProfile(k) ==
  /\ Running(k) /\ Accepted(k)
  /\ ~store.profile[k]
  /\ Put("profile", k, TRUE)
  /\ UNCHANGED <<as, rbg, cluster_role, cache, queue, worker, created, misjudged, faults>>

FinishJob(k) ==
  /\ Running(k) /\ Accepted(k)
  /\ store.profile[k]
  /\ Put("job", k, [store.job[k] EXCEPT !.state = "succeeded"])
  /\ UNCHANGED <<as, rbg, cluster_role, cache, queue, worker, created, misjudged, faults>>

\* A profiler pod fails; the Job starts another one backoffLimit times.
AfterFailure(job) ==
  [owner |-> job.owner, accepted |-> job.accepted, failed |-> job.failed + 1,
   state |-> IF job.failed < backoffLimit THEN "running" ELSE "failed"]

PodFailed(k) ==
  /\ Running(k)
  /\ Put("job", k, AfterFailure(store.job[k]))
  /\ UNCHANGED <<as, rbg, cluster_role, cache, queue, worker, created, misjudged>>

\* argparse: "unrecognized arguments", exit status 2.
RejectArguments(k) == ~Accepted(k) /\ PodFailed(k) /\ UNCHANGED faults

Cluster ==
  \/ \E k \in Keys : CollectGarbage(k) \/ WriteProfile(k) \/ FinishJob(k) \/ RejectArguments(k)
  \/ \E kind \in Kinds : SyncCache(kind)

Disturbance ==
  /\ faults < MaxFaults
  /\ faults' = faults + 1
  /\ \/ \E k \in Keys :
          \/ "create" \in Faults /\ CreateAutoScaler(k)
          \/ "edit" \in Faults /\ EditAutoScaler(k)
          \/ "delete" \in Faults /\ DeleteAutoScaler(k)
          \/ "group" \in Faults /\ ChangeGroup(k)
          \/ "profile" \in Faults /\ ChangeProfile(k)
          \/ "deployment" \in Faults /\ DeleteDeployment(k)
          \/ "pod" \in Faults /\ Accepted(k) /\ PodFailed(k)
     \/ "error" \in Faults /\ CallFails
     \/ "crash" \in Faults /\ RestartOperator

-----------------------------------------------------------------------------
\* AutoScalers just created, beside RBGs that may or may not be there yet.
Init ==
  /\ \E uids \in [Keys -> 1..Cardinality(Keys)] :
       /\ \A k, l \in Keys : uids[k] = uids[l] => k = l
       /\ as \in {[k \in Keys |-> NewAutoScaler(uids[k], spec[k])] : spec \in [Keys -> Specs]}
  /\ rbg \in [Keys -> GroupGpus \cup {0}]
  /\ store = EmptyStore /\ cluster_role = FALSE
  /\ cache = [kind \in Lagging |-> EmptyStore[kind]]
  /\ queue = Keys
  /\ pc = "idle" /\ key = NoKey /\ ras = Absent /\ outdated = FALSE /\ gpus = 0 /\ report = None
  /\ created = Cardinality(Keys)
  /\ misjudged = {}
  /\ faults = 0

\* What a step of the worker does beside its call: it leaves the rest of the world
\* alone, and where it goes on because of what the cache showed of the binding
\* (clean-up done, binding ensured), history keeps whether that was so.
Aside ==
  /\ misjudged' =
       IF <<pc, pc'>> \notin {<<"cleanup", "release">>, <<"binding", "profile">>}
       THEN misjudged
       ELSE IF Seen("binding")[key.name] = store.binding[key.name]
       THEN misjudged \ {key}
       ELSE misjudged \cup {key}
  /\ UNCHANGED <<rbg, cache, created, faults>>

Work == (OperatorStep \/ \E k \in Keys : Reconcile(k)) /\ Aside

Next == Work \/ Cluster \/ Disturbance

Spec == Init /\ [][Next]_vars

\* The worker is scheduled and serves every key on its queue; caches, garbage
\* collector and profiler get to their work.
Fairness ==
  /\ WF_vars(OperatorStep /\ Aside)
  /\ \A k \in Keys :
       /\ SF_vars(Reconcile(k) /\ Aside)
       /\ WF_vars(CollectGarbage(k))
       /\ WF_vars(WriteProfile(k) \/ FinishJob(k) \/ RejectArguments(k))
  /\ \A kind \in Kinds : WF_vars(SyncCache(kind))

FairSpec == Spec /\ Fairness

-----------------------------------------------------------------------------
Uids == 0..created
Phases == {None, "Pending", "Initializing", "Ready", "Failed"}
AutoScalers ==
  [uid : Uids, spec : Specs \cup {InvalidSpec, None}, deleting : BOOLEAN, finalizer : BOOLEAN,
   phase : Phases]
Jobs ==
  {job \in [owner : Uids, accepted : BOOLEAN, state : {None, "running", "succeeded", "failed"},
            failed : 0..(backoffLimit + 1)] :
     job.state = "running" => job.failed <= backoffLimit}
Deployments == [owner : Uids, spec : Specs \cup {None}, gpus : GroupGpus \cup {0}]

Contents(kind) ==
  CASE kind = "account" -> [Keys -> Uids]
    [] kind = "binding" -> [Names -> Namespaces \cup {None}]
    [] kind = "profile" -> [Keys -> BOOLEAN]
    [] kind = "job" -> [Keys -> Jobs]
    [] kind = "deployment" -> [Keys -> Deployments]

\* Types, and what the worker knows at each step: it deploys only for a valid
\* spec and the GPUs of an RBG it has seen, and it deals with a key from the
\* moment it has read its object.
TypeOK ==
  /\ as \in [Keys -> AutoScalers]
  /\ rbg \in [Keys -> GroupGpus \cup {0}]
  /\ DOMAIN store = Kinds /\ \A kind \in Kinds : store[kind] \in Contents(kind)
  /\ DOMAIN cache = Lagging /\ \A kind \in Lagging : cache[kind] \in Contents(kind)
  /\ cluster_role \in BOOLEAN
  /\ queue \subseteq Keys
  /\ pc \in {"idle", "finalizer", "cleanup", "release", "group", "account", "role", "binding",
             "profile", "job", "deployment", "status"}
  /\ key \in Keys \cup {NoKey} /\ (key = NoKey <=> pc = "idle")
  /\ ras \in AutoScalers /\ (pc # "idle" => ras.uid # 0)
  /\ outdated \in BOOLEAN
  /\ gpus \in GroupGpus \cup {0}
  /\ pc \in {"account", "role", "binding", "profile", "job", "deployment"}
       => gpus # 0 /\ ras.spec \in Specs
  /\ report \in Phases /\ (pc = "status" <=> report # None)
  /\ misjudged \subseteq Keys
  /\ created \in Nat /\ faults \in 0..MaxFaults

\* A ClusterRoleBinding, which no owner reference can clean up, outlives the
\* finalizer of the AutoScaler it was made for only if clean-up went by a cache
\* that did not show it (see BindingCleaned): not because the object is deleted
\* while RBAC is being set up, nor because of failed calls and restarts.
OrphanWasMissed ==
  \A n \in Names :
    store.binding[n] # None =>
      \E k \in Keys : k.name = n /\ k.namespace = store.binding[n]
                    /\ (as[k].finalizer \/ k \in misjudged)

\* An AutoScaler that is Ready and not being deleted has its binding, through
\* half-made RBAC, retries and a predecessor of the same key, unless ensureRBAC
\* took a binding for existing that the cache still showed and the predecessor's
\* clean-up had deleted.  Provisions says that this does not last.
ReadyIsBound ==
  \A k \in Keys :
    as[k].phase = "Ready" /\ ~as[k].deleting =>
      store.binding[k.name] = k.namespace \/ k \in misjudged

\* An AutoScaler that turns Ready has a planner for the spec it has at that
\* moment, unless somebody removed the Deployment: an edit made while the
\* reconcile was under way is not reported as in force.
ReadyIsCurrent ==
  [][\A k \in Keys :
       as[k].phase # "Ready" /\ as'[k].phase = "Ready" =>
         store.deployment[k] = NoDeployment \/ store.deployment[k].spec = as[k].spec]_vars

\* The operator keeps its promise: charge before grant, grant before deployment,
\* and no grant left when it lets go, as far as its cache of the bindings lets it
\* know: every exception is one where that cache was behind.
Promise == INSTANCE Provisioning WITH
  charge   <- {k \in Keys : as[k].finalizer},
  granted  <- {k \in Keys : store.binding[k.name] = k.namespace},
  known    <- {k \in Keys : Seen("binding")[k.name] = k.namespace},
  deployed <- {k \in Keys : store.deployment[k] # NoDeployment}
KeepsPromise == Promise!Spec

-----------------------------------------------------------------------------
Valid(k) == Exists(k) /\ as[k].spec # InvalidSpec

\* The profile is there or a profiler may still produce it.
Profilable(k) == store.profile[k] \/ store.job[k].state \notin {"failed", "succeeded"}

Provisioned(k) ==
  /\ as[k].phase = "Ready"
  /\ store.account[k] = as[k].uid
  /\ cluster_role /\ store.binding[k.name] = k.namespace
  /\ store.deployment[k] = NewDeployment(as[k].uid, as[k].spec, rbg[k])

\* Once the disturbances are over, an AutoScaler with an RBG comes to Ready with
\* a planner for its current spec and the RBG's current GPUs, however far the
\* caches lagged, whatever failed half-way, and although an AutoScaler of the
\* same name may have left its Deployment, Job and ServiceAccount behind.
Provisions ==
  \A k \in Keys :
    <>[](Valid(k) /\ ~as[k].deleting /\ rbg[k] # 0 /\ Profilable(k) => Provisioned(k))

\* A deleted AutoScaler with a valid spec goes, and what was made for it goes
\* with it, but for a binding that clean-up missed.
CleansUp ==
  \A k \in Keys :
    /\ <>[](Valid(k) => ~as[k].deleting)
    /\ <>[](~Exists(k) => /\ store.account[k] = 0
                          /\ store.binding[k.name] # k.namespace \/ k \in misjudged
                          /\ store.job[k] = NoJob /\ store.deployment[k] = NoDeployment)

-----------------------------------------------------------------------------
\* controller.go, at ensureRBAC: "ClusterRoleBinding (per CR, cleaned via
\* finalizer)".  First half: an AutoScaler that is Ready and not being deleted has
\* a binding for its own namespace; with another of its name beside it, it may not.
BindingPerAutoScaler ==
  \A k \in Keys :
    as[k].phase = "Ready" /\ ~as[k].deleting => store.binding[k.name] = k.namespace

\* Second half: a binding does not outlive the finalizer of its AutoScaler.  It
\* does if the AutoScaler is deleted before the cache shows the binding: clean-up
\* takes it for absent.
BindingCleaned ==
  \A n \in Names :
    store.binding[n] # None =>
      \E k \in Keys : k.name = n /\ k.namespace = store.binding[n] /\ as[k].finalizer

\* README, How It Works: "Operator runs a profiling Job to generate performance
\* data".
ProfilingCompletes == \A k \in Keys : Running(k) ~> store.profile[k]
=============================================================================
