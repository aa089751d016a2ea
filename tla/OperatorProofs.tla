--------------------------- MODULE OperatorProofs ---------------------------
(***************************************************************************)
(* Theorems of Operator.                                                   *)
(***************************************************************************)
EXTENDS Operator, FiniteSetTheorems, TLAPS

\* An AutoScaler that is there has a UID, and a spec somebody wrote.
Objects ==
  \A k \in Keys : Exists(k) => as[k].uid # 0 /\ as[k].spec \in Specs \cup {InvalidSpec}

\* The worker's copy is the object unless a conflict awaits it.
Copy == pc # "idle" /\ ~outdated => ras = as[key]

\* Past the finalizer, the worker deals with a valid spec.
ValidCopy == pc \in {"finalizer", "group"} => ras.spec \in Specs

\* From the finalizer to the Deployment, the object holds the finalizer.
Charged ==
  pc \in {"group", "account", "role", "binding", "profile", "job", "deployment"}
    => as[key].finalizer

\* A planner about to be reported is the one its AutoScaler copy asked for.
ReadyBacked ==
  pc = "status" /\ report = "Ready" =>
    store.deployment[key] = NoDeployment \/ store.deployment[key].spec = ras.spec

IInv == TypeOK /\ Objects /\ Copy /\ ValidCopy /\ Charged /\ ReadyBacked

-----------------------------------------------------------------------------
(* Types *)

StoreOK == DOMAIN store = Kinds /\ \A kind \in Kinds : store[kind] \in Contents(kind)
CacheOK == DOMAIN cache = Lagging /\ \A kind \in Lagging : cache[kind] \in Contents(kind)

\* The types the store holds, one by one.
LEMMA StoreParts ==
  StoreOK <=> /\ DOMAIN store = Kinds
              /\ store["account"] \in [Keys -> Uids]
              /\ store["binding"] \in [Names -> Namespaces \cup {None}]
              /\ store["profile"] \in [Keys -> BOOLEAN]
              /\ store["job"] \in [Keys -> Jobs]
              /\ store["deployment"] \in [Keys -> Deployments]
  BY DEF StoreOK, Kinds, Contents

\* UIDs only grow in number, and with them every type that holds one.
LEMMA TypesGrow ==
  ASSUME created \in Nat, created' \in Nat, created <= created'
  PROVE  /\ Uids \subseteq Uids'
         /\ AutoScalers \subseteq AutoScalers'
         /\ \A kind \in Kinds : Contents(kind) \subseteq Contents(kind)'
  <1>1. Uids \subseteq Uids'
    BY DEF Uids
  <1>2. AutoScalers \subseteq AutoScalers'
    BY <1>1 DEF AutoScalers
  <1>3. Jobs \subseteq Jobs' /\ Deployments \subseteq Deployments'
    BY <1>1 DEF Jobs, Deployments
  <1>4. Contents("account") \subseteq Contents("account")'
    BY <1>1 DEF Contents
  <1>5. Contents("binding") \subseteq Contents("binding")' /\ Contents("profile") \subseteq Contents("profile")'
    BY DEF Contents
  <1>6. Contents("job") \subseteq Contents("job")'
    BY <1>3 DEF Contents
  <1>7. Contents("deployment") \subseteq Contents("deployment")'
    BY <1>3 DEF Contents
  <1> QED
    BY <1>1, <1>2, <1>4, <1>5, <1>6, <1>7 DEF Kinds

\* A new object of the right kind keeps the store well typed.
LEMMA PutTyped ==
  ASSUME StoreOK, NEW kind \in Kinds, NEW i, NEW object, Put(kind, i, object),
         created' = created,
         [store[kind] EXCEPT ![i] = object] \in Contents(kind)
  PROVE  StoreOK'
  <1>1. \A other \in Kinds : Contents(other)' = Contents(other)
    BY DEF Contents, Kinds, Uids, Jobs, Deployments
  <1>2. DOMAIN store' = Kinds
    BY DEF StoreOK, Put
  <1>3. store'[kind] = [store[kind] EXCEPT ![i] = object]
    BY DEF StoreOK, Put
  <1>4. \A other \in Kinds \ {kind} : store'[other] = store[other]
    BY DEF StoreOK, Put
  <1> QED
    BY <1>1, <1>2, <1>3, <1>4 DEF StoreOK

LEMMA NewObjectsTyped ==
  ASSUME NEW uid \in Uids, NEW g \in GroupGpus \cup {0}, NEW spec \in Specs, created \in Nat
  PROVE  /\ NoJob \in Jobs /\ NewJob(uid, spec) \in Jobs
         /\ NoDeployment \in Deployments /\ NewDeployment(uid, spec, g) \in Deployments
         /\ Absent \in AutoScalers /\ NewAutoScaler(uid, spec) \in AutoScalers
  <1>1. 0 \in Uids
    BY DEF Uids
  <1>2. (JobArgs \subseteq ProfilerFlags[spec]) \in BOOLEAN
    OBVIOUS
  <1>3. NoJob \in Jobs /\ NewJob(uid, spec) \in Jobs
    BY <1>1, <1>2 DEF NoJob, NewJob, Jobs, backoffLimit, None
  <1>4. NoDeployment \in Deployments /\ NewDeployment(uid, spec, g) \in Deployments
    BY <1>1 DEF NoDeployment, NewDeployment, Deployments
  <1>5. Absent \in AutoScalers /\ NewAutoScaler(uid, spec) \in AutoScalers
    BY <1>1 DEF Absent, NewAutoScaler, AutoScalers, Phases
  <1> QED
    BY <1>3, <1>4, <1>5

-----------------------------------------------------------------------------
(* The worker *)

\* The part of TypeOK about the worker.
WorkerOK ==
  /\ pc \in {"idle", "finalizer", "cleanup", "release", "group", "account", "role", "binding",
             "profile", "job", "deployment", "status"}
  /\ key \in Keys \cup {NoKey} /\ (key = NoKey <=> pc = "idle")
  /\ ras \in AutoScalers /\ (pc # "idle" => ras.uid # 0)
  /\ outdated \in BOOLEAN
  /\ gpus \in GroupGpus \cup {0}
  /\ pc \in {"account", "role", "binding", "profile", "job", "deployment"}
       => gpus # 0 /\ ras.spec \in Specs
  /\ report \in Phases /\ (pc = "status" <=> report # None)

\* What is known of the worker, and of everything else.
WorkerInv == WorkerOK /\ Copy /\ ValidCopy /\ Charged /\ ReadyBacked
OthersInv ==
  /\ as \in [Keys -> AutoScalers] /\ Objects
  /\ rbg \in [Keys -> GroupGpus \cup {0}]
  /\ StoreOK /\ CacheOK
  /\ cluster_role \in BOOLEAN
  /\ queue \subseteq Keys /\ misjudged \subseteq Keys
  /\ created \in Nat /\ faults \in 0..MaxFaults

LEMMA Parts == IInv <=> WorkerInv /\ OthersInv
  BY DEF IInv, TypeOK, WorkerInv, WorkerOK, OthersInv, StoreOK, CacheOK

LEMMA PartsNext == (WorkerInv /\ OthersInv)' => IInv'
  BY DEF IInv, TypeOK, WorkerInv, WorkerOK, OthersInv, StoreOK, CacheOK

\* No key has the name of no key.
LEMMA KeysAreKeys == NoKey \notin Keys /\ IsFiniteSet(Keys)
  BY OperatorAssumption DEF NoKey, None

\* A reconcile that is over, or put off, leaves nothing to know.
LEMMA DoneTyped ==
  ASSUME created' \in Nat, Done
  PROVE  WorkerInv'
  <1>1. 0 \in Uids'
    BY DEF Uids
  <1>2. Absent \in AutoScalers'
    BY <1>1 DEF Absent, AutoScalers, Phases
  <1> QED
    BY <1>2 DEF Done, WorkerInv, WorkerOK, Copy, ValidCopy, Charged, ReadyBacked, Phases, None

\* The worker at a key.
LEMMA AtKey ==
  ASSUME IInv, pc # "idle"
  PROVE  /\ key \in Keys /\ key.name \in Names /\ key.namespace \in Namespaces
         /\ ras \in AutoScalers /\ ras.uid # 0 /\ ras.uid \in Uids
         /\ ~outdated => ras = as[key] /\ Exists(key)
  <1>1. key \in Keys /\ ras \in AutoScalers /\ ras.uid # 0
    BY DEF IInv, TypeOK
  <1>2. key.name \in Names /\ key.namespace \in Namespaces
    BY <1>1 DEF Names, Namespaces
  <1>3. ras.uid \in Uids
    BY <1>1 DEF AutoScalers
  <1>4. ~outdated => ras = as[key]
    BY DEF IInv, Copy
  <1>5. Absent.uid = 0
    BY DEF Absent
  <1> QED
    BY <1>1, <1>2, <1>3, <1>4, <1>5 DEF Exists

\* The next step of the same reconcile.
LEMMA GoOn ==
  ASSUME IInv, pc # "idle", UNCHANGED <<as, created>>,
         NEW label, Goto(label),
         \/ pc = "cleanup" /\ label = "release"
         \/ /\ pc \in {"account", "role", "binding", "profile", "job"}
            /\ label \in {"role", "binding", "profile", "job", "deployment"}
  PROVE  WorkerInv'
  <1>1. AutoScalers' = AutoScalers
    BY DEF AutoScalers, Uids
  <1>2. WorkerOK'
    BY <1>1 DEF IInv, TypeOK, Goto, WorkerOK, Phases, None
  <1>3. Copy' /\ ValidCopy' /\ ReadyBacked'
    BY DEF IInv, Copy, ValidCopy, ReadyBacked, Goto
  <1>4. Charged'
    BY DEF IInv, Charged, Goto
  <1> QED
    BY <1>2, <1>3, <1>4 DEF WorkerInv

\* The reconcile ends with a report; Ready needs a Deployment.
LEMMA ReportTyped ==
  ASSUME IInv, pc # "idle", UNCHANGED <<as, created>>,
         NEW phase \in Phases \ {None}, Report(phase),
         phase = "Ready" => store'.deployment[key].spec = ras.spec
  PROVE  WorkerInv'
  <1>1. AutoScalers' = AutoScalers
    BY DEF AutoScalers, Uids
  <1>2. WorkerOK'
    BY <1>1 DEF IInv, TypeOK, Report, WorkerOK
  <1>3. Copy' /\ ValidCopy' /\ ReadyBacked' /\ Charged'
    BY DEF IInv, Copy, ValidCopy, ReadyBacked, Charged, Report
  <1> QED
    BY <1>2, <1>3 DEF WorkerInv

-----------------------------------------------------------------------------
(* One lemma per step of the operator *)

LEMMA StoreKept ==
  ASSUME StoreOK, UNCHANGED <<store, created>>
  PROVE  StoreOK'
  <1>1. \A kind \in Kinds : Contents(kind)' = Contents(kind)
    BY DEF Contents, Kinds, Uids, Jobs, Deployments
  <1> QED
    BY <1>1 DEF StoreOK

\* What the operator does not touch stays well typed.
LEMMA OthersKept ==
  ASSUME IInv, UNCHANGED <<rbg, cache, created, faults>>,
         misjudged' \subseteq Keys,
         StoreOK', queue' \subseteq Keys, cluster_role' \in BOOLEAN,
         as' \in [Keys -> AutoScalers], Objects'
  PROVE  OthersInv'
  <1>1. AutoScalers' = AutoScalers
    BY DEF AutoScalers, Uids
  <1>2. \A kind \in Kinds : Contents(kind)' = Contents(kind)
    BY DEF Contents, Kinds, Uids, Jobs, Deployments
  <1>3. Lagging \subseteq Kinds
    BY OperatorAssumption
  <1>4. CacheOK'
    BY <1>2, <1>3, Parts DEF OthersInv, CacheOK
  <1> QED
    BY <1>1, <1>4, Parts DEF OthersInv

\* The reconcile of a key begins.
LEMMA ReconcileTyped ==
  ASSUME IInv, NEW k \in Keys, Reconcile(k), UNCHANGED <<rbg, cache, created, faults>>,
         misjudged' \subseteq Keys
  PROVE  IInv'
  <1>1. OthersInv'
    <2>1. OthersInv
      BY Parts
    <2>2. StoreOK' /\ Objects'
      BY <2>1, StoreKept DEF OthersInv, Reconcile, Objects, Exists
    <2>3. queue' \subseteq Keys
      BY <2>1 DEF OthersInv, Reconcile
    <2> QED
      BY <2>1, <2>2, <2>3, OthersKept DEF OthersInv, Reconcile
  <1>2. WorkerInv'
    <2>1. AutoScalers' = AutoScalers
      BY DEF AutoScalers, Uids
    <2>2. CASE UNCHANGED worker
      BY <2>1, <2>2, Parts
      DEF Reconcile, worker, WorkerInv, WorkerOK, Copy, ValidCopy, Charged, ReadyBacked
    <2>3. CASE ~UNCHANGED worker
      <3>1. /\ Exists(k)
            /\ key' = k /\ ras' = as[k] /\ as' = as /\ outdated' = FALSE /\ gpus' = 0
            /\ IF as[k].spec = InvalidSpec
               THEN pc' = "status" /\ report' = "Failed"
               ELSE /\ report' = None
                    /\ pc' = IF as[k].deleting THEN "cleanup"
                             ELSE IF as[k].finalizer THEN "group" ELSE "finalizer"
        BY <2>3 DEF Reconcile
      <3>2. as[k] \in AutoScalers /\ as[k].uid # 0 /\ as[k].spec \in Specs \cup {InvalidSpec}
        BY <3>1 DEF IInv, TypeOK, Objects
      <3>3. k # NoKey
        BY KeysAreKeys
      <3>4. WorkerOK'
        BY <2>1, <3>1, <3>2, <3>3 DEF WorkerOK, Phases, None
      <3>5. Copy' /\ ValidCopy' /\ Charged' /\ ReadyBacked'
        BY <3>1, <3>2 DEF Copy, ValidCopy, Charged, ReadyBacked
      <3> QED
        BY <3>4, <3>5 DEF WorkerInv
    <2> QED
      BY <2>2, <2>3
  <1> QED
    BY <1>1, <1>2, PartsNext

LEMMA FinalizerTyped ==
  ASSUME IInv, AddFinalizer \/ RemoveFinalizer, UNCHANGED <<rbg, cache, created, faults>>,
         misjudged' \subseteq Keys
  PROVE  IInv'
  <1>0. pc # "idle" /\ OthersInv /\ created' \in Nat
    BY Parts DEF AddFinalizer, RemoveFinalizer, OthersInv
  <1>1. StoreOK' /\ cluster_role' \in BOOLEAN
    BY <1>0, StoreKept DEF AddFinalizer, RemoveFinalizer, OthersInv
  <1>2. CASE UNCHANGED as /\ Retry
    <2>1. Objects' /\ queue' \subseteq Keys
      BY <1>0, <1>2, AtKey DEF OthersInv, Objects, Exists, Retry
    <2> QED
      BY <1>0, <1>1, <1>2, <2>1, OthersKept, DoneTyped, PartsNext DEF Retry, OthersInv
  <1>3. CASE AddFinalizer /\ ~outdated
    <2>1. /\ as' = [as EXCEPT ![key].finalizer = TRUE]
          /\ ras' = as'[key]
          /\ queue' = queue \cup {key}
          /\ pc = "finalizer" /\ pc' = "group"
          /\ UNCHANGED <<key, outdated, gpus, report>>
      BY <1>3 DEF AddFinalizer
    <2>2. key \in Keys /\ as[key] \in AutoScalers /\ as[key] = ras /\ ras.uid # 0 /\ Exists(key)
      BY <1>0, <1>3, AtKey DEF OthersInv
    <2>3. as'[key] = [as[key] EXCEPT !.finalizer = TRUE] /\ as'[key] \in AutoScalers
      BY <1>0, <2>1, <2>2 DEF OthersInv, AutoScalers
    <2>4. as'[key].uid = as[key].uid /\ as'[key].spec = as[key].spec /\ as'[key].finalizer
      BY <2>2, <2>3 DEF AutoScalers
    <2>5. as' \in [Keys -> AutoScalers] /\ \A k \in Keys \ {key} : as'[k] = as[k]
      BY <1>0, <2>1, <2>2, <2>3 DEF OthersInv
    <2>6. Objects'
      BY <1>0, <2>2, <2>4, <2>5 DEF OthersInv, Objects, Exists
    <2>7. OthersInv'
      BY <1>0, <1>1, <2>1, <2>2, <2>5, <2>6, OthersKept DEF OthersInv
    <2>8. AutoScalers' = AutoScalers
      BY DEF AutoScalers, Uids
    <2>9. WorkerInv'
      BY <2>1, <2>2, <2>3, <2>4, <2>8, Parts
      DEF WorkerInv, WorkerOK, Copy, ValidCopy, Charged, ReadyBacked
    <2> QED
      BY <2>7, <2>9, PartsNext
  <1>4. CASE RemoveFinalizer /\ ~outdated
    <2>1. as' = [as EXCEPT ![key] = Absent] /\ Done /\ queue' = queue
      BY <1>4 DEF RemoveFinalizer
    <2>2. key \in Keys /\ Absent \in AutoScalers
      <3>1. 0 \in Uids
        BY <1>0 DEF Uids, OthersInv
      <3> QED
        BY <1>0, <3>1, AtKey DEF Absent, AutoScalers, Phases
    <2>3. as' \in [Keys -> AutoScalers] /\ Objects'
      BY <1>0, <2>1, <2>2 DEF OthersInv, Objects, Exists
    <2> QED
      BY <1>0, <1>1, <2>1, <2>3, OthersKept, DoneTyped, PartsNext DEF OthersInv
  <1> QED
    BY <1>2, <1>3, <1>4 DEF AddFinalizer, RemoveFinalizer

\* A step that leaves the AutoScaler objects alone.
LEMMA AsKept ==
  ASSUME IInv, pc # "idle", UNCHANGED <<as, rbg, cache, created, faults>>,
         misjudged' \subseteq Keys,
         StoreOK', cluster_role' \in BOOLEAN, WorkerInv',
         queue' = queue \/ queue' = queue \cup {key}
  PROVE  IInv'
  <1>1. OthersInv /\ queue' \subseteq Keys
    BY Parts, AtKey DEF OthersInv
  <1>2. Objects'
    BY <1>1 DEF OthersInv, Objects, Exists
  <1>3. OthersInv'
    BY <1>1, <1>2, OthersKept DEF OthersInv
  <1> QED
    BY <1>3, PartsNext

\* Such a step that puts the reconcile off.
LEMMA RetryKept ==
  ASSUME IInv, pc # "idle", UNCHANGED <<as, rbg, cache, created, faults, store, cluster_role>>, Retry,
         misjudged' \subseteq Keys
  PROVE  IInv'
  <1>1. created' \in Nat /\ StoreOK' /\ cluster_role' \in BOOLEAN
    BY Parts, StoreKept DEF OthersInv
  <1> QED
    BY <1>1, DoneTyped, AsKept DEF Retry

\* ... that writes nothing at all, or one object.
LEMMA Written ==
  ASSUME IInv, UNCHANGED <<created>>, NEW kind \in Kinds, NEW i, NEW object,
         Put(kind, i, object),
         \/ kind = "account" /\ object \in Uids
         \/ kind = "binding" /\ object \in Namespaces \cup {None}
         \/ kind = "profile" /\ object \in BOOLEAN
         \/ kind = "job" /\ object \in Jobs
         \/ kind = "deployment" /\ object \in Deployments
  PROVE  StoreOK'
  <1>1. StoreOK
    BY Parts DEF OthersInv
  <1>2. /\ Contents("account") = [Keys -> Uids]
        /\ Contents("binding") = [Names -> Namespaces \cup {None}]
        /\ Contents("profile") = [Keys -> BOOLEAN]
        /\ Contents("job") = [Keys -> Jobs]
        /\ Contents("deployment") = [Keys -> Deployments]
    BY DEF Contents
  <1>3. [store[kind] EXCEPT ![i] = object] \in Contents(kind)
    BY <1>1, <1>2 DEF StoreOK
  <1> QED
    BY <1>1, <1>3, PutTyped

LEMMA CleanupTyped ==
  ASSUME IInv, CleanupClusterResources, UNCHANGED <<rbg, cache, created, faults>>,
         misjudged' \subseteq Keys
  PROVE  IInv'
  <1>0. pc # "idle" /\ UNCHANGED <<as, cluster_role>> /\ cluster_role' \in BOOLEAN /\ StoreOK
    BY Parts DEF CleanupClusterResources, OthersInv
  <1>1. CASE Retry /\ UNCHANGED store
    BY <1>0, <1>1, RetryKept
  <1>2. CASE Goto("release") /\ UNCHANGED <<store, queue>>
    <2>1. WorkerInv'
      BY <1>0, <1>2, GoOn DEF CleanupClusterResources
    <2> QED
      BY <1>0, <1>2, <2>1, StoreKept, AsKept
  <1>3. CASE Put("binding", key.name, None) /\ Goto("release") /\ UNCHANGED queue
    <2>1. WorkerInv'
      BY <1>0, <1>3, GoOn DEF CleanupClusterResources
    <2>2. StoreOK'
      BY <1>3, Written DEF Kinds
    <2> QED
      BY <1>0, <1>3, <2>1, <2>2, AsKept
  <1> QED
    BY <1>1, <1>2, <1>3 DEF CleanupClusterResources

LEMMA GetGroupTyped ==
  ASSUME IInv, GetGroup, UNCHANGED <<rbg, cache, created, faults>>,
         misjudged' \subseteq Keys
  PROVE  IInv'
  <1>0. /\ pc = "group" /\ UNCHANGED <<as, cluster_role, queue>> /\ cluster_role' \in BOOLEAN
        /\ StoreOK' /\ key \in Keys /\ rbg \in [Keys -> GroupGpus \cup {0}]
    BY Parts, AtKey, StoreKept DEF GetGroup, OthersInv
  <1>1. CASE rbg[key] = 0
    <2>1. WorkerInv'
      BY <1>0, <1>1, ReportTyped DEF GetGroup, Phases, None
    <2> QED
      BY <1>0, <2>1, AsKept
  <1>2. CASE rbg[key] # 0
    <2>1. pc' = "account" /\ gpus' = rbg[key] /\ UNCHANGED <<key, ras, outdated, report>>
      BY <1>2 DEF GetGroup
    <2>2. AutoScalers' = AutoScalers
      BY DEF AutoScalers, Uids
    <2>3. WorkerInv'
      BY <1>0, <1>2, <2>1, <2>2, Parts
      DEF WorkerInv, WorkerOK, Copy, ValidCopy, Charged, ReadyBacked
    <2> QED
      BY <1>0, <2>3, AsKept
  <1> QED
    BY <1>1, <1>2

\* Service account, cluster role and binding.
LEMMA RbacTyped ==
  ASSUME IInv, EnsureServiceAccount \/ EnsureClusterRole \/ EnsureBinding,
         UNCHANGED <<rbg, cache, created, faults>>,
         misjudged' \subseteq Keys
  PROVE  IInv'
  <1>0. pc # "idle" /\ UNCHANGED as /\ cluster_role' \in BOOLEAN /\ StoreOK
    BY Parts DEF EnsureServiceAccount, EnsureClusterRole, EnsureBinding, OthersInv
  <1>1. CASE EnsureClusterRole
    <2>1. WorkerInv'
      BY <1>0, <1>1, GoOn DEF EnsureClusterRole
    <2> QED
      BY <1>0, <1>1, <2>1, StoreKept, AsKept DEF EnsureClusterRole
  <1>2. CASE EnsureServiceAccount
    <2>1. CASE Retry /\ UNCHANGED store
      BY <1>0, <1>2, <2>1, RetryKept DEF EnsureServiceAccount
    <2>2. CASE Goto("role") /\ UNCHANGED queue /\ (UNCHANGED store \/ Put("account", key, ras.uid))
      <3>1. WorkerInv'
        BY <1>0, <1>2, <2>2, GoOn DEF EnsureServiceAccount
      <3>2. StoreOK'
        BY <1>0, <2>2, StoreKept, Written, AtKey DEF Kinds
      <3> QED
        BY <1>0, <2>2, <3>1, <3>2, AsKept
    <2> QED
      BY <1>2, <2>1, <2>2 DEF EnsureServiceAccount
  <1>3. CASE EnsureBinding
    <2>1. CASE Retry /\ UNCHANGED store
      BY <1>0, <1>3, <2>1, RetryKept DEF EnsureBinding
    <2>2. CASE /\ Goto("profile") /\ UNCHANGED queue
               /\ UNCHANGED store \/ Put("binding", key.name, key.namespace)
      <3>1. WorkerInv'
        BY <1>0, <1>3, <2>2, GoOn DEF EnsureBinding
      <3>2. StoreOK'
        BY <1>0, <2>2, StoreKept, Written, AtKey DEF Kinds
      <3> QED
        BY <1>0, <2>2, <3>1, <3>2, AsKept
    <2> QED
      BY <1>3, <2>1, <2>2 DEF EnsureBinding
  <1> QED
    BY <1>1, <1>2, <1>3

\* handleProfiling.
LEMMA ProfilingTyped ==
  ASSUME IInv, CheckProfile \/ CreateProfilingJob \/ CheckJob,
         UNCHANGED <<rbg, cache, created, faults>>,
         misjudged' \subseteq Keys
  PROVE  IInv'
  <1>0. /\ pc \in {"profile", "job"} /\ UNCHANGED <<as, cluster_role, queue>>
        /\ cluster_role' \in BOOLEAN /\ StoreOK
    BY Parts DEF CheckProfile, CreateProfilingJob, CheckJob, OthersInv
  <1>1. StoreOK'
    <2>1. CASE UNCHANGED store
      BY <1>0, <2>1, StoreKept
    <2>2. CASE Put("job", key, NewJob(ras.uid, ras.spec))
      <3>1. ras.spec \in Specs /\ ras.uid \in Uids /\ created \in Nat
        BY <1>0, AtKey DEF IInv, TypeOK
      <3>2. NewJob(ras.uid, ras.spec) \in Jobs
        BY <3>1, NewObjectsTyped
      <3> QED
        BY <2>2, <3>2, Written DEF Kinds
    <2> QED
      BY <2>1, <2>2 DEF CheckProfile, CreateProfilingJob, CheckJob
  <1>2. CASE \E label \in {"deployment", "job"} : Goto(label)
    <2>1. WorkerInv'
      BY <1>0, <1>2, GoOn
    <2> QED
      BY <1>0, <1>1, <2>1, AsKept
  <1>3. CASE \E phase \in {"Initializing", "Failed"} : Report(phase)
    <2>1. WorkerInv'
      BY <1>0, <1>3, ReportTyped DEF Phases, None
    <2> QED
      BY <1>0, <1>1, <2>1, AsKept
  <1> QED
    BY <1>2, <1>3 DEF CheckProfile, CreateProfilingJob, CheckJob

LEMMA DeploymentTyped ==
  ASSUME IInv, EnsurePlannerDeployment, UNCHANGED <<rbg, cache, created, faults>>,
         misjudged' \subseteq Keys
  PROVE  IInv'
  <1> DEFINE existing == Seen("deployment")[key]
             object == NewDeployment(IF existing = NoDeployment THEN ras.uid ELSE existing.owner,
                                     ras.spec, gpus)
  <1>0. /\ pc = "deployment" /\ UNCHANGED <<as, cluster_role>> /\ cluster_role' \in BOOLEAN /\ StoreOK
        /\ key \in Keys /\ ras.uid \in Uids /\ ras.spec \in Specs /\ gpus \in GroupGpus \cup {0}
        /\ created \in Nat
    BY Parts, AtKey DEF EnsurePlannerDeployment, OthersInv, IInv, TypeOK
  <1>1. CASE existing # store.deployment[key]
    <2>1. Retry /\ UNCHANGED store
      BY <1>1 DEF EnsurePlannerDeployment
    <2> QED
      BY <1>0, <2>1, RetryKept
  <1>2. CASE existing = store.deployment[key]
    <2>1. Put("deployment", key, object) /\ Report("Ready") /\ UNCHANGED queue
      BY <1>2 DEF EnsurePlannerDeployment
    <2>2. store.deployment \in [Keys -> Deployments]
      BY <1>0, StoreParts
    <2>3. existing.owner \in Uids
      BY <1>0, <1>2, <2>2 DEF Deployments
    <2>4. object \in Deployments
      BY <1>0, <2>3, NewObjectsTyped
    <2>5. StoreOK'
      BY <2>1, <2>4, Written DEF Kinds
    <2>6. store'.deployment[key] = object
      BY <1>0, <2>1, <2>2, StoreParts DEF Put, Kinds
    <2>7. store'.deployment[key].spec = ras.spec
      BY <2>6 DEF NewDeployment
    <2>8. WorkerInv'
      BY <1>0, <2>1, <2>7, ReportTyped DEF Phases, None
    <2> QED
      BY <1>0, <2>1, <2>5, <2>8, AsKept
  <1> QED
    BY <1>1, <1>2

LEMMA StatusTyped ==
  ASSUME IInv, WriteStatus, UNCHANGED <<rbg, cache, created, faults>>,
         misjudged' \subseteq Keys
  PROVE  IInv'
  <1>0. /\ pc = "status" /\ UNCHANGED <<store, cluster_role>> /\ cluster_role' \in BOOLEAN
        /\ OthersInv /\ StoreOK' /\ created' \in Nat /\ Done
        /\ report \in Phases /\ queue' \subseteq Keys
    BY Parts, StoreKept, AtKey DEF WriteStatus, OthersInv, Retry, WorkerInv, WorkerOK
  <1>1. as' \in [Keys -> AutoScalers] /\ Objects'
    <2>1. CASE UNCHANGED as
      BY <1>0, <2>1 DEF OthersInv, Objects, Exists
    <2>2. CASE ~outdated /\ as' = [as EXCEPT ![key].phase = report]
      <3>1. key \in Keys /\ as[key] \in AutoScalers /\ Exists(key)
        BY <1>0, <2>2, AtKey DEF OthersInv
      <3>2. as'[key] = [as[key] EXCEPT !.phase = report] /\ as'[key] \in AutoScalers
        BY <1>0, <2>2, <3>1 DEF OthersInv, AutoScalers
      <3>3. as'[key].uid = as[key].uid /\ as'[key].spec = as[key].spec
        BY <3>1, <3>2 DEF AutoScalers
      <3>4. as' \in [Keys -> AutoScalers] /\ \A k \in Keys \ {key} : as'[k] = as[k]
        BY <1>0, <2>2, <3>1, <3>2 DEF OthersInv
      <3> QED
        BY <1>0, <3>1, <3>3, <3>4 DEF OthersInv, Objects, Exists
    <2> QED
      BY <2>1, <2>2 DEF WriteStatus
  <1> QED
    BY <1>0, <1>1, OthersKept, DoneTyped, PartsNext

\* Every step of the worker.
LEMMA WorkTyped ==
  ASSUME IInv, Work
  PROVE  IInv'
  <1>1. misjudged' \subseteq Keys
    <2>1. misjudged \subseteq Keys
      BY Parts DEF OthersInv
    <2>2. CASE pc = "idle"
      BY <2>1, <2>2 DEF Work, Aside
    <2>3. CASE pc # "idle"
      BY <2>1, <2>3, AtKey DEF Work, Aside
    <2> QED
      BY <2>2, <2>3
  <1> QED
    BY <1>1, ReconcileTyped, FinalizerTyped, CleanupTyped, GetGroupTyped, RbacTyped,
       ProfilingTyped, DeploymentTyped, StatusTyped
    DEF Work, OperatorStep, Aside

-----------------------------------------------------------------------------
(* Cluster and users *)

\* Objects of the store change, but no planner is put under another spec.
LEMMA StoreChanged ==
  ASSUME IInv, UNCHANGED <<as, cluster_role, queue, worker, created, misjudged>>,
         rbg' \in [Keys -> GroupGpus \cup {0}],
         StoreOK', CacheOK', faults' \in 0..MaxFaults,
         \A k \in Keys : store'.deployment[k] \in {store.deployment[k], NoDeployment}
  PROVE  IInv'
  <1>1. AutoScalers' = AutoScalers
    BY DEF AutoScalers, Uids
  <1>2. OthersInv'
    BY <1>1, Parts DEF OthersInv, Objects, Exists
  <1>3. WorkerOK' /\ Copy' /\ ValidCopy' /\ Charged'
    BY <1>1, Parts DEF worker, WorkerInv, WorkerOK, Copy, ValidCopy, Charged
  <1>4. ReadyBacked'
    <2>1. pc = "status" => key \in Keys
      BY DEF IInv, TypeOK
    <2> QED
      BY <2>1, Parts DEF worker, WorkerInv, ReadyBacked
  <1> QED
    BY <1>2, <1>3, <1>4, PartsNext DEF WorkerInv

\* One object is written, by anybody but the operator.
LEMMA PutByOthers ==
  ASSUME IInv, UNCHANGED <<as, rbg, cluster_role, cache, queue, worker, created, misjudged>>,
         faults' \in 0..MaxFaults,
         NEW k \in Keys, NEW kind \in Kinds, NEW object,
         Put(kind, k, object),
         \/ kind = "account" /\ object \in Uids
         \/ kind = "profile" /\ object \in BOOLEAN
         \/ kind = "job" /\ object \in Jobs
         \/ kind = "deployment" /\ object = NoDeployment
  PROVE  IInv'
  <1>1. OthersInv /\ StoreOK /\ rbg' \in [Keys -> GroupGpus \cup {0}]
    BY Parts DEF OthersInv
  <1>2. NoDeployment \in Deployments
    BY <1>1 DEF NoDeployment, Deployments, Uids, OthersInv
  <1>3. StoreOK'
    BY <1>2, Written
  <1>4. CacheOK'
    <2>1. \A other \in Kinds : Contents(other)' = Contents(other)
      BY DEF Contents, Kinds, Uids, Jobs, Deployments
    <2> QED
      BY <1>1, <2>1, OperatorAssumption DEF OthersInv, CacheOK
  <1>5. \A l \in Keys : store'.deployment[l] \in {store.deployment[l], NoDeployment}
    BY <1>1, StoreParts DEF Put, Kinds
  <1> QED
    BY <1>1, <1>3, <1>4, <1>5, StoreChanged

\* The next state of a Job is a Job.
LEMMA JobTyped ==
  ASSUME IInv, NEW k \in Keys
  PROVE  /\ [store.job[k] EXCEPT !.state = "succeeded"] \in Jobs
         /\ Running(k) => AfterFailure(store.job[k]) \in Jobs
         /\ NoJob \in Jobs /\ 0 \in Uids
  <1> DEFINE job == store.job[k]
  <1>1. job \in Jobs /\ created \in Nat
    BY Parts, StoreParts DEF OthersInv
  <1>2. 0 \in Uids
    BY <1>1 DEF Uids
  <1>3. NoJob \in Jobs
    BY <1>2 DEF NoJob, Jobs, backoffLimit, None
  <1>4. [job EXCEPT !.state = "succeeded"] \in Jobs
    BY <1>1 DEF Jobs
  <1>5. ASSUME Running(k)
        PROVE  AfterFailure(job) \in Jobs
    BY <1>1, <1>5 DEF Jobs, Running, backoffLimit, AfterFailure
  <1> QED
    BY <1>2, <1>3, <1>4, <1>5

\* What the cluster does on its own.
LEMMA ClusterTyped ==
  ASSUME IInv, Cluster
  PROVE  IInv'
  <1>0. OthersInv /\ faults \in 0..MaxFaults /\ created \in Nat
    BY Parts DEF OthersInv
  <1>1. ASSUME NEW k \in Keys, CollectGarbage(k)
        PROVE  IInv'
    <2>1. /\ UNCHANGED <<as, rbg, cluster_role, cache, queue, worker, created, misjudged>>
          /\ faults' \in 0..MaxFaults
      BY <1>0, <1>1 DEF CollectGarbage
    <2>2. \/ Put("account", k, 0)
          \/ Put("job", k, NoJob)
          \/ Put("deployment", k, NoDeployment)
      BY <1>1 DEF CollectGarbage
    <2> QED
      BY <2>1, <2>2, JobTyped, PutByOthers DEF Kinds
  <1>2. ASSUME NEW k \in Keys, WriteProfile(k)
        PROVE  IInv'
    BY <1>0, <1>2, PutByOthers DEF WriteProfile, Kinds
  <1>3. ASSUME NEW k \in Keys, FinishJob(k)
        PROVE  IInv'
    BY <1>0, <1>3, JobTyped, PutByOthers DEF FinishJob, Kinds
  <1>4. ASSUME NEW k \in Keys, RejectArguments(k)
        PROVE  IInv'
    BY <1>0, <1>4, JobTyped, PutByOthers DEF RejectArguments, PodFailed, Kinds
  <1>5. ASSUME NEW kind \in Kinds, SyncCache(kind)
        PROVE  IInv'
    <2>1. /\ kind \in Lagging /\ cache' = [cache EXCEPT ![kind] = store[kind]]
          /\ UNCHANGED <<as, rbg, store, cluster_role, queue, worker, created, misjudged, faults>>
      BY <1>5 DEF SyncCache
    <2>2. \A other \in Kinds : Contents(other)' = Contents(other)
      BY <2>1 DEF Contents, Kinds, Uids, Jobs, Deployments
    <2>3. CacheOK'
      BY <1>0, <2>1, <2>2, OperatorAssumption DEF OthersInv, CacheOK, StoreOK
    <2>4. StoreOK'
      BY <1>0, <2>1, StoreKept DEF OthersInv
    <2> QED
      BY <1>0, <2>1, <2>3, <2>4, StoreChanged DEF OthersInv
  <1> QED
    BY <1>1, <1>2, <1>3, <1>4, <1>5 DEF Cluster

\* Caches and store while UIDs are added.
LEMMA StoreGrows ==
  ASSUME StoreOK, CacheOK, UNCHANGED <<store, cache>>,
         created \in Nat, created' \in Nat, created <= created'
  PROVE  StoreOK' /\ CacheOK'
  <1>1. \A kind \in Kinds : Contents(kind) \subseteq Contents(kind)'
    BY TypesGrow
  <1>2. Lagging \subseteq Kinds
    BY OperatorAssumption
  <1> QED
    BY <1>1, <1>2 DEF StoreOK, CacheOK

\* A user changes an AutoScaler.
LEMMA ChangeTyped ==
  ASSUME IInv, NEW k \in Keys, NEW object, Change(k, object),
         created' \in Nat, created <= created', faults' \in 0..MaxFaults,
         object \in AutoScalers',
         object # Absent => object.uid # 0 /\ object.spec \in Specs \cup {InvalidSpec},
         as[k].finalizer => object.finalizer
  PROVE  IInv'
  <1>1. OthersInv /\ WorkerInv /\ created \in Nat
    BY Parts DEF OthersInv
  <1>2. /\ as' = [as EXCEPT ![k] = object]
        /\ queue' = queue \cup {k}
        /\ outdated' = (outdated \/ k = key)
        /\ UNCHANGED <<rbg, store, cluster_role, cache, pc, key, ras, gpus, report, misjudged>>
    BY DEF Change
  <1>3. AutoScalers \subseteq AutoScalers'
    BY <1>1, TypesGrow
  <1>4. as' \in [Keys -> AutoScalers'] /\ as'[k] = object /\ \A l \in Keys \ {k} : as'[l] = as[l]
    BY <1>1, <1>2, <1>3 DEF OthersInv
  <1>5. Objects'
    BY <1>1, <1>4 DEF OthersInv, Objects, Exists
  <1>6. StoreOK' /\ CacheOK'
    BY <1>1, <1>2, StoreGrows DEF OthersInv
  <1>7. OthersInv'
    BY <1>1, <1>2, <1>4, <1>5, <1>6 DEF OthersInv
  <1>8. WorkerOK'
    BY <1>1, <1>2, <1>3 DEF WorkerInv, WorkerOK
  <1>9. Copy' /\ ValidCopy' /\ ReadyBacked'
    <2>1. Copy'
      <3>1. pc # "idle" => key \in Keys
        BY AtKey
      <3> QED
        BY <1>1, <1>2, <1>4, <3>1 DEF WorkerInv, Copy
    <2> QED
      BY <1>1, <1>2, <2>1 DEF WorkerInv, ValidCopy, ReadyBacked
  <1>10. Charged'
    <2>1. pc # "idle" => key \in Keys
      BY AtKey
    <2>2. \A l \in Keys : as[l].finalizer => as'[l].finalizer
      BY <1>4
    <2> QED
      BY <1>1, <1>2, <2>1, <2>2 DEF WorkerInv, Charged
  <1> QED
    BY <1>7, <1>8, <1>9, <1>10, PartsNext DEF WorkerInv

\* What users do, and what goes wrong.
LEMMA DisturbanceTyped ==
  ASSUME IInv, Disturbance
  PROVE  IInv'
  <1>0. /\ OthersInv /\ created \in Nat /\ as \in [Keys -> AutoScalers]
        /\ faults' \in 0..MaxFaults
    <2>1. OthersInv
      BY Parts
    <2>2. faults < MaxFaults /\ faults' = faults + 1
      BY DEF Disturbance
    <2>3. faults \in 0..MaxFaults /\ MaxFaults \in Nat
      BY <2>1, OperatorAssumption DEF OthersInv
    <2>4. faults' \in 0..MaxFaults
      BY <2>2, <2>3
    <2> QED
      BY <2>1, <2>4 DEF OthersInv
  <1>1. ASSUME NEW k \in Keys, CreateAutoScaler(k)
        PROVE  IInv'
    <2>1. PICK spec \in Specs : Change(k, NewAutoScaler(created', spec))
      BY <1>1 DEF CreateAutoScaler
    <2>2. created' = created + 1 /\ as[k] = Absent
      BY <1>1 DEF CreateAutoScaler, Exists
    <2>3. created' \in Uids' /\ created' # 0 /\ created' \in Nat
      BY <1>0, <2>2 DEF Uids
    <2> DEFINE object == NewAutoScaler(created', spec)
    <2>4. /\ object = [uid |-> created', spec |-> spec, deleting |-> FALSE, finalizer |-> FALSE,
                       phase |-> None]
      BY DEF NewAutoScaler
    <2>5. object \in AutoScalers'
      BY <2>3, <2>4 DEF AutoScalers, Phases
    <2>6. ~as[k].finalizer
      BY <2>2 DEF Absent
    <2>7. object.uid # 0 /\ object.spec \in Specs
      BY <2>3, <2>4
    <2>8. created <= created'
      BY <1>0, <2>2
    <2> HIDE DEF object
    <2>9. Change(k, object)
      BY <2>1 DEF object
    <2> QED
      BY <1>0, <2>3, <2>5, <2>6, <2>7, <2>8, <2>9, ChangeTyped
  <1>2. ASSUME NEW k \in Keys, EditAutoScaler(k)
        PROVE  IInv'
    <2>1. PICK spec \in Specs \cup {InvalidSpec} : Change(k, [as[k] EXCEPT !.spec = spec])
      BY <1>2 DEF EditAutoScaler
    <2>2. created' = created /\ Exists(k) /\ as[k] \in AutoScalers
      BY <1>0, <1>2 DEF EditAutoScaler
    <2> DEFINE object == [as[k] EXCEPT !.spec = spec]
    <2>3. object \in AutoScalers /\ object.spec = spec /\ object.uid = as[k].uid
          /\ object.finalizer = as[k].finalizer
      BY <2>2 DEF AutoScalers
    <2>4. as[k].uid # 0
      BY <1>0, <2>2 DEF OthersInv, Objects
    <2>5. object \in AutoScalers' /\ created' \in Nat /\ created <= created'
      BY <1>0, <2>2, <2>3 DEF AutoScalers, Uids
    <2> HIDE DEF object
    <2>6. Change(k, object)
      BY <2>1 DEF object
    <2> QED
      BY <1>0, <2>3, <2>4, <2>5, <2>6, ChangeTyped
  <1>3. ASSUME NEW k \in Keys, DeleteAutoScaler(k)
        PROVE  IInv'
    <2>1. created' = created /\ Exists(k) /\ as[k] \in AutoScalers
      BY <1>0, <1>3 DEF DeleteAutoScaler
    <2>2. AutoScalers \subseteq AutoScalers' /\ created' \in Nat /\ created <= created'
      BY <1>0, <2>1 DEF AutoScalers, Uids
    <2>3. CASE as[k].finalizer
      <3> DEFINE object == [as[k] EXCEPT !.deleting = TRUE]
      <3>1. object \in AutoScalers /\ object.spec = as[k].spec /\ object.uid = as[k].uid
            /\ object.finalizer = as[k].finalizer
        BY <2>1 DEF AutoScalers
      <3>2. as[k].uid # 0 /\ as[k].spec \in Specs \cup {InvalidSpec}
        BY <1>0, <2>1 DEF OthersInv, Objects
      <3>3. Change(k, object)
        BY <1>3, <2>3 DEF DeleteAutoScaler
      <3>4. object \in AutoScalers'
        BY <2>2, <3>1
      <3> HIDE DEF object
      <3> QED
        BY <1>0, <2>2, <3>4, <3>1, <3>2, <3>3, ChangeTyped
    <2>4. CASE ~as[k].finalizer
      <3>1. Change(k, Absent)
        BY <1>3, <2>4 DEF DeleteAutoScaler
      <3>2. Absent \in AutoScalers
        BY <1>0 DEF Absent, AutoScalers, Uids, Phases
      <3> QED
        BY <1>0, <2>2, <2>4, <3>1, <3>2, ChangeTyped
    <2> QED
      BY <2>3, <2>4
  <1>4. ASSUME NEW k \in Keys, ChangeGroup(k)
        PROVE  IInv'
    <2>1. rbg' \in [Keys -> GroupGpus \cup {0}]
      BY <1>0, <1>4 DEF OthersInv, ChangeGroup
    <2>2. UNCHANGED <<as, store, cluster_role, cache, queue, worker, created, misjudged>>
      BY <1>4 DEF ChangeGroup
    <2>3. StoreOK' /\ CacheOK'
      BY <1>0, <2>2, StoreGrows DEF OthersInv
    <2> QED
      BY <1>0, <2>1, <2>2, <2>3, StoreChanged
  <1>5. ASSUME NEW k \in Keys, ChangeProfile(k)
        PROVE  IInv'
    <2>1. (~store.profile[k]) \in BOOLEAN
      OBVIOUS
    <2> QED
      BY <1>0, <1>5, <2>1, PutByOthers DEF ChangeProfile, Kinds
  <1>6. ASSUME NEW k \in Keys, DeleteDeployment(k)
        PROVE  IInv'
    BY <1>0, <1>6, PutByOthers DEF DeleteDeployment, Kinds
  <1>7. ASSUME NEW k \in Keys, PodFailed(k)
        PROVE  IInv'
    BY <1>0, <1>7, JobTyped, PutByOthers DEF PodFailed, Kinds
  <1>8. ASSUME CallFails
        PROVE  IInv'
    <2>1. UNCHANGED <<as, rbg, store, cluster_role, cache, created, misjudged>> /\ Done /\ pc # "idle"
          /\ queue' = queue \cup {key}
      BY <1>8 DEF CallFails, Retry
    <2>2. StoreOK' /\ CacheOK'
      BY <1>0, <2>1, StoreGrows DEF OthersInv
    <2>3. AutoScalers' = AutoScalers /\ key \in Keys
      BY <2>1, AtKey DEF AutoScalers, Uids
    <2>4. OthersInv'
      BY <1>0, <2>1, <2>2, <2>3 DEF OthersInv, Objects, Exists
    <2> QED
      BY <1>0, <2>1, <2>4, DoneTyped, PartsNext
  <1>9. ASSUME RestartOperator
        PROVE  IInv'
    <2>1. /\ UNCHANGED <<as, rbg, store, cluster_role, created, misjudged>> /\ Done
          /\ cache' = [kind \in Lagging |-> store[kind]]
          /\ queue' = {k \in Keys : Exists(k)}
      BY <1>9 DEF RestartOperator
    <2>2. StoreOK'
      BY <1>0, <2>1, StoreKept DEF OthersInv
    <2>3. CacheOK'
      BY <2>1, <2>2, OperatorAssumption DEF StoreOK, CacheOK
    <2>4. AutoScalers' = AutoScalers
      BY <2>1 DEF AutoScalers, Uids
    <2>5. OthersInv'
      BY <1>0, <2>1, <2>2, <2>3, <2>4 DEF OthersInv, Objects, Exists
    <2> QED
      BY <1>0, <2>1, <2>5, DoneTyped, PartsNext
  <1> QED
    BY <1>1, <1>2, <1>3, <1>4, <1>5, <1>6, <1>7, <1>8, <1>9 DEF Disturbance

-----------------------------------------------------------------------------
(* The invariant, and what it shows *)

\* The state the operator starts in.
LEMMA InitTyped == Init => IInv
  <1> SUFFICES ASSUME Init PROVE IInv
    OBVIOUS
  <1>1. created \in Nat /\ created = Cardinality(Keys)
    BY KeysAreKeys, FS_CardinalityType DEF Init
  <1>2. 0 \in Uids /\ 1..Cardinality(Keys) \subseteq Uids
    BY <1>1 DEF Uids
  <1>3. Absent \in AutoScalers /\ NoJob \in Jobs /\ NoDeployment \in Deployments
    BY <1>2 DEF Absent, AutoScalers, Phases, NoJob, Jobs, backoffLimit, None, NoDeployment, Deployments
  <1>4. as \in [Keys -> AutoScalers] /\ Objects
    <2>1. PICK uids \in [Keys -> 1..Cardinality(Keys)], spec \in [Keys -> Specs] :
            as = [k \in Keys |-> NewAutoScaler(uids[k], spec[k])]
      BY DEF Init
    <2>2. ASSUME NEW k \in Keys
          PROVE  as[k] \in AutoScalers /\ as[k].uid # 0 /\ as[k].spec \in Specs
      <3>1. as[k] = NewAutoScaler(uids[k], spec[k]) /\ uids[k] \in 1..Cardinality(Keys) /\ spec[k] \in Specs
        BY <2>1
      <3>2. uids[k] \in Uids /\ uids[k] # 0
        BY <1>1, <1>2, <3>1
      <3> QED
        BY <3>1, <3>2 DEF NewAutoScaler, AutoScalers, Phases
    <2> QED
      BY <2>1, <2>2 DEF Objects
  <1>5. StoreOK
    <2>1. /\ EmptyStore.account \in [Keys -> Uids]
          /\ EmptyStore.binding \in [Names -> Namespaces \cup {None}]
          /\ EmptyStore.profile \in [Keys -> BOOLEAN]
          /\ EmptyStore.job \in [Keys -> Jobs]
          /\ EmptyStore.deployment \in [Keys -> Deployments]
          /\ DOMAIN EmptyStore = Kinds
      BY <1>2, <1>3 DEF EmptyStore, Kinds
    <2>2. store = EmptyStore
      BY DEF Init
    <2> QED
      BY <2>1, <2>2, StoreParts
  <1>6. CacheOK
    <2>1. cache = [kind \in Lagging |-> store[kind]]
      BY DEF Init
    <2> QED
      BY <1>5, <2>1, OperatorAssumption DEF StoreOK, CacheOK
  <1>7. OthersInv
    <2>1. rbg \in [Keys -> GroupGpus \cup {0}] /\ cluster_role = FALSE /\ queue = Keys /\ misjudged = {}
          /\ faults = 0
      BY DEF Init
    <2>2. faults \in 0..MaxFaults
      BY <2>1, OperatorAssumption
    <2> QED
      BY <1>1, <1>4, <1>5, <1>6, <2>1, <2>2 DEF OthersInv
  <1>8. WorkerInv
    BY <1>3, KeysAreKeys DEF Init, WorkerInv, WorkerOK, Copy, ValidCopy, Charged, ReadyBacked, Phases, None
  <1> QED
    BY <1>7, <1>8, Parts

\* A stuttering step.
LEMMA StutterTyped ==
  ASSUME IInv, UNCHANGED vars
  PROVE  IInv'
  <1>1. OthersInv /\ created \in Nat
    BY Parts DEF OthersInv
  <1>2. StoreOK' /\ CacheOK'
    BY <1>1, StoreGrows DEF OthersInv, vars
  <1> QED
    BY <1>1, <1>2, StoreChanged DEF OthersInv, vars

\* IInv is inductive.
LEMMA Invariance == Spec => []IInv
  <1>1. IInv /\ [Next]_vars => IInv'
    BY WorkTyped, ClusterTyped, DisturbanceTyped, StutterTyped DEF Next
  <1> QED
    BY <1>1, InitTyped, PTL DEF Spec

\* In every reachable state objects, caches and worker have the types the code
\* gives them, and the worker deploys only for a valid spec and an RBG it has
\* seen: no interleaving with users, controllers, failed calls and restarts takes
\* it past a check of Reconcile.
THEOREM TypeCorrectness == Spec => []TypeOK
  <1>1. IInv => TypeOK
    BY DEF IInv
  <1> QED
    BY <1>1, Invariance, PTL

\* updateReadyStatus reports Ready only for a planner with the spec the
\* AutoScaler has at that moment, or none if somebody removed it: the conflict
\* check of the status update and the Deployment written before it suffice.
THEOREM ReadyMeansCurrent == Spec => ReadyIsCurrent
  <1> DEFINE Turns(k) == as[k].phase # "Ready" /\ as'[k].phase = "Ready"
             Backed(k) == store.deployment[k] = NoDeployment \/ store.deployment[k].spec = as[k].spec
  <1>1. ASSUME IInv, [Next]_vars, NEW k \in Keys, Turns(k)
        PROVE  Backed(k)
    <2>1. as[k] \in AutoScalers /\ as \in [Keys -> AutoScalers]
      BY <1>1 DEF IInv, TypeOK
    <2>2. \A l \in Keys : NewAutoScaler(l, l).phase # "Ready" /\ Absent.phase # "Ready"
      BY DEF NewAutoScaler, Absent, None
    <2>3. CASE WriteStatus
      <3>1. ~outdated /\ as' = [as EXCEPT ![key].phase = report] /\ pc = "status"
        BY <1>1, <2>3 DEF WriteStatus
      <3>2. key \in Keys /\ ras = as[key]
        BY <1>1, <3>1, AtKey
      <3>3. key = k /\ report = "Ready"
        BY <1>1, <2>1, <3>1, <3>2 DEF AutoScalers
      <3> QED
        BY <1>1, <3>1, <3>2, <3>3 DEF IInv, ReadyBacked
    <2>4. CASE UNCHANGED as
      BY <1>1, <2>4
    <2>5. CASE AddFinalizer /\ ~outdated
      <3>1. as' = [as EXCEPT ![key].finalizer = TRUE] /\ key \in Keys
        BY <1>1, <2>5, AtKey DEF AddFinalizer
      <3>2. as'[k].phase = as[k].phase
        BY <2>1, <3>1 DEF AutoScalers
      <3> QED
        BY <1>1, <3>2
    <2>6. CASE RemoveFinalizer /\ ~outdated
      <3>1. as' = [as EXCEPT ![key] = Absent]
        BY <2>6 DEF RemoveFinalizer
      <3> QED
        BY <1>1, <2>1, <2>2, <3>1
    <2>7. ASSUME NEW l \in Keys, CreateAutoScaler(l)
          PROVE  Backed(k)
      <3>1. PICK spec \in Specs : as' = [as EXCEPT ![l] = NewAutoScaler(created', spec)]
        BY <2>7 DEF CreateAutoScaler, Change
      <3>2. NewAutoScaler(created', spec).phase # "Ready"
        BY DEF NewAutoScaler, None
      <3> QED
        BY <1>1, <2>1, <3>1, <3>2
    <2>8. ASSUME NEW l \in Keys, EditAutoScaler(l) \/ DeleteAutoScaler(l)
          PROVE  Backed(k)
      <3>1. as[l] \in AutoScalers
        BY <2>1
      <3>2. \A object : as' = [as EXCEPT ![l] = object] /\ object.phase \in {as[l].phase, None} => Backed(k)
        BY <1>1, <2>1 DEF None
      <3>3. ASSUME NEW spec, as' = [as EXCEPT ![l] = [as[l] EXCEPT !.spec = spec]]
            PROVE  Backed(k)
        <4>1. [as[l] EXCEPT !.spec = spec].phase = as[l].phase
          BY <3>1 DEF AutoScalers
        <4> QED
          BY <3>2, <3>3, <4>1
      <3>4. CASE as' = [as EXCEPT ![l] = [as[l] EXCEPT !.deleting = TRUE]]
        <4>1. [as[l] EXCEPT !.deleting = TRUE].phase = as[l].phase
          BY <3>1 DEF AutoScalers
        <4> QED
          BY <3>2, <3>4, <4>1
      <3>5. CASE as' = [as EXCEPT ![l] = Absent]
        <4>1. Absent.phase = None
          BY DEF Absent
        <4> QED
          BY <3>2, <3>5, <4>1
      <3> QED
        BY <2>8, <3>3, <3>4, <3>5 DEF EditAutoScaler, DeleteAutoScaler, Change
    <2>9. CASE Work
      BY <1>1, <2>3, <2>4, <2>5, <2>6, <2>9
      DEF Work, OperatorStep, Reconcile, AddFinalizer, CleanupClusterResources, RemoveFinalizer,
          GetGroup, EnsureServiceAccount, EnsureClusterRole, EnsureBinding, CheckProfile,
          CreateProfilingJob, CheckJob, EnsurePlannerDeployment
    <2>10. CASE Cluster
      BY <2>4, <2>10 DEF Cluster, CollectGarbage, WriteProfile, FinishJob, RejectArguments, PodFailed, SyncCache
    <2>11. CASE Disturbance
      BY <2>4, <2>7, <2>8, <2>11
      DEF Disturbance, ChangeGroup, ChangeProfile, DeleteDeployment, PodFailed, CallFails, RestartOperator
    <2> QED
      BY <1>1, <2>4, <2>9, <2>10, <2>11 DEF Next, vars
  <1>2. IInv /\ [Next]_vars => [\A k \in Keys : Turns(k) => Backed(k)]_vars
    BY <1>1
  <1> QED
    BY <1>2, Invariance, PTL DEF Spec, ReadyIsCurrent

-----------------------------------------------------------------------------
(* What a step means for charge, grants and deployments *)

Charge == {k \in Keys : as[k].finalizer}
Deployed == {k \in Keys : store.deployment[k] # NoDeployment}
BindingsKept == \A n \in Names : store'.binding[n] = store.binding[n]
Shown(n) == Seen("binding")[n]

\* The worker comes to none of the steps that rely on a binding, or is there
\* already.
Calm ==
  \/ pc' \notin {"release", "profile", "job", "deployment"}
  \/ pc' = pc /\ key' = key
  \/ /\ pc \in {"profile", "job", "deployment"} /\ pc' \in {"profile", "job", "deployment"}
     /\ key' = key

Quiet ==
  /\ Charge' = Charge /\ BindingsKept /\ Calm /\ misjudged' = misjudged
  /\ \/ Deployed' = Deployed
     \/ cache' = cache /\ \E k \in Keys : Deployed' = Deployed \ {k}

TakesCharge ==
  /\ Charge' = Charge \cup {key} /\ BindingsKept /\ Deployed' = Deployed
  /\ misjudged' = misjudged /\ cache' = cache
  /\ key \in Keys /\ pc' = "group"

\* The cache is right about the binding ensured ...
Grants ==
  /\ pc = "binding" /\ pc' = "profile" /\ key' = key /\ key \in Keys
  /\ Charge' = Charge /\ Deployed' = Deployed
  /\ misjudged' = misjudged \ {key} /\ cache' = cache
  /\ \A n \in Names :
       store'.binding[n] = IF n = key.name /\ store.binding[n] = None THEN key.namespace
                           ELSE store.binding[n]

Deploys ==
  /\ pc = "deployment" /\ pc' = "status" /\ key \in Keys
  /\ Charge' = Charge /\ BindingsKept /\ Deployed' = Deployed \cup {key}
  /\ misjudged' = misjudged /\ cache' = cache

\* ... or cleaned up, ...
Revokes ==
  /\ pc = "cleanup" /\ pc' = "release" /\ key' = key /\ key \in Keys
  /\ Charge' = Charge /\ Deployed' = Deployed
  /\ misjudged' = misjudged \ {key} /\ cache' = cache
  /\ \A n \in Names : store'.binding[n] = IF n = key.name THEN None ELSE store.binding[n]

\* ... or wrong: at most another subject's binding goes.
Misjudges ==
  /\ \/ pc = "binding" /\ pc' = "profile"
     \/ pc = "cleanup" /\ pc' = "release"
  /\ key' = key /\ key \in Keys /\ Shown(key.name) # store.binding[key.name]
  /\ Charge' = Charge /\ Deployed' = Deployed
  /\ misjudged' = misjudged \cup {key} /\ cache' = cache
  /\ \/ BindingsKept
     \/ /\ Shown(key.name) # None /\ store.binding[key.name] # None
        /\ \A n \in Names : store'.binding[n] = IF n = key.name THEN None ELSE store.binding[n]

LetsGo ==
  /\ pc = "release" /\ pc' = "idle" /\ key \in Keys
  /\ Charge' = Charge \ {key} /\ BindingsKept /\ Deployed' = Deployed
  /\ misjudged' = misjudged /\ cache' = cache

LEMMA StoreWritten ==
  ASSUME IInv, NEW kind \in Kinds, NEW i, NEW object, Put(kind, i, object)
  PROVE  /\ \A other \in Kinds \ {kind} : store'[other] = store[other]
         /\ store'[kind] = [store[kind] EXCEPT ![i] = object]
  <1>1. StoreOK
    BY Parts DEF OthersInv
  <1> QED
    BY <1>1 DEF StoreOK, Put

\* A step that writes neither finalizers nor bindings, nor a Deployment.
LEMMA Untouched ==
  ASSUME IInv, Calm, misjudged' = misjudged,
         UNCHANGED as \/ (\A k \in Keys : as'[k].finalizer = as[k].finalizer),
         \/ UNCHANGED store
         \/ \E kind \in Kinds \ {"binding", "deployment"} : \E i, object : Put(kind, i, object)
  PROVE  Quiet
  <1>1. Charge' = Charge
    BY DEF Charge
  <1>2. store'["binding"] = store["binding"] /\ store'["deployment"] = store["deployment"]
    BY StoreWritten DEF Kinds
  <1>3. Deployed' = Deployed
    BY <1>2 DEF Deployed
  <1> QED
    BY <1>1, <1>2, <1>3 DEF Quiet, BindingsKept

\* The steps of the operator.
LEMMA WorkEffects ==
  ASSUME IInv, Work
  PROVE  Quiet \/ TakesCharge \/ Grants \/ Deploys \/ Revokes \/ Misjudges \/ LetsGo
  <1>0. as \in [Keys -> AutoScalers] /\ StoreOK /\ OthersInv /\ cache' = cache
    BY Parts DEF OthersInv, Work, Aside
  <1>a. pc \notin {"cleanup", "binding"} \/ pc' \notin {"release", "profile"} => misjudged' = misjudged
    BY DEF Work, Aside
  <1>b. ASSUME (pc = "cleanup" /\ pc' = "release") \/ (pc = "binding" /\ pc' = "profile")
        PROVE  /\ Shown(key.name) = store.binding[key.name] => misjudged' = misjudged \ {key}
               /\ Shown(key.name) # store.binding[key.name] => misjudged' = misjudged \cup {key}
    BY <1>b DEF Work, Aside, Shown
  <1>1. ASSUME NEW k \in Keys, Reconcile(k)
        PROVE  Quiet
    <2>1. Calm
      BY <1>1 DEF Reconcile, Calm, worker
    <2> QED
      BY <1>1, <1>a, <2>1, Untouched DEF Reconcile
  <1>2. CASE AddFinalizer
    <2>1. CASE outdated
      BY <1>2, <1>a, <2>1, Untouched DEF AddFinalizer, Retry, Done, Calm
    <2>2. CASE ~outdated
      <3>1. as' = [as EXCEPT ![key].finalizer = TRUE] /\ store' = store /\ pc' = "group" /\ pc = "finalizer"
        BY <1>2, <2>2 DEF AddFinalizer
      <3>2. key \in Keys
        BY <1>2, AtKey DEF AddFinalizer
      <3>3. as'[key].finalizer /\ \A k \in Keys \ {key} : as'[k] = as[k]
        BY <1>0, <3>1, <3>2 DEF AutoScalers
      <3>4. Charge' = Charge \cup {key}
        BY <3>2, <3>3 DEF Charge
      <3> QED
        BY <1>0, <1>a, <3>1, <3>2, <3>4 DEF TakesCharge, BindingsKept, Deployed
    <2> QED
      BY <2>1, <2>2
  <1>3. CASE RemoveFinalizer
    <2>1. CASE outdated
      BY <1>3, <1>a, <2>1, Untouched DEF RemoveFinalizer, Retry, Done, Calm
    <2>2. CASE ~outdated
      <3>1. as' = [as EXCEPT ![key] = Absent] /\ store' = store /\ pc' = "idle" /\ pc = "release"
        BY <1>3, <2>2 DEF RemoveFinalizer, Done
      <3>2. key \in Keys
        BY <3>1, AtKey
      <3>3. ~as'[key].finalizer /\ \A k \in Keys \ {key} : as'[k] = as[k]
        BY <1>0, <3>1, <3>2 DEF Absent
      <3>4. \A k \in Keys : k \in Charge' <=> k \in Charge /\ k # key
        <4>1. \A k \in Keys \ {key} : k \in Charge' <=> k \in Charge
          BY <3>3 DEF Charge
        <4>2. key \notin Charge'
          BY <3>3 DEF Charge
        <4> QED
          BY <4>1, <4>2
      <3>5. Charge' = Charge \ {key}
        BY <3>4 DEF Charge
      <3> QED
        BY <1>0, <1>a, <3>1, <3>2, <3>5 DEF LetsGo, BindingsKept, Deployed
    <2> QED
      BY <2>1, <2>2
  <1>4. CASE CleanupClusterResources
    <2>1. key \in Keys /\ pc = "cleanup" /\ as' = as
      BY <1>4, AtKey DEF CleanupClusterResources
    <2>2. CASE Retry /\ UNCHANGED store
      BY <1>4, <1>a, <2>1, <2>2, Untouched DEF Retry, Done, Calm
    <2>3. CASE Shown(key.name) = None /\ Goto("release") /\ UNCHANGED store
      <3>1. pc' = "release" /\ key' = key /\ BindingsKept /\ Charge' = Charge /\ Deployed' = Deployed
        BY <2>1, <2>3 DEF Goto, BindingsKept, Charge, Deployed
      <3>2. CASE store.binding[key.name] = None
        BY <1>0, <1>b, <2>1, <2>3, <3>1, <3>2 DEF Revokes, BindingsKept
      <3>3. CASE store.binding[key.name] # None
        BY <1>0, <1>b, <2>1, <2>3, <3>1, <3>3 DEF Misjudges
      <3> QED
        BY <3>2, <3>3
    <2>4. CASE /\ Shown(key.name) # None /\ store.binding[key.name] # None
               /\ Goto("release") /\ Put("binding", key.name, None)
      <3>1. /\ store'["deployment"] = store["deployment"]
            /\ store'["binding"] = [store["binding"] EXCEPT ![key.name] = None]
        <4>1. "binding" \in Kinds /\ "deployment" \in Kinds \ {"binding"}
          BY DEF Kinds
        <4>2. Put("binding", key.name, None)
          BY <2>4
        <4> QED
          BY <4>1, <4>2, StoreWritten
      <3>2. \A n \in Names : store'.binding[n] = IF n = key.name THEN None ELSE store.binding[n]
        BY <1>0, <3>1, StoreParts
      <3>3. pc' = "release" /\ key' = key /\ Charge' = Charge /\ Deployed' = Deployed
        BY <2>1, <2>4, <3>1 DEF Goto, Charge, Deployed
      <3>4. CASE Shown(key.name) = store.binding[key.name]
        BY <1>0, <1>b, <2>1, <3>2, <3>3, <3>4 DEF Revokes
      <3>5. CASE Shown(key.name) # store.binding[key.name]
        BY <1>0, <1>b, <2>1, <2>4, <3>2, <3>3, <3>5 DEF Misjudges
      <3> QED
        BY <3>4, <3>5
    <2> QED
      BY <1>4, <2>2, <2>3, <2>4 DEF CleanupClusterResources, Shown
  <1>5. CASE EnsureBinding
    <2>1. key \in Keys /\ pc = "binding" /\ as' = as
      BY <1>5, AtKey DEF EnsureBinding
    <2>2. CASE Retry /\ UNCHANGED store
      BY <1>5, <1>a, <2>1, <2>2, Untouched DEF Retry, Done, Calm
    <2>3. CASE Shown(key.name) # None /\ Goto("profile") /\ UNCHANGED store
      <3>1. pc' = "profile" /\ key' = key /\ BindingsKept /\ Charge' = Charge /\ Deployed' = Deployed
        BY <2>1, <2>3 DEF Goto, BindingsKept, Charge, Deployed
      <3>2. CASE Shown(key.name) = store.binding[key.name]
        BY <1>0, <1>b, <2>1, <2>3, <3>1, <3>2 DEF Grants, BindingsKept
      <3>3. CASE Shown(key.name) # store.binding[key.name]
        BY <1>0, <1>b, <2>1, <3>1, <3>3 DEF Misjudges
      <3> QED
        BY <3>2, <3>3
    <2>4. CASE /\ Shown(key.name) = None /\ store.binding[key.name] = None
               /\ Goto("profile") /\ Put("binding", key.name, key.namespace)
      <3>1. /\ store'["deployment"] = store["deployment"]
            /\ store'["binding"] = [store["binding"] EXCEPT ![key.name] = key.namespace]
        BY <2>4, StoreWritten DEF Kinds
      <3>2. \A n \in Names :
              store'.binding[n] = IF n = key.name /\ store.binding[n] = None THEN key.namespace
                                  ELSE store.binding[n]
        BY <1>0, <2>4, <3>1, StoreParts
      <3>3. pc' = "profile" /\ key' = key /\ Charge' = Charge /\ Deployed' = Deployed
        BY <2>1, <2>4, <3>1 DEF Goto, Charge, Deployed
      <3> QED
        BY <1>0, <1>b, <2>1, <2>4, <3>2, <3>3 DEF Grants
    <2> QED
      BY <1>5, <2>2, <2>3, <2>4 DEF EnsureBinding, Shown
  <1>6. CASE EnsurePlannerDeployment
    <2>1. CASE Retry /\ UNCHANGED store
      BY <1>6, <1>a, <2>1, Untouched DEF EnsurePlannerDeployment, Retry, Done, Calm
    <2>2. CASE \E uid : Put("deployment", key, NewDeployment(uid, ras.spec, gpus)) /\ Report("Ready")
      <3>1. PICK uid : Put("deployment", key, NewDeployment(uid, ras.spec, gpus)) /\ pc' = "status"
        BY <2>2 DEF Report
      <3>2. pc = "deployment" /\ key \in Keys /\ as' = as /\ gpus # 0
        BY <1>6, AtKey DEF EnsurePlannerDeployment, IInv, TypeOK
      <3> DEFINE object == NewDeployment(uid, ras.spec, gpus)
      <3>3. object # NoDeployment
        BY <3>2 DEF NewDeployment, NoDeployment
      <3> HIDE DEF object
      <3>4. /\ store'["binding"] = store["binding"]
            /\ store'["deployment"] = [store["deployment"] EXCEPT ![key] = object]
        <4>1. Put("deployment", key, object)
          BY <3>1 DEF object
        <4> QED
          BY <4>1, StoreWritten DEF Kinds
      <3>5. Deployed' = Deployed \cup {key}
        BY <1>0, <3>2, <3>3, <3>4, StoreParts DEF Deployed
      <3> QED
        BY <1>0, <1>a, <3>1, <3>2, <3>4, <3>5 DEF Deploys, BindingsKept, Charge
    <2> QED
      BY <1>6, <2>1, <2>2 DEF EnsurePlannerDeployment
  <1>7. CASE WriteStatus
    <2>1. Calm /\ store' = store
      BY <1>7 DEF WriteStatus, Retry, Done, Calm
    <2>2. \A k \in Keys : as'[k].finalizer = as[k].finalizer
      <3>1. key \in Keys /\ as[key] \in AutoScalers
        BY <1>0, <1>7, AtKey DEF WriteStatus
      <3>2. CASE as' = [as EXCEPT ![key].phase = report]
        <4>1. as'[key] = [as[key] EXCEPT !.phase = report] /\ \A k \in Keys \ {key} : as'[k] = as[k]
          BY <1>0, <3>1, <3>2
        <4>2. as'[key].finalizer = as[key].finalizer
          BY <3>1, <4>1 DEF AutoScalers
        <4> QED
          BY <4>1, <4>2
      <3>3. CASE as' = as
        BY <3>3
      <3> QED
        BY <1>7, <3>2, <3>3 DEF WriteStatus
    <2> QED
      BY <1>7, <1>a, <2>1, <2>2, Untouched DEF WriteStatus
  <1>8. CASE GetGroup \/ CheckProfile \/ CheckJob \/ EnsureClusterRole
    BY <1>8, <1>a, Untouched DEF GetGroup, CheckProfile, CheckJob, EnsureClusterRole, Report, Goto, Calm
  <1>9. CASE EnsureServiceAccount \/ CreateProfilingJob
    <2>1. Calm
      BY <1>9 DEF EnsureServiceAccount, CreateProfilingJob, Report, Goto, Retry, Done, Calm
    <2> QED
      BY <1>9, <1>a, <2>1, Untouched DEF EnsureServiceAccount, CreateProfilingJob, Kinds
  <1> QED
    BY <1>1, <1>2, <1>3, <1>4, <1>5, <1>6, <1>7, <1>8, <1>9 DEF Work, OperatorStep

\* The cluster and the users leave finalizers and bindings alone; a Deployment
\* may go.
LEMMA OtherEffects ==
  ASSUME IInv, Cluster \/ Disturbance \/ UNCHANGED vars
  PROVE  Quiet
  <1>0. as \in [Keys -> AutoScalers] /\ StoreOK /\ OthersInv
    BY Parts DEF OthersInv
  <1>1. ASSUME NEW k \in Keys, Put("deployment", k, NoDeployment),
               UNCHANGED <<as, pc, key, cache, misjudged>>
        PROVE  Quiet
    <2>1. /\ store'["binding"] = store["binding"]
          /\ store'["deployment"] = [store["deployment"] EXCEPT ![k] = NoDeployment]
      BY <1>1, StoreWritten DEF Kinds
    <2>2. Deployed' = Deployed \ {k}
      BY <1>0, <2>1, StoreParts DEF Deployed
    <2> QED
      BY <1>1, <2>1, <2>2 DEF Quiet, BindingsKept, Calm, Charge
  <1>2. ASSUME UNCHANGED <<as, pc, key, misjudged>>,
               \/ UNCHANGED store
               \/ \E kind \in Kinds \ {"binding", "deployment"} : \E i, object : Put(kind, i, object)
        PROVE  Quiet
    BY <1>2, Untouched DEF Calm
  <1>3. CASE Cluster
    <2>1. ASSUME NEW k \in Keys, CollectGarbage(k)
          PROVE  Quiet
      BY <2>1, <1>1, <1>2 DEF CollectGarbage, worker, Kinds
    <2>2. ASSUME NEW k \in Keys, WriteProfile(k) \/ FinishJob(k) \/ RejectArguments(k)
          PROVE  Quiet
      BY <2>2, <1>2 DEF WriteProfile, FinishJob, RejectArguments, PodFailed, worker, Kinds
    <2>3. ASSUME NEW kind \in Kinds, SyncCache(kind)
          PROVE  Quiet
      BY <2>3, <1>2 DEF SyncCache, worker
    <2> QED
      BY <1>3, <2>1, <2>2, <2>3 DEF Cluster
  <1>4. CASE Disturbance
    <2>1. ASSUME NEW k \in Keys, NEW object, Change(k, object),
                 object.finalizer = as[k].finalizer
          PROVE  Quiet
      <3>1. as' = [as EXCEPT ![k] = object] /\ UNCHANGED <<store, pc, key, misjudged>>
        BY <2>1 DEF Change
      <3>2. \A l \in Keys : as'[l].finalizer = as[l].finalizer
        BY <1>0, <2>1, <3>1
      <3> QED
        BY <3>1, <3>2, Untouched DEF Calm
    <2>2. ASSUME NEW k \in Keys, CreateAutoScaler(k)
          PROVE  Quiet
      <3>1. as[k].finalizer = FALSE
        <4>1. as[k] = Absent
          BY <2>2 DEF CreateAutoScaler, Exists
        <4> QED
          BY <4>1 DEF Absent
      <3>2. PICK spec \in Specs : Change(k, NewAutoScaler(created', spec))
        BY <2>2 DEF CreateAutoScaler
      <3>3. NewAutoScaler(created', spec).finalizer = FALSE
        BY DEF NewAutoScaler
      <3> QED
        BY <2>1, <3>1, <3>2, <3>3
    <2>3. ASSUME NEW k \in Keys, EditAutoScaler(k)
          PROVE  Quiet
      <3>1. PICK spec : Change(k, [as[k] EXCEPT !.spec = spec])
        BY <2>3 DEF EditAutoScaler
      <3>2. [as[k] EXCEPT !.spec = spec].finalizer = as[k].finalizer
        BY <1>0 DEF AutoScalers
      <3> QED
        BY <2>1, <3>1, <3>2
    <2>4. ASSUME NEW k \in Keys, DeleteAutoScaler(k)
          PROVE  Quiet
      <3>1. CASE as[k].finalizer
        <4>1. Change(k, [as[k] EXCEPT !.deleting = TRUE])
          BY <2>4, <3>1 DEF DeleteAutoScaler
        <4>2. [as[k] EXCEPT !.deleting = TRUE].finalizer = as[k].finalizer
          BY <1>0 DEF AutoScalers
        <4> QED
          BY <2>1, <4>1, <4>2
      <3>2. CASE ~as[k].finalizer
        <4>1. Change(k, Absent)
          BY <2>4, <3>2 DEF DeleteAutoScaler
        <4>2. as[k].finalizer = FALSE
          BY <1>0, <3>2 DEF AutoScalers
        <4>3. Absent.finalizer = FALSE
          BY DEF Absent
        <4> QED
          BY <2>1, <4>1, <4>2, <4>3
      <3> QED
        BY <3>1, <3>2
    <2>5. ASSUME NEW k \in Keys,
                 ChangeGroup(k) \/ ChangeProfile(k) \/ DeleteDeployment(k) \/ PodFailed(k)
          PROVE  Quiet
      BY <2>5, <1>1, <1>2 DEF ChangeGroup, ChangeProfile, DeleteDeployment, PodFailed, worker, Kinds
    <2>6. CASE CallFails \/ RestartOperator
      BY <2>6, Untouched DEF CallFails, RestartOperator, Retry, Done, Calm
    <2> QED
      BY <1>4, <2>2, <2>3, <2>4, <2>5, <2>6 DEF Disturbance
  <1>5. CASE UNCHANGED vars
    BY <1>2, <1>5 DEF vars, worker
  <1> QED
    BY <1>3, <1>4, <1>5

LEMMA Effects ==
  ASSUME IInv, [Next]_vars
  PROVE  Quiet \/ TakesCharge \/ Grants \/ Deploys \/ Revokes \/ Misjudges \/ LetsGo
  BY WorkEffects, OtherEffects DEF Next

-----------------------------------------------------------------------------
(* Bindings *)

\* The finalizer goes after the binding, unless the cache hid it.
Released ==
  pc = "release" => store.binding[key.name] # key.namespace \/ key \in misjudged

\* OrphanWasMissed in terms of Charge.
Held == \A n \in Names : store.binding[n] # None =>
          \E k \in Keys : /\ k.name = n /\ k.namespace = store.binding[n]
                          /\ k \in Charge \cup misjudged

LEMMA HeldMeans == OrphanWasMissed <=> Held
  BY DEF OrphanWasMissed, Held, Charge

LEMMA NamesOfKeys == \A k \in Keys : k.name \in Names /\ k.namespace # None
  BY OperatorAssumption DEF None, Names

LEMMA BindingsInit == Init => Held /\ Released
  <1> SUFFICES ASSUME Init PROVE Held /\ Released
    OBVIOUS
  <1>1. store.binding = [n \in Names |-> None] /\ pc = "idle"
    BY DEF Init, EmptyStore
  <1> QED
    BY <1>1 DEF Held, Released

LEMMA BindingsStep ==
  ASSUME IInv, Held, Released, [Next]_vars
  PROVE  Held' /\ Released'
  <1>1. pc # "idle" => key \in Keys /\ key.name \in Names /\ key.namespace \in Namespaces
    BY AtKey
  <1>2. CASE Quiet
    BY <1>1, <1>2 DEF Quiet, BindingsKept, Calm, Held, Released
  <1>3. CASE TakesCharge
    BY <1>3 DEF TakesCharge, BindingsKept, Held, Released
  <1>4. CASE Grants
    <2>1. key \in Charge
      BY <1>4 DEF Grants, Charge, IInv, Charged
    <2> QED
      BY <1>4, <2>1 DEF Grants, Held, Released
  <1>5. CASE Deploys
    BY <1>5 DEF Deploys, BindingsKept, Held, Released
  <1>6. CASE Revokes
    BY <1>1, <1>6, NamesOfKeys DEF Revokes, Held, Released
  <1>7. CASE Misjudges
    BY <1>1, <1>7 DEF Misjudges, BindingsKept, Held, Released
  <1>8. CASE LetsGo
    <2>1. store.binding[key.name] # key.namespace \/ key \in misjudged
      BY <1>8 DEF LetsGo, Released
    <2> QED
      BY <1>8, <2>1 DEF LetsGo, BindingsKept, Held, Released
  <1> QED
    BY <1>2, <1>3, <1>4, <1>5, <1>6, <1>7, <1>8, Effects

\* The finalizer outlives the ClusterRoleBinding, whatever is deleted, edited or
\* fails in between and however far the caches lag, but for a binding the cache
\* did not show to cleanupClusterResources.
THEOREM NothingOrphaned == Spec => []OrphanWasMissed
  <1>1. IInv /\ Held /\ Released /\ IInv' /\ [Next]_vars => Held' /\ Released'
    BY BindingsStep
  <1>2. Init => Held /\ Released
    BY BindingsInit
  <1>3. Held => OrphanWasMissed
    BY HeldMeans
  <1> QED
    BY <1>1, <1>2, <1>3, Invariance, PTL DEF Spec

-----------------------------------------------------------------------------
(* One AutoScaler per name *)

UniqueNames == \A k, l \in Keys : k.name = l.name => k = l

\* Whatever a binding says, and the cache of it, is about the AutoScaler of its
\* name.
Own == \A k \in Keys : store.binding[k.name] \in {None, k.namespace}
ShownOwn == \A k \in Keys : Shown(k.name) \in {None, k.namespace}

LEMMA HeldIsOwn ==
  ASSUME UniqueNames, Held
  PROVE  Own
  BY NamesOfKeys DEF UniqueNames, Held, Own

\* The cache shows what it did, or what is there.
LEMMA ShownSteps ==
  ASSUME IInv, [Next]_vars
  PROVE  \/ \A n \in Names : Shown(n)' = Shown(n)
         \/ \A n \in Names : Shown(n)' = store'.binding[n]
  <1>1. CASE "binding" \notin Lagging
    BY <1>1 DEF Shown, Seen
  <1>2. CASE cache' = cache
    BY <1>1, <1>2 DEF Shown, Seen
  <1>3. ASSUME NEW kind \in Kinds, SyncCache(kind), "binding" \in Lagging
        PROVE  \/ \A n \in Names : Shown(n)' = Shown(n)
               \/ \A n \in Names : Shown(n)' = store'.binding[n]
    <2>1. kind \in Lagging /\ cache' = [cache EXCEPT ![kind] = store[kind]] /\ store' = store
      BY <1>3 DEF SyncCache
    <2>2. DOMAIN cache = Lagging
      BY DEF IInv, TypeOK
    <2>3. CASE kind = "binding"
      <3>1. cache'["binding"] = store'["binding"]
        BY <2>1, <2>2, <2>3
      <3> QED
        BY <1>3, <3>1 DEF Shown, Seen
    <2>4. CASE kind # "binding"
      <3>1. cache'["binding"] = cache["binding"]
        BY <1>3, <2>1, <2>2, <2>4
      <3> QED
        BY <1>3, <3>1 DEF Shown, Seen
    <2> QED
      BY <2>3, <2>4
  <1>4. ASSUME RestartOperator, "binding" \in Lagging
        PROVE  \A n \in Names : Shown(n)' = store'.binding[n]
    BY <1>4 DEF RestartOperator, Shown, Seen
  <1>5. CASE Work
    BY <1>2, <1>5 DEF Work, Aside
  <1>6. CASE Cluster
    BY <1>1, <1>2, <1>3, <1>6
    DEF Cluster, CollectGarbage, WriteProfile, FinishJob, RejectArguments, PodFailed
  <1>7. CASE Disturbance
    BY <1>1, <1>2, <1>4, <1>7
    DEF Disturbance, CreateAutoScaler, EditAutoScaler, DeleteAutoScaler, Change, ChangeGroup,
        ChangeProfile, DeleteDeployment, PodFailed, CallFails
  <1> QED
    BY <1>2, <1>5, <1>6, <1>7 DEF Next, vars

LEMMA OwnSteps ==
  ASSUME IInv, UniqueNames, Held, Released, ShownOwn, [Next]_vars
  PROVE  ShownOwn'
  <1>1. Own'
    <2>1. Held'
      BY BindingsStep
    <2> QED
      BY <2>1, NamesOfKeys DEF UniqueNames, Held, Own
  <1> QED
    BY <1>1, ShownSteps, NamesOfKeys DEF Own, ShownOwn

\* An AutoScaler has the binding of its name for its own namespace, or the cache
\* was wrong about it.
Bound(k) == store.binding[k.name] = k.namespace \/ k \in misjudged

\* A planner is deployed with its binding.
Granted == pc \in {"profile", "job", "deployment"} => Bound(key)

\* A binding goes only in the clean-up of its AutoScaler.
LEMMA BoundKept ==
  ASSUME IInv, UniqueNames, Own, [Next]_vars, NEW k \in Keys, Bound(k)
  PROVE  Bound(k)' \/ (pc = "cleanup" /\ key = k)
  <1>1. CASE Quiet \/ TakesCharge \/ Deploys \/ LetsGo
    BY <1>1, NamesOfKeys DEF Quiet, TakesCharge, Deploys, LetsGo, BindingsKept, Bound
  <1>2. CASE Grants
    BY <1>2, NamesOfKeys DEF Grants, Own, Bound
  <1>3. CASE Revokes \/ Misjudges
    BY <1>3, NamesOfKeys DEF Revokes, Misjudges, BindingsKept, Bound, UniqueNames
  <1> QED
    BY <1>1, <1>2, <1>3, Effects

\* EnsureBinding leaves an AutoScaler with a binding of its own.
LEMMA GrantedStep ==
  ASSUME IInv, UniqueNames, Own, Granted, [Next]_vars
  PROVE  Granted'
  <1>0. pc # "idle" => key \in Keys
    BY AtKey
  <1>1. CASE Quiet
    BY <1>0, <1>1, NamesOfKeys DEF Quiet, BindingsKept, Calm, Granted, Bound
  <1>2. CASE TakesCharge \/ Deploys \/ Revokes \/ LetsGo
    BY <1>2 DEF TakesCharge, Deploys, Revokes, LetsGo, Granted
  <1>3. CASE Grants
    BY <1>3, NamesOfKeys DEF Grants, Own, Granted, Bound
  <1>4. CASE Misjudges
    BY <1>4 DEF Misjudges, Granted, Bound
  <1> QED
    BY <1>1, <1>2, <1>3, <1>4, Effects

Grantees == {k \in Keys : store.binding[k.name] = k.namespace}
Known == {k \in Keys : Seen("binding")[k.name] = k.namespace}

\* What the operator knows of its grants.
LEMMA KnownSteps ==
  ASSUME IInv, [Next]_vars
  PROVE  /\ Known' = Known \/ Known' = Grantees'
         /\ cache' = cache /\ Grantees' = Grantees => Known' = Known
  <1>1. Known' = Known \/ Known' = Grantees'
    <2>1. CASE \A n \in Names : Shown(n)' = Shown(n)
      BY <2>1, NamesOfKeys DEF Known, Shown
    <2>2. CASE \A n \in Names : Shown(n)' = store'.binding[n]
      BY <2>2, NamesOfKeys DEF Known, Grantees, Shown
    <2> QED
      BY <2>1, <2>2, ShownSteps
  <1>2. ASSUME cache' = cache, Grantees' = Grantees
        PROVE  Known' = Known
    <2>1. CASE "binding" \in Lagging
      BY <1>2, <2>1 DEF Known, Seen
    <2>2. CASE "binding" \notin Lagging
      BY <1>2, <2>2 DEF Known, Grantees, Seen
    <2> QED
      BY <2>1, <2>2
  <1> QED
    BY <1>1, <1>2

\* One step of the operator, and of Provisioning.
LEMMA PromiseStep ==
  ASSUME IInv, UniqueNames, Own, ShownOwn, Released, Granted, [Next]_vars
  PROVE  [Promise!Next]_<<Charge, Grantees, Known, misjudged, Deployed>>
  <1> DEFINE V == <<Charge, Grantees, Known, misjudged, Deployed>>
  <1>a. BindingsKept => Grantees' = Grantees
    BY NamesOfKeys DEF BindingsKept, Grantees
  <1>b. \A k \in Keys \ {key} : key \in Keys => k.name # key.name
    BY DEF UniqueNames
  <1>1. CASE Quiet
    <2>1. Grantees' = Grantees
      BY <1>1, <1>a DEF Quiet
    <2>2. CASE Deployed' = Deployed
      <3>1. CASE Known' = Known
        BY <1>1, <2>1, <2>2, <3>1 DEF Quiet
      <3>2. CASE Known' = Grantees'
        <4>1. Promise!Learn
          BY <1>1, <2>1, <2>2, <3>2 DEF Quiet, Charge, Grantees, Known, Deployed, Promise!Learn
        <4> QED
          BY <4>1 DEF Promise!Next
      <3> QED
        BY <3>1, <3>2, KnownSteps
    <2>3. CASE cache' = cache /\ \E k \in Keys : Deployed' = Deployed \ {k}
      <3>1. PICK k \in Keys : Deployed' = Deployed \ {k}
        BY <2>3
      <3>2. Known' = Known
        BY <2>1, <2>3, KnownSteps
      <3>3. Promise!Disappear(k)
        BY <1>1, <2>1, <3>1, <3>2
        DEF Quiet, Charge, Grantees, Known, Deployed, Promise!Disappear
      <3> QED
        BY <3>3 DEF Promise!Next
    <2> QED
      BY <1>1, <2>2, <2>3 DEF Quiet
  <1>2. CASE TakesCharge
    <2>1. Grantees' = Grantees /\ Known' = Known
      BY <1>2, <1>a, KnownSteps DEF TakesCharge
    <2>2. PICK k \in Keys : k = key
      BY <1>2 DEF TakesCharge
    <2>3. Promise!TakeCharge(k)
      BY <1>2, <2>1, <2>2 DEF TakesCharge, Charge, Grantees, Known, Deployed, Promise!TakeCharge
    <2> QED
      BY <2>3 DEF Promise!Next
  <1>3. CASE Grants
    <2>1. key \in Charge /\ key \in Keys
      BY <1>3 DEF Grants, Charge, IInv, Charged
    <2>2. \A k \in Keys \ {key} : store'.binding[k.name] = store.binding[k.name]
      BY <1>3, <1>b, <2>1, NamesOfKeys DEF Grants
    <2>3. store'.binding[key.name] = key.namespace
      BY <1>3, <2>1, NamesOfKeys DEF Grants, Own
    <2>4. Grantees' = Grantees \cup {key}
      BY <2>1, <2>2, <2>3 DEF Grantees
    <2>5. PICK k \in Keys : k = key
      BY <2>1
    <2>6. Promise!KnowsAtOnceOrLater
      BY KnownSteps DEF Known, Grantees, Promise!KnowsAtOnceOrLater
    <2>7. Promise!Grant(k)
      BY <1>3, <2>1, <2>4, <2>5, <2>6 DEF Grants, Charge, Grantees, Deployed, Promise!Grant
    <2> QED
      BY <2>7 DEF Promise!Next
  <1>4. CASE Deploys
    <2>1. Grantees' = Grantees /\ Known' = Known
      BY <1>4, <1>a, KnownSteps DEF Deploys
    <2>2. key \in Grantees \cup misjudged
      BY <1>4 DEF Deploys, Granted, Bound, Grantees
    <2>3. PICK k \in Keys : k = key
      BY <1>4 DEF Deploys
    <2>4. Promise!Deploy(k)
      BY <1>4, <2>1, <2>2, <2>3 DEF Deploys, Charge, Grantees, Known, Deployed, Promise!Deploy
    <2> QED
      BY <2>4 DEF Promise!Next
  <1>5. CASE Revokes
    <2>1. key \in Keys
      BY <1>5 DEF Revokes
    <2>2. \A k \in Keys \ {key} : store'.binding[k.name] = store.binding[k.name]
      BY <1>5, <1>b, <2>1, NamesOfKeys DEF Revokes
    <2>3. store'.binding[key.name] # key.namespace
      BY <1>5, <2>1, NamesOfKeys DEF Revokes
    <2>4. Grantees' = Grantees \ {key}
      BY <2>1, <2>2, <2>3 DEF Grantees
    <2>5. PICK k \in Keys : k = key
      BY <2>1
    <2>6. Promise!KnowsAtOnceOrLater
      BY KnownSteps DEF Known, Grantees, Promise!KnowsAtOnceOrLater
    <2>7. Promise!Revoke(k)
      BY <1>5, <2>4, <2>5, <2>6 DEF Revokes, Charge, Grantees, Deployed, Promise!Revoke
    <2> QED
      BY <2>7 DEF Promise!Next
  <1>6. CASE Misjudges
    <2>1. key \in Keys /\ Shown(key.name) # store.binding[key.name]
      BY <1>6 DEF Misjudges
    <2>2. /\ Shown(key.name) \in {None, key.namespace}
          /\ store.binding[key.name] \in {None, key.namespace}
      BY <2>1 DEF Own, ShownOwn
    <2>3. BindingsKept
      BY <1>6, <2>1, <2>2 DEF Misjudges
    <2>4. Grantees' = Grantees /\ Known' = Known
      BY <1>6, <1>a, <2>3, KnownSteps DEF Misjudges
    <2>5. (key \in Known) # (key \in Grantees)
      BY <2>1, <2>2, NamesOfKeys DEF Known, Grantees, Shown
    <2>6. PICK k \in Keys : k = key
      BY <2>1
    <2>7. Promise!Misjudge(k)
      BY <1>6, <2>4, <2>5, <2>6 DEF Misjudges, Charge, Grantees, Known, Deployed, Promise!Misjudge
    <2> QED
      BY <2>7 DEF Promise!Next
  <1>7. CASE LetsGo
    <2>1. Grantees' = Grantees /\ Known' = Known
      BY <1>7, <1>a, KnownSteps DEF LetsGo
    <2>2. key \in Grantees => key \in misjudged
      BY <1>7 DEF LetsGo, Released, Grantees
    <2>3. PICK k \in Keys : k = key
      BY <1>7 DEF LetsGo
    <2>4. Promise!LetGo(k)
      BY <1>7, <2>1, <2>2, <2>3 DEF LetsGo, Charge, Grantees, Known, Deployed, Promise!LetGo
    <2> QED
      BY <2>4 DEF Promise!Next
  <1> QED
    BY <1>1, <1>2, <1>3, <1>4, <1>5, <1>6, <1>7, Effects

\* The operator's calls implement Provisioning: the finalizer before the binding,
\* the binding before the Deployment, and no binding when the finalizer goes, each
\* time unless the cache it looks into is behind.  Two AutoScalers of one name
\* would share a binding.
THEOREM OperatorKeepsPromise ==
  ASSUME \A k, l \in Keys : k.name = l.name => k = l
  PROVE  Spec => KeepsPromise
  <1> DEFINE PInv == Held /\ Released /\ Granted /\ ShownOwn
  <1>0. UniqueNames
    BY DEF UniqueNames
  <1>1. Init => PInv /\ Promise!Init
    <2> SUFFICES ASSUME Init PROVE PInv /\ Promise!Init
      OBVIOUS
    <2>1. PICK uids \in [Keys -> 1..Cardinality(Keys)], spec \in [Keys -> Specs] :
            as = [k \in Keys |-> NewAutoScaler(uids[k], spec[k])]
      BY DEF Init
    <2>2. \A k \in Keys : ~as[k].finalizer
      BY <2>1 DEF NewAutoScaler
    <2>3. /\ \A n \in Names : store.binding[n] = None
          /\ \A k \in Keys : store.deployment[k] = NoDeployment
          /\ pc = "idle" /\ misjudged = {}
      BY DEF Init, EmptyStore
    <2>4. \A n \in Names : Seen("binding")[n] = None
      BY <2>3 DEF Init, EmptyStore, Seen
    <2>5. PInv
      BY <2>3, <2>4, NamesOfKeys, BindingsInit DEF Granted, ShownOwn, Shown
    <2> QED
      BY <2>2, <2>3, <2>4, <2>5, NamesOfKeys DEF Promise!Init
  <1>2. IInv /\ PInv /\ [Next]_vars => PInv'
    BY <1>0, HeldIsOwn, BindingsStep, GrantedStep, OwnSteps
  <1>3. IInv /\ PInv /\ [Next]_vars
          => [Promise!Next]_<<Charge, Grantees, Known, misjudged, Deployed>>
    BY <1>0, HeldIsOwn, PromiseStep
  <1>4. [Promise!Next]_<<Charge, Grantees, Known, misjudged, Deployed>>
          => [Promise!Next]_<<{k \in Keys : as[k].finalizer},
                              {k \in Keys : store.binding[k.name] = k.namespace},
                              {k \in Keys : Seen("binding")[k.name] = k.namespace},
                              misjudged,
                              {k \in Keys : store.deployment[k] # NoDeployment}>>
    BY DEF Charge, Grantees, Known, Deployed
  <1> QED
    BY <1>1, <1>2, <1>3, <1>4, Invariance, PTL DEF Spec, KeepsPromise, Promise!Spec

-----------------------------------------------------------------------------
(* Bindings of Ready AutoScalers *)

\* Ready, and nobody has asked for it to go.
Serving(k) == as[k].phase = "Ready" /\ ~as[k].deleting

\* A planner about to be reported Ready has its binding.
Assured == pc = "status" /\ report = "Ready" => Bound(key)

\* What is cleaned up is being deleted.
Dying == pc = "cleanup" => as[key].deleting

\* An AutoScaler starts to serve only by the report of its own reconcile, and a
\* deletion stands until its finalizer is removed.
LEMMA ObjectSteps ==
  ASSUME IInv, [Next]_vars, NEW k \in Keys
  PROVE  /\ Serving(k)' => Serving(k) \/ (pc = "status" /\ report = "Ready" /\ key = k)
         /\ as[k].deleting => as'[k].deleting \/ pc' = "idle"
  <1> DEFINE Starts == pc = "status" /\ report = "Ready" /\ key = k
             Goal == /\ Serving(k)' => Serving(k) \/ Starts
                     /\ as[k].deleting => as'[k].deleting \/ pc' = "idle"
  <1>1. as \in [Keys -> AutoScalers] /\ as[k] \in AutoScalers
    BY DEF IInv, TypeOK
  <1>2. ASSUME NEW l \in Keys, NEW object, as' = [as EXCEPT ![l] = object],
               object.phase = "Ready" /\ ~object.deleting => Serving(l) \/ (Starts /\ l = k),
               as[l].deleting => object.deleting \/ pc' = "idle"
        PROVE  Goal
    <2>1. CASE l = k
      <3>1. as'[k] = object
        BY <1>1, <1>2, <2>1
      <3> QED
        BY <1>2, <2>1, <3>1 DEF Serving
    <2>2. CASE l # k
      <3>1. as'[k] = as[k]
        BY <1>1, <1>2, <2>2
      <3> QED
        BY <3>1 DEF Serving
    <2> QED
      BY <2>1, <2>2
  <1>3. CASE UNCHANGED as
    BY <1>3 DEF Serving
  <1>4. Absent.phase # "Ready"
    BY DEF Absent, None
  <1>5. CASE WriteStatus /\ ~outdated
    <2>1. as' = [as EXCEPT ![key] = [as[key] EXCEPT !.phase = report]] /\ pc = "status"
      BY <1>5 DEF WriteStatus
    <2>2. key \in Keys /\ as[key] \in AutoScalers
      BY <1>1, <2>1, AtKey
    <2>3. /\ [as[key] EXCEPT !.phase = report].phase = report
          /\ [as[key] EXCEPT !.phase = report].deleting = as[key].deleting
      BY <2>2 DEF AutoScalers
    <2>4. CASE key = k
      BY <1>2, <2>1, <2>2, <2>3, <2>4
    <2>5. CASE key # k
      <3>1. as'[k] = as[k]
        BY <1>1, <2>1, <2>2, <2>5
      <3> QED
        BY <3>1 DEF Serving
    <2> QED
      BY <2>4, <2>5
  <1>6. CASE AddFinalizer /\ ~outdated
    <2>1. as' = [as EXCEPT ![key] = [as[key] EXCEPT !.finalizer = TRUE]] /\ key \in Keys
      BY <1>6, AtKey DEF AddFinalizer
    <2>2. /\ [as[key] EXCEPT !.finalizer = TRUE].phase = as[key].phase
          /\ [as[key] EXCEPT !.finalizer = TRUE].deleting = as[key].deleting
      BY <1>1, <2>1 DEF AutoScalers
    <2> QED
      BY <1>2, <2>1, <2>2 DEF Serving
  <1>7. CASE RemoveFinalizer /\ ~outdated
    <2>1. as' = [as EXCEPT ![key] = Absent] /\ key \in Keys /\ pc' = "idle"
      BY <1>7, AtKey DEF RemoveFinalizer, Done
    <2> QED
      BY <1>2, <1>4, <2>1
  <1>8. ASSUME NEW l \in Keys, CreateAutoScaler(l)
        PROVE  Goal
    <2>1. PICK spec \in Specs : as' = [as EXCEPT ![l] = NewAutoScaler(created', spec)]
      BY <1>8 DEF CreateAutoScaler, Change
    <2>2. NewAutoScaler(created', spec).phase # "Ready"
      BY DEF NewAutoScaler, None
    <2>3. ~as[l].deleting
      <3>1. as[l] = Absent
        BY <1>8 DEF CreateAutoScaler, Exists
      <3> QED
        BY <3>1 DEF Absent
    <2> QED
      BY <1>2, <2>1, <2>2, <2>3
  <1>9. ASSUME NEW l \in Keys, EditAutoScaler(l)
        PROVE  Goal
    <2>1. PICK spec : as' = [as EXCEPT ![l] = [as[l] EXCEPT !.spec = spec]]
      BY <1>9 DEF EditAutoScaler, Change
    <2>2. /\ [as[l] EXCEPT !.spec = spec].phase = as[l].phase
          /\ [as[l] EXCEPT !.spec = spec].deleting = as[l].deleting
      BY <1>1 DEF AutoScalers
    <2> QED
      BY <1>2, <2>1, <2>2 DEF Serving
  <1>10. ASSUME NEW l \in Keys, DeleteAutoScaler(l)
         PROVE  Goal
    <2>1. ~as[l].deleting
      BY <1>10 DEF DeleteAutoScaler
    <2>2. \/ as' = [as EXCEPT ![l] = [as[l] EXCEPT !.deleting = TRUE]]
          \/ as' = [as EXCEPT ![l] = Absent]
      BY <1>10 DEF DeleteAutoScaler, Change
    <2>3. [as[l] EXCEPT !.deleting = TRUE].deleting
      BY <1>1 DEF AutoScalers
    <2> QED
      BY <1>2, <1>4, <2>1, <2>2, <2>3
  <1>11. CASE Work
    BY <1>3, <1>5, <1>6, <1>7, <1>11
    DEF Work, OperatorStep, Reconcile, WriteStatus, AddFinalizer, CleanupClusterResources,
        RemoveFinalizer, GetGroup, EnsureServiceAccount, EnsureClusterRole, EnsureBinding,
        CheckProfile, CreateProfilingJob, CheckJob, EnsurePlannerDeployment
  <1>12. CASE Cluster
    BY <1>3, <1>12 DEF Cluster, CollectGarbage, WriteProfile, FinishJob, RejectArguments, PodFailed, SyncCache
  <1>13. CASE Disturbance
    BY <1>3, <1>8, <1>9, <1>10, <1>13
    DEF Disturbance, ChangeGroup, ChangeProfile, DeleteDeployment, PodFailed, CallFails, RestartOperator
  <1> QED
    BY <1>3, <1>11, <1>12, <1>13 DEF Next, vars

\* Only EnsurePlannerDeployment leads to a report of Ready, and only an object
\* that is being deleted to the clean-up.
LEMMA WorkerSteps ==
  ASSUME IInv, [Next]_vars
  PROVE  /\ pc' = "status" /\ report' = "Ready" =>
              (pc = "deployment" \/ (pc = "status" /\ report = "Ready")) /\ key' = key
         /\ pc' = "cleanup" => as'[key'].deleting \/ (pc = "cleanup" /\ key' = key)
  <1> DEFINE Goal == /\ pc' = "status" /\ report' = "Ready" =>
                          (pc = "deployment" \/ (pc = "status" /\ report = "Ready")) /\ key' = key
                     /\ pc' = "cleanup" => as'[key'].deleting \/ (pc = "cleanup" /\ key' = key)
  <1>1. CASE UNCHANGED <<pc, key, report>>
    BY <1>1
  <1>2. CASE pc' = "idle"
    BY <1>2
  <1>3. ASSUME NEW k \in Keys, Reconcile(k)
        PROVE  Goal
    BY <1>1, <1>3 DEF Reconcile, worker
  <1>4. CASE OperatorStep
    BY <1>2, <1>4
    DEF OperatorStep, AddFinalizer, CleanupClusterResources, RemoveFinalizer, GetGroup,
        EnsureServiceAccount, EnsureClusterRole, EnsureBinding, CheckProfile, CreateProfilingJob,
        CheckJob, EnsurePlannerDeployment, WriteStatus, Goto, Report, Retry, Done
  <1>5. CASE Work
    BY <1>3, <1>4, <1>5 DEF Work
  <1>6. CASE Cluster
    BY <1>1, <1>6
    DEF Cluster, CollectGarbage, WriteProfile, FinishJob, RejectArguments, PodFailed, SyncCache, worker
  <1>7. CASE Disturbance
    BY <1>1, <1>2, <1>7
    DEF Disturbance, CreateAutoScaler, EditAutoScaler, DeleteAutoScaler, Change, ChangeGroup,
        ChangeProfile, DeleteDeployment, PodFailed, CallFails, RestartOperator, Retry, Done, worker
  <1> QED
    BY <1>1, <1>5, <1>6, <1>7 DEF Next, vars, worker

\* What the comment at ensureRBAC promises, a ClusterRoleBinding for each CR, holds
\* as long as no two AutoScalers share a name and the cache does not still show the
\* one a predecessor's clean-up deleted: whatever else is created, edited, deleted
\* or retried, a Ready AutoScaler that nobody deletes has its own binding.
THEOREM UniqueNamesKeepBindings ==
  ASSUME \A k, l \in Keys : k.name = l.name => k = l
  PROVE  Spec => []ReadyIsBound
  <1> DEFINE BInv == Held /\ Granted /\ Assured /\ Dying /\ ReadyIsBound
  <1>0. UniqueNames
    BY DEF UniqueNames
  <1>1. Init => BInv
    <2> SUFFICES ASSUME Init PROVE BInv
      OBVIOUS
    <2>1. PICK uids \in [Keys -> 1..Cardinality(Keys)], spec \in [Keys -> Specs] :
            as = [k \in Keys |-> NewAutoScaler(uids[k], spec[k])]
      BY DEF Init
    <2>2. \A k \in Keys : as[k].phase # "Ready"
      BY <2>1 DEF NewAutoScaler, None
    <2>3. pc = "idle"
      BY DEF Init
    <2> QED
      BY <2>2, <2>3, BindingsInit DEF Granted, Assured, Dying, ReadyIsBound
  <1>2. ASSUME IInv, Released, BInv, [Next]_vars
        PROVE  BInv'
    <2>0. pc # "idle" => key \in Keys
      BY <1>2, AtKey
    <2>a. Own
      BY <1>0, <1>2, HeldIsOwn
    <2>1. Held' /\ Granted'
      BY <1>0, <1>2, <2>a, BindingsStep, GrantedStep
    <2>2. Assured'
      <3> SUFFICES ASSUME pc' = "status", report' = "Ready"
                   PROVE  Bound(key)'
        BY DEF Assured, Bound
      <3>1. (pc = "deployment" \/ (pc = "status" /\ report = "Ready")) /\ key' = key
        BY <1>2, WorkerSteps
      <3>2. key \in Keys /\ Bound(key)
        BY <1>2, <2>0, <3>1 DEF Granted, Assured
      <3>3. PICK k \in Keys : k = key
        BY <3>2
      <3>4. Bound(k)'
        BY <1>0, <1>2, <2>a, <3>1, <3>2, <3>3, BoundKept
      <3> QED
        BY <3>1, <3>3, <3>4 DEF Bound
    <2>3. Dying'
      <3> SUFFICES ASSUME pc' = "cleanup"
                   PROVE  as'[key'].deleting
        BY DEF Dying
      <3>1. as'[key'].deleting \/ (pc = "cleanup" /\ key' = key)
        BY <1>2, WorkerSteps
      <3>2. CASE pc = "cleanup" /\ key' = key
        <4>1. key \in Keys /\ as[key].deleting
          BY <1>2, <2>0, <3>2 DEF Dying
        <4>2. as'[key].deleting \/ pc' = "idle"
          BY <1>2, <4>1, ObjectSteps
        <4> QED
          BY <3>2, <4>2
      <3> QED
        BY <3>1, <3>2
    <2>4. ReadyIsBound'
      <3> SUFFICES ASSUME NEW k \in Keys, Serving(k)'
                   PROVE  Bound(k)'
        BY DEF ReadyIsBound, Serving, Bound
      <3>1. Serving(k) \/ (pc = "status" /\ report = "Ready" /\ key = k)
        BY <1>2, ObjectSteps
      <3>2. Bound(k)
        BY <1>2, <3>1 DEF ReadyIsBound, Serving, Assured, Bound
      <3>3. ~(pc = "cleanup" /\ key = k)
        BY <1>2, <3>1 DEF Dying, Serving
      <3> QED
        BY <1>0, <1>2, <2>a, <3>2, <3>3, BoundKept
    <2> QED
      BY <2>1, <2>2, <2>3, <2>4
  <1>3. IInv /\ Held /\ Released /\ [Next]_vars => Released'
    BY BindingsStep
  <1>4. Init => Released
    BY BindingsInit
  <1> QED
    BY <1>1, <1>2, <1>3, <1>4, Invariance, PTL DEF Spec
=============================================================================
