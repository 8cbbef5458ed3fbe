--------------------------- MODULE ClusterEngagement ---------------------------
(***************************************************************************)
(* The ClusterProfile provider: how the passes of its one-worker           *)
(* controller build, publish, engage, replace and cancel remote clusters   *)
(* while the goroutine that runs each cluster may see it stop at any       *)
(* moment, indexers are registered, and profiles come, change and go.  The *)
(* inventory resolver, which picks the profile of a workload namespace     *)
(* from the same informer cache, is given as operators.                    *)
(*                                                                         *)
(* A step is one critical section of Provider.lock, one check of a run     *)
(* state or one call of a cluster.  The profiles are those of the informer *)
(* cache: a pass reads its profile once, when it starts.                   *)
(***************************************************************************)
EXTENDS Naturals

CONSTANTS
  Profiles,        \* namespace and name of the ClusterProfiles
  Names,           \* names of workload clusters
  Versions,        \* the contents that a ClusterProfile may have
  Configs,         \* kubeconfigs, up to restConfigEqual
  Fields,          \* cache fields for which indexers are registered
  Ids,             \* identities for the cluster objects
  None,
  MaxChanges,      \* bound on changes of profiles and indexer registrations
  MaxDisturbances  \* bound on failing calls and on clusters that stop

\* A types.NamespacedName; as a string it is also a multicluster ClusterName.
LogicalKey(name) == [ns |-> name, name |-> name]

Keys == Profiles \cup {LogicalKey(n) : n \in Names}

\* label: open-cluster-management.io/cluster-name, None when it is not set;
\* manager: x-k8s.io/cluster-manager names OCM; access: what
\* BuildConfigFromCP makes of status.accessProviders, None for none.
ClusterProfile == [label : Names \cup {None}, manager : BOOLEAN,
                   healthy : BOOLEAN, access : Configs \cup {None}]

ASSUME EngagementAssumption ==
  /\ Versions \subseteq ClusterProfile
  /\ \A p \in Profiles : DOMAIN p = {"ns", "name"} /\ p.name \in Names
  /\ Ids \subseteq Nat
  /\ None \notin Keys
  /\ None \notin Ids
  /\ None \notin Names
  /\ None \notin Configs
  /\ None \notin Fields
  /\ {MaxChanges, MaxDisturbances} \subseteq Nat

VARIABLES
  profiles,      \* the ClusterProfiles in the cache
  profileKeys,   \* Provider.profileKeys
  clusters,      \* Provider.clusters, with cancelFns and kubeconfigs
  instances,     \* the cluster objects and the goroutines that run them
  indexers,      \* Provider.indexers
  registered,    \* the fields whose IndexField has returned without an error
  indexing,      \* the IndexField call in flight: field, clusters still to index
  opsLock,       \* who holds Provider.opsLock
  worker,        \* the pass in flight
  changes,
  disturbances

vars == <<profiles, profileKeys, clusters, instances, indexers, registered,
          indexing, opsLock, worker, changes, disturbances>>

indexVars == <<indexers, registered, indexing>>

\* The goroutine of monitorClusterStart: Start runs, it has returned without a
\* cancellation, the run state is marked, the cluster is withdrawn, the error
\* is sent to a pass that still reads it; or the goroutine has ended.
Monitor == {"running", "returned", "marked", "withdrawn", "sent", "ended"}

Instance == [key : Keys \cup {None}, cfg : Configs \cup {None}, mon : Monitor,
             cancelled : BOOLEAN, engaged : BOOLEAN, indexes : SUBSET Fields]

Unused == [key |-> None, cfg |-> None, mon |-> "ended", cancelled |-> TRUE,
           engaged |-> FALSE, indexes |-> {}]

PC == {"idle", "cluster", "new", "wait", "check", "publish", "recheck",
       "engage", "current", "last"}

Pass == [pc : PC, key : Keys \cup {None}, cfg : Configs \cup {None},
         cl : Ids \cup {None}]

Idle == [pc |-> "idle", key |-> None, cfg |-> None, cl |-> None]

NotIndexing == [field |-> None, todo |-> {}]

Init ==
  /\ profiles \in [Profiles -> Versions \cup {None}]
  /\ profileKeys = [p \in Profiles |-> None]
  /\ clusters = [k \in Keys |-> None]
  /\ instances = [i \in Ids |-> Unused]
  /\ indexers = {}
  /\ registered = {}
  /\ indexing = NotIndexing
  /\ opsLock = "free"
  /\ worker = Idle
  /\ changes = 0
  /\ disturbances = 0

Disturb == disturbances < MaxDisturbances /\ disturbances' = disturbances + 1

----------------------------------------------------------------------------
(* The maps of the provider.                                               *)

logicalClusterName(p, profile) ==
  LogicalKey(IF profile.label # None THEN profile.label ELSE p.name)

Referenced(refs, key) == \E p \in Profiles : refs[p] = key

\* The pass ends and cancels its cluster, of which nothing is left when its
\* goroutine has returned.
Cancelled(i) ==
  [instances EXCEPT ![i] = IF @.mon = "sent" THEN Unused ELSE [@ EXCEPT !.cancelled = TRUE]]

\* Cancels and forgets the clusters of the given keys.
disengageLocked_NoCancel(keys) ==
  /\ clusters' = [k \in Keys |-> IF k \in keys THEN None ELSE clusters[k]]
  /\ UNCHANGED instances
disengageLocked(keys) ==
  /\ clusters' = [k \in Keys |-> IF k \in keys THEN None ELSE clusters[k]]
  /\ instances' = [i \in Ids |->
       [instances[i] EXCEPT !.cancelled = @ \/ \E k \in keys : clusters[k] = i]]

disengageLogicalIfUnreferencedLocked_Always(refs, keys) == disengageLocked(keys)
disengageLogicalIfUnreferencedLocked(refs, keys) ==
  disengageLocked({k \in keys : ~Referenced(refs, k)})

disengageProfile(p, fallbackKey) ==
  /\ profileKeys' = [profileKeys EXCEPT ![p] = None]
  /\ disengageLogicalIfUnreferencedLocked(profileKeys',
       {profileKeys[p], p, fallbackKey} \ {None})

rememberProfileKey(p, key) ==
  /\ disengageLogicalIfUnreferencedLocked([profileKeys EXCEPT ![p] = None],
       {profileKeys[p]} \ {None, key})
  /\ profileKeys' = [profileKeys EXCEPT ![p] = key]

\* What is left of the map; the callers cancel the cluster with it.
disengageIfCurrent(i) ==
  LET key == instances[i].key
  IN IF clusters[key] = i THEN [clusters EXCEPT ![key] = None] ELSE clusters

----------------------------------------------------------------------------
(* One pass of the ClusterProfile controller.                              *)

IsReady(profile) == profile.healthy

\* A deleted profile is retried although only its event triggers a pass: a
\* second pass finds nothing to disengage.
Reconcile(p) ==
  /\ worker.pc = "idle"
  /\ LET profile == profiles[p]
         key     == IF profile = None THEN LogicalKey(p.name)
                                      ELSE logicalClusterName(p, profile)
     IN IF profile = None \/ ~IsReady(profile) \/ profile.access = None
          THEN disengageProfile(p, key) /\ UNCHANGED worker
          ELSE /\ rememberProfileKey(p, key)
               /\ worker' = [Idle EXCEPT !.pc = "cluster", !.key = key,
                                         !.cfg = profile.access]
  /\ UNCHANGED <<profiles, indexVars, opsLock, changes, disturbances>>

restConfigEqual_Always(a, b) == TRUE
restConfigEqual(a, b) == a = b

keepExistingCluster ==
  /\ worker.pc = "cluster"
  /\ opsLock = "free"
  /\ LET i == clusters[worker.key]
     IN IF i # None /\ restConfigEqual(instances[i].cfg, worker.cfg)
          THEN worker' = Idle /\ UNCHANGED <<clusters, instances, opsLock>>
          ELSE /\ disengageLocked({worker.key})
               /\ opsLock' = "pass"
               /\ worker' = [worker EXCEPT !.pc = "new"]
  /\ UNCHANGED <<profiles, profileKeys, indexVars, changes, disturbances>>

\* reconcileCluster returns: the error paths cancel the new cluster first.
EndPass_KeepsLock ==
  /\ worker' = Idle
  /\ UNCHANGED opsLock
EndPass ==
  /\ worker' = Idle
  /\ opsLock' = "free"

NewClusterFails ==
  /\ worker.pc = "new"
  /\ Disturb
  /\ EndPass
  /\ UNCHANGED <<profiles, profileKeys, clusters, instances, indexVars, changes>>

\* An identity is used again once its last cluster is gone.
Free(i) == instances[i].mon = "ended" /\ i \notin indexing.todo

\* Builds the cluster with the indexers registered so far and starts its
\* goroutine.
NewCluster(i) ==
  /\ worker.pc = "new"
  /\ Free(i)
  /\ \A j \in Ids : j < i => ~Free(j)
  /\ instances' = [instances EXCEPT ![i] =
       [key |-> worker.key, cfg |-> worker.cfg, mon |-> "running",
        cancelled |-> FALSE, engaged |-> FALSE, indexes |-> indexers]]
  /\ worker' = [worker EXCEPT !.pc = "wait", !.cl = i]
  /\ UNCHANGED <<profiles, profileKeys, clusters, indexVars, opsLock, changes,
                 disturbances>>

\* The cache of the cluster has synced and no start error has arrived.
waitForRemoteCacheSync ==
  /\ worker.pc = "wait"
  /\ instances[worker.cl].mon # "sent"
  /\ worker' = [worker EXCEPT !.pc = "check"]
  /\ UNCHANGED <<profiles, profileKeys, clusters, instances, indexVars, opsLock,
                 changes, disturbances>>

\* A start error, or the timeout of the wait.
waitForRemoteCacheSyncFails ==
  /\ worker.pc = "wait"
  /\ \/ instances[worker.cl].mon = "sent" /\ UNCHANGED disturbances
     \/ Disturb
  /\ instances' = Cancelled(worker.cl)
  /\ EndPass
  /\ UNCHANGED <<profiles, profileKeys, clusters, indexVars, changes>>

errIfStopped(i) == instances[i].mon \in {"marked", "withdrawn", "sent"}

checkStarted ==
  /\ worker.pc = "check"
  /\ IF errIfStopped(worker.cl)
       THEN instances' = Cancelled(worker.cl) /\ EndPass
       ELSE worker' = [worker EXCEPT !.pc = "publish"] /\ UNCHANGED <<instances, opsLock>>
  /\ UNCHANGED <<profiles, profileKeys, clusters, indexVars, changes, disturbances>>

publishCluster ==
  /\ worker.pc = "publish"
  /\ clusters' = [clusters EXCEPT ![worker.key] = worker.cl]
  /\ worker' = [worker EXCEPT !.pc = "recheck"]
  /\ UNCHANGED <<profiles, profileKeys, instances, indexVars, opsLock, changes,
                 disturbances>>

\* disengageIfCurrent, then the deferred cancel.
Withdraw ==
  /\ clusters' = disengageIfCurrent(worker.cl)
  /\ instances' = Cancelled(worker.cl)
  /\ EndPass

recheckStarted_Skipped ==
  /\ worker.pc = "recheck"
  /\ worker' = [worker EXCEPT !.pc = "engage"]
  /\ UNCHANGED <<profiles, profileKeys, clusters, instances, indexVars, opsLock,
                 changes, disturbances>>
recheckStarted ==
  /\ worker.pc = "recheck"
  /\ IF errIfStopped(worker.cl)
       THEN Withdraw
       ELSE /\ worker' = [worker EXCEPT !.pc = "engage"]
            /\ UNCHANGED <<clusters, instances, opsLock>>
  /\ UNCHANGED <<profiles, profileKeys, indexVars, changes, disturbances>>

\* mcMgr.Engage starts the multicluster controllers on the cluster; they end
\* when its context is cancelled.
Engage ==
  /\ worker.pc = "engage"
  /\ instances' = [instances EXCEPT ![worker.cl].engaged = TRUE]
  /\ worker' = [worker EXCEPT !.pc = "current"]
  /\ UNCHANGED <<profiles, profileKeys, clusters, indexVars, opsLock, changes,
                 disturbances>>

EngageFails ==
  /\ worker.pc = "engage"
  /\ Disturb
  /\ Withdraw
  /\ UNCHANGED <<profiles, profileKeys, indexVars, changes>>

isCurrentCluster ==
  /\ worker.pc = "current"
  /\ IF clusters[worker.key] = worker.cl
       THEN worker' = [worker EXCEPT !.pc = "last"] /\ UNCHANGED <<instances, opsLock>>
       ELSE instances' = Cancelled(worker.cl) /\ EndPass
  /\ UNCHANGED <<profiles, profileKeys, clusters, indexVars, changes, disturbances>>

checkEngaged ==
  /\ worker.pc = "last"
  /\ IF errIfStopped(worker.cl)
       THEN Withdraw
       ELSE EndPass /\ UNCHANGED <<clusters, instances>>
  /\ UNCHANGED <<profiles, profileKeys, indexVars, changes, disturbances>>

publishAndEngage ==
  \/ checkStarted
  \/ publishCluster
  \/ recheckStarted
  \/ Engage
  \/ EngageFails
  \/ isCurrentCluster
  \/ checkEngaged

reconcileCluster ==
  \/ keepExistingCluster
  \/ NewClusterFails
  \/ \E i \in Ids : NewCluster(i)
  \/ waitForRemoteCacheSync
  \/ waitForRemoteCacheSyncFails
  \/ publishAndEngage

----------------------------------------------------------------------------
(* The goroutine that runs a cluster.                                      *)

\* Start returns: unexpectedly, or because the context is cancelled.
StartReturns(i) ==
  /\ instances[i].mon = "running"
  /\ \/ /\ instances[i].cancelled
        /\ instances' = [instances EXCEPT ![i] = Unused]
        /\ UNCHANGED disturbances
     \/ /\ ~instances[i].cancelled
        /\ Disturb
        /\ instances' = [instances EXCEPT ![i].mon = "returned"]
  /\ UNCHANGED <<profiles, profileKeys, clusters, indexVars, opsLock, worker, changes>>

markStopped(i) ==
  /\ instances[i].mon = "returned"
  /\ instances' = [instances EXCEPT ![i].mon = "marked"]
  /\ UNCHANGED <<profiles, profileKeys, clusters, indexVars, opsLock, worker,
                 changes, disturbances>>

WithdrawStopped(i) ==
  /\ instances[i].mon = "marked"
  /\ clusters' = disengageIfCurrent(i)
  /\ instances' = [instances EXCEPT ![i].mon = "withdrawn",
                     ![i].cancelled = @ \/ clusters[instances[i].key] = i]
  /\ UNCHANGED <<profiles, profileKeys, indexVars, opsLock, worker, changes,
                 disturbances>>

SendStartErr(i) ==
  /\ instances[i].mon = "withdrawn"
  /\ instances' = [instances EXCEPT ![i] = IF worker.cl = i THEN [@ EXCEPT !.mon = "sent"]
                                                            ELSE Unused]
  /\ UNCHANGED <<profiles, profileKeys, clusters, indexVars, opsLock, worker,
                 changes, disturbances>>

monitorClusterStart(i) ==
  \/ StartReturns(i)
  \/ markStopped(i)
  \/ WithdrawStopped(i)
  \/ SendStartErr(i)

----------------------------------------------------------------------------
(* Registration of an indexer, and the world outside.                      *)

IndexField_Unlocked(f) ==
  /\ indexing = NotIndexing
  /\ f \notin indexers
  /\ changes < MaxChanges
  /\ changes' = changes + 1
  /\ indexers' = indexers \cup {f}
  /\ indexing' = [field |-> f, todo |-> {clusters[k] : k \in Keys} \ {None}]
  /\ UNCHANGED <<profiles, profileKeys, clusters, instances, registered, opsLock,
                 worker, disturbances>>
IndexField(f) ==
  /\ opsLock = "free"
  /\ f \notin indexers
  /\ changes < MaxChanges
  /\ changes' = changes + 1
  /\ opsLock' = "index"
  /\ indexers' = indexers \cup {f}
  /\ indexing' = [field |-> f, todo |-> {clusters[k] : k \in Keys} \ {None}]
  /\ UNCHANGED <<profiles, profileKeys, clusters, instances, registered, worker,
                 disturbances>>

IndexOne(i) ==
  /\ i \in indexing.todo
  /\ instances' = [instances EXCEPT ![i].indexes = @ \cup {indexing.field}]
  /\ indexing' = [indexing EXCEPT !.todo = @ \ {i}]
  /\ UNCHANGED <<profiles, profileKeys, clusters, indexers, registered, opsLock,
                 worker, changes, disturbances>>

\* IndexField returns: all clusters are indexed, or one has failed.
IndexFieldReturns ==
  /\ indexing # NotIndexing
  /\ \/ /\ indexing.todo = {}
        /\ registered' = registered \cup {indexing.field}
        /\ UNCHANGED disturbances
     \/ /\ indexing.todo # {}
        /\ Disturb
        /\ UNCHANGED registered
  /\ indexing' = NotIndexing
  /\ opsLock' = IF opsLock = "index" THEN "free" ELSE opsLock
  /\ UNCHANGED <<profiles, profileKeys, clusters, instances, indexers, worker, changes>>

\* The inventory creates, changes or deletes a ClusterProfile.
ChangeProfile(p, v) ==
  /\ changes < MaxChanges
  /\ profiles[p] # v
  /\ profiles' = [profiles EXCEPT ![p] = v]
  /\ changes' = changes + 1
  /\ UNCHANGED <<profileKeys, clusters, instances, indexVars, opsLock, worker,
                 disturbances>>

Next ==
  \/ \E p \in Profiles : Reconcile(p)
  \/ reconcileCluster
  \/ \E i \in Ids : monitorClusterStart(i)
  \/ \E f \in Fields : IndexField(f)
  \/ \E i \in Ids : IndexOne(i)
  \/ IndexFieldReturns
  \/ \E p \in Profiles, v \in Versions \cup {None} : ChangeProfile(p, v)

Spec == Init /\ [][Next]_vars

\* controller-runtime runs a pass for every profile again, on its events, after
\* an error and each minute; goroutines and calls make progress.
Fairness ==
  /\ \A p \in Profiles : SF_vars(Reconcile(p))
  /\ WF_vars(reconcileCluster)
  /\ \A i \in Ids : WF_vars(monitorClusterStart(i))
  /\ WF_vars((\E i \in Ids : IndexOne(i)) \/ IndexFieldReturns)

FairSpec == Spec /\ Fairness

----------------------------------------------------------------------------
(* The inventory resolver.                                                 *)

\* The label-filtered list of ClusterProfiles of a workload namespace.
Matches(namespace) ==
  {p \in Profiles : /\ profiles[p] # None
                    /\ profiles[p].label = namespace
                    /\ profiles[p].manager}

PartitionClusterProfilesByAccess(matches) ==
  {p \in matches : profiles[p].access # None}

\* The one profile that resolves the namespace, None when there is none or
\* more than one: the resolver fails closed.
findOCMClusterProfile(namespace) ==
  LET ready == PartitionClusterProfilesByAccess(Matches(namespace))
  IN IF \E p \in ready : ready = {p} THEN CHOOSE p \in ready : TRUE ELSE None

----------------------------------------------------------------------------
(* Properties.                                                             *)

TypeOK ==
  /\ profiles \in [Profiles -> Versions \cup {None}]
  /\ profileKeys \in [Profiles -> Keys \cup {None}]
  /\ clusters \in [Keys -> Ids \cup {None}]
  /\ instances \in [Ids -> Instance]
  /\ indexers \subseteq Fields
  /\ registered \subseteq Fields
  /\ indexing \in [field : Fields \cup {None}, todo : SUBSET Ids]
  /\ opsLock \in {"free", "pass", "index"}
  /\ worker \in Pass
  /\ changes \in 0 .. MaxChanges
  /\ disturbances \in 0 .. MaxDisturbances
  /\ worker.pc \in PC \ {"idle", "cluster"} <=> opsLock = "pass"

\* No cluster leaks: a remote cluster whose caches still run is the published
\* cluster of its key or the one that the pass in flight is about to publish,
\* and it is published for a profile that the provider remembers.  Otherwise
\* nobody would ever call its cancel function (disengageLocked, the deferred
\* cancel of reconcileCluster, rememberProfileKey).
NoLeak ==
  /\ \A i \in Ids : instances[i].mon = "running" /\ ~instances[i].cancelled =>
       clusters[instances[i].key] = i \/ worker.cl = i
  /\ \A k \in Keys : clusters[k] # None => Referenced(profileKeys, k)

\* A cluster that the controllers are engaged with is cancelled once its Start
\* has returned: before that is recorded the goroutine still has to withdraw
\* it, and afterwards the checks of publishAndEngage around publishing find it.
EngagedIsWatched ==
  \A i \in Ids : instances[i].engaged /\ ~instances[i].cancelled =>
    instances[i].mon \in {"running", "returned", "marked"}

\* Indexers reach "all current and future clusters": once IndexField has
\* succeeded for a field, every published cluster has it, the one that a pass
\* was building at that time included (opsLock).
IndexesComplete ==
  \A k \in Keys : clusters[k] # None => registered \subseteq instances[clusters[k]].indexes

\* The pass of one profile does not take the cluster away that another profile
\* shares: a published cluster is only withdrawn by its own goroutine, by a
\* pass that replaces it under its key, or when no profile is left for it.
SharedClusterKept ==
  [][\A k \in Keys : clusters[k] # None /\ clusters'[k] = None =>
       \/ ~Referenced(profileKeys', k)
       \/ worker.key = k
       \/ errIfStopped(clusters[k])]_vars

\* A pass of the profile engages the cluster of the key.
Engageable(p, key) ==
  /\ profiles[p] # None
  /\ IsReady(profiles[p])
  /\ profiles[p].access # None
  /\ logicalClusterName(p, profiles[p]) = key

\* Another profile, which the resolver does not take, claims the key.
Contended(p, key) == \E q \in Profiles \ {p} : Engageable(q, key)

\* When the inventory is left alone, the provider comes to agree with the
\* resolver: the healthy profile that a workload namespace resolves to is
\* engaged with its own kubeconfig, whatever the cluster of its key was built
\* from before, and every cluster that no ready profile stands for has ended.
EngagementFollowsInventory ==
  <>[](/\ \A n \in Names :
            LET p == findOCMClusterProfile(n)
                i == clusters[LogicalKey(n)]
            IN p # None /\ IsReady(profiles[p]) /\ ~Contended(p, LogicalKey(n)) =>
                 /\ i # None
                 /\ instances[i].cfg = profiles[p].access
                 /\ instances[i].engaged
                 /\ instances[i].mon = "running"
       /\ \A i \in Ids : instances[i].mon = "running" =>
            \E p \in Profiles : Engageable(p, instances[i].key))

=============================================================================
