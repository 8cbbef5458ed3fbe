------------------------ MODULE ClusterEngagementProofs ------------------------
(***************************************************************************)
(* Proofs about the ClusterProfile provider, for any number of profiles,   *)
(* clusters, kubeconfigs and indexers: no cluster leaks, an engaged        *)
(* cluster is cancelled once it has stopped, indexers reach every          *)
(* published cluster, and a pass takes away no cluster that another        *)
(* profile shares.                                                         *)
(***************************************************************************)
EXTENDS ClusterEngagement, TLAPS

----------------------------------------------------------------------------
(* The inductive invariant.                                                *)

Live(i) == instances[i].mon \in {"running", "returned", "marked"}

Built == {"wait", "check", "publish", "recheck", "engage", "current", "last"}

\* The pass in flight works for a key that a profile is remembered for.
PassInv ==
  /\ worker.pc = "idle" <=> worker.key = None
  /\ worker.pc \in Built <=> worker.cl # None
  /\ worker.key # None => Referenced(profileKeys, worker.key)
  /\ worker.pc \in {"new", "wait", "check", "publish"} => clusters[worker.key] = None

\* The cluster that the pass has built is its own until it is published, and then
\* published or withdrawn and cancelled.
BuiltInv ==
  worker.cl # None =>
    LET i == worker.cl
    IN /\ instances[i].key = worker.key
       /\ instances[i].mon # "ended"
       /\ instances[i].mon = "running" => ~instances[i].cancelled
       /\ registered \subseteq instances[i].indexes
       /\ worker.pc \in {"wait", "check", "publish", "recheck"} => ~instances[i].engaged
       /\ worker.pc \in {"wait", "check", "publish"} => ~instances[i].cancelled
       /\ worker.pc \in {"recheck", "engage", "current", "last"} =>
            \/ clusters[worker.key] = i
            \/ clusters[worker.key] = None /\ instances[i].cancelled

\* A published cluster has not been withdrawn by its goroutine, unless that came
\* before the publication and the pass is about to check for it.
PublishedInv ==
  \A k \in Keys : clusters[k] # None =>
    LET i == clusters[k]
    IN /\ instances[i].key = k
       /\ ~instances[i].cancelled
       /\ \/ Live(i)
          \/ instances[i].mon # "ended" /\ worker.pc = "recheck" /\ worker.cl = i
       /\ registered \subseteq instances[i].indexes
       /\ Referenced(profileKeys, k)

\* Every cluster object is known by its key as long as it matters.
InstanceInv ==
  \A i \in Ids :
    /\ instances[i].mon # "ended" => instances[i].key # None
    /\ instances[i].mon = "running" /\ ~instances[i].cancelled =>
         clusters[instances[i].key] = i \/ worker.cl = i
    /\ instances[i].engaged /\ ~instances[i].cancelled =>
         instances[i].key # None /\ clusters[instances[i].key] = i

\* While an indexer is registered no cluster is built.
IndexInv ==
  /\ registered \subseteq indexers
  /\ opsLock = "index" <=> indexing # NotIndexing
  /\ indexing # NotIndexing =>
       /\ indexing.field # None
       /\ indexing.field \in indexers
       /\ \A k \in Keys : clusters[k] # None =>
            clusters[k] \in indexing.todo \/ indexing.field \in instances[clusters[k]].indexes

IInv == TypeOK /\ PassInv /\ BuiltInv /\ PublishedInv /\ InstanceInv /\ IndexInv

----------------------------------------------------------------------------
(* Facts about the keys.                                                   *)

\* None stands for no key, no cluster and no field, and profiles are keys.
LEMMA KeyFacts ==
  /\ None \notin Keys /\ None \notin Ids /\ None \notin Fields
  /\ Profiles \subseteq Keys
  /\ \A n \in Names : LogicalKey(n) \in Keys
  /\ \A p \in Profiles : LogicalKey(p.name) \in Keys
BY EngagementAssumption DEF Keys

\* logicalClusterName maps a profile to a key.
LEMMA LogicalNameIsKey ==
  ASSUME NEW p \in Profiles, NEW v \in Versions
  PROVE  logicalClusterName(p, v) \in Keys
<1>1. v.label \in Names \cup {None}
  BY EngagementAssumption DEF ClusterProfile
<1>. QED
  BY <1>1, KeyFacts DEF logicalClusterName

----------------------------------------------------------------------------
(* The invariant holds at the start.                                       *)

\* The provider starts with empty maps.
LEMMA InitInv == Init => IInv
<1>. SUFFICES ASSUME Init PROVE IInv
  OBVIOUS
<1>. USE KeyFacts, EngagementAssumption
<1>1. TypeOK
  BY DEF Init, TypeOK, Instance, Unused, Monitor, Pass, PC, Idle, NotIndexing
<1>2. PassInv
  BY DEF Init, PassInv, Built, Idle
<1>3. BuiltInv
  BY DEF Init, BuiltInv, Idle
<1>4. PublishedInv
  BY DEF Init, PublishedInv
<1>5. InstanceInv
  BY DEF Init, InstanceInv, Unused
<1>6. IndexInv
  BY DEF Init, IndexInv, NotIndexing
<1>. QED
  BY <1>1, <1>2, <1>3, <1>4, <1>5, <1>6 DEF IInv

----------------------------------------------------------------------------
(* Steps of a pass.                                                        *)

\* Building a cluster.
LEMMA NewClusterInv ==
  ASSUME IInv, NEW i \in Ids, NewCluster(i)
  PROVE  IInv'
<1>. USE KeyFacts, EngagementAssumption
<1>1. TypeOK'
  BY Zenon DEF IInv, NewCluster, TypeOK, Instance, Monitor, Pass, PC, indexVars, PassInv
<1>2. PassInv'
  BY DEF IInv, NewCluster, TypeOK, Pass, PC, PassInv, Built, Referenced
<1>3. BuiltInv'
  BY DEF IInv, NewCluster, TypeOK, Instance, Monitor, Pass, PC, indexVars, PassInv,
     BuiltInv, Built, IndexInv
<1>4. PublishedInv'
  BY DEF IInv, NewCluster, Free, TypeOK, Instance, Pass, PC, indexVars, PassInv,
     PublishedInv, Built, Live, Referenced
<1>5. InstanceInv'
  BY DEF IInv, NewCluster, Free, TypeOK, Instance, Pass, PC, PassInv, InstanceInv,
     PublishedInv, Built
<1>6. IndexInv'
  BY DEF IInv, NewCluster, Free, TypeOK, Instance, Pass, PC, indexVars, IndexInv,
     PublishedInv, Live
<1>. QED
  BY <1>1, <1>2, <1>3, <1>4, <1>5, <1>6 DEF IInv

\* What disengageLocked does to clusters and maps.
LEMMA DisengageFacts ==
  ASSUME TypeOK, NEW keys \in SUBSET Keys, disengageLocked(keys)
  PROVE  /\ clusters' \in [Keys -> Ids \cup {None}]
         /\ instances' \in [Ids -> Instance]
         /\ \A k \in Keys : clusters'[k] = IF k \in keys THEN None ELSE clusters[k]
         /\ \A i \in Ids : /\ instances'[i].key = instances[i].key
                           /\ instances'[i].mon = instances[i].mon
                           /\ instances'[i].engaged = instances[i].engaged
                           /\ instances'[i].indexes = instances[i].indexes
                           /\ instances[i].cancelled => instances'[i].cancelled
                           /\ (\E k \in keys : clusters[k] = i) => instances'[i].cancelled
                           /\ (\A k \in keys : clusters[k] # i) =>
                                instances'[i] = instances[i]
<1>1. /\ clusters' \in [Keys -> Ids \cup {None}]
      /\ \A k \in Keys : clusters'[k] = IF k \in keys THEN None ELSE clusters[k]
  BY DEF disengageLocked, TypeOK
<1>2. ASSUME NEW i \in Ids
      PROVE  /\ instances'[i] \in Instance
             /\ instances'[i].key = instances[i].key
             /\ instances'[i].mon = instances[i].mon
             /\ instances'[i].engaged = instances[i].engaged
             /\ instances'[i].indexes = instances[i].indexes
             /\ instances[i].cancelled => instances'[i].cancelled
             /\ (\E k \in keys : clusters[k] = i) => instances'[i].cancelled
             /\ (\A k \in keys : clusters[k] # i) => instances'[i] = instances[i]
  <2>. DEFINE c == instances[i].cancelled \/ \E k \in keys : clusters[k] = i
  <2>1. instances[i] \in Instance /\ c \in BOOLEAN
    BY DEF TypeOK
  <2>2. instances'[i] = [instances[i] EXCEPT !.cancelled = c]
    BY DEF disengageLocked
  <2>3. instances[i].cancelled \in BOOLEAN
    BY <2>1 DEF Instance
  <2>4. (\A k \in keys : clusters[k] # i) => c = instances[i].cancelled
    BY <2>3
  <2>5. (instances[i].cancelled \/ \E k \in keys : clusters[k] = i) => c = TRUE
    OBVIOUS
  <2>. HIDE DEF c
  <2>. QED
    BY <2>1, <2>2, <2>4, <2>5 DEF Instance
<1>3. instances' \in [Ids -> Instance]
  BY <1>2 DEF disengageLocked
<1>. QED
  BY <1>1, <1>2, <1>3

\* What is left of a cluster that a pass cancels.
LEMMA CancelFacts ==
  ASSUME TypeOK, NEW i \in Ids
  PROVE  /\ Cancelled(i) \in [Ids -> Instance]
         /\ \A j \in Ids \ {i} : Cancelled(i)[j] = instances[j]
         /\ Cancelled(i)[i].cancelled
         /\ Cancelled(i)[i].mon # "ended" => /\ Cancelled(i)[i].mon = instances[i].mon
                                             /\ Cancelled(i)[i].key = instances[i].key
<1>. DEFINE c == [instances[i] EXCEPT !.cancelled = TRUE]
<1>0. instances[i] \in Instance
  BY DEF TypeOK
<1>1. c \in Instance /\ c.cancelled /\ c.mon = instances[i].mon /\ c.key = instances[i].key
  BY <1>0, Zenon DEF Instance
<1>2. Unused \in Instance /\ Unused.cancelled /\ Unused.mon = "ended"
  BY DEF Unused, Instance, Monitor
<1>3. Cancelled(i) = [instances EXCEPT ![i] = IF instances[i].mon = "sent" THEN Unused ELSE c]
  BY DEF Cancelled
<1>. HIDE DEF c
<1>. QED
  BY <1>1, <1>2, <1>3 DEF TypeOK

\* Looking for an existing cluster to keep, or taking it away before it is replaced.
LEMMA KeepExistingInv ==
  ASSUME IInv, keepExistingCluster
  PROVE  IInv'
<1>. USE KeyFacts, EngagementAssumption
<1>0. worker.key \in Keys /\ worker.cl = None
  BY DEF IInv, keepExistingCluster, TypeOK, Pass, PassInv, Built
<1>1. CASE worker' = Idle /\ UNCHANGED <<clusters, instances, opsLock>>
  <2>1. TypeOK'
    BY <1>0, <1>1 DEF IInv, keepExistingCluster, TypeOK, Pass, PC, Idle, indexVars
  <2>2. PassInv' /\ BuiltInv'
    BY <1>0, <1>1 DEF PassInv, Built, BuiltInv, Idle
  <2>3. PublishedInv' /\ InstanceInv' /\ IndexInv'
    BY <1>0, <1>1 DEF IInv, keepExistingCluster, PublishedInv, InstanceInv, IndexInv, Live,
       Referenced, Idle, indexVars
  <2>. QED
    BY <2>1, <2>2, <2>3 DEF IInv
<1>2. CASE /\ disengageLocked({worker.key})
           /\ opsLock' = "pass"
           /\ worker' = [worker EXCEPT !.pc = "new"]
  <2>0. TypeOK /\ {worker.key} \in SUBSET Keys
    BY <1>0 DEF IInv
  <2>1. TypeOK'
    BY <1>2, <2>0, DisengageFacts, Zenon DEF keepExistingCluster, TypeOK, Pass, PC, indexVars
  <2>2. PassInv' /\ BuiltInv'
    BY <1>0, <1>2, <2>0, DisengageFacts DEF IInv, keepExistingCluster, TypeOK, Pass,
       PassInv, Built, BuiltInv, Referenced
  <2>3. PublishedInv'
    BY <1>0, <1>2, <2>0, DisengageFacts DEF IInv, keepExistingCluster, TypeOK, Pass,
       PublishedInv, Live, Referenced, indexVars
  <2>4. InstanceInv'
    BY <1>0, <1>2, <2>0, DisengageFacts DEF IInv, keepExistingCluster, TypeOK, Instance,
       Pass, InstanceInv
  <2>5. IndexInv'
    BY <1>0, <1>2, <2>0, DisengageFacts DEF IInv, keepExistingCluster, TypeOK, Pass,
       IndexInv, indexVars
  <2>. QED
    BY <2>1, <2>2, <2>3, <2>4, <2>5 DEF IInv
<1>. QED
  BY <1>1, <1>2 DEF keepExistingCluster

\* A cluster cannot be built: the pass ends with nothing in its hands.
LEMMA NewClusterFailsInv ==
  ASSUME IInv, NewClusterFails
  PROVE  IInv'
<1>. USE KeyFacts, EngagementAssumption
<1>0. worker.cl = None /\ worker' = Idle /\ opsLock = "pass" /\ opsLock' = "free"
  BY DEF IInv, NewClusterFails, EndPass, TypeOK, Pass, PC, PassInv, Built
<1>1. TypeOK'
  BY <1>0 DEF IInv, NewClusterFails, Disturb, TypeOK, Pass, PC, Idle, indexVars
<1>2. PassInv' /\ BuiltInv'
  BY <1>0 DEF PassInv, Built, BuiltInv, Idle
<1>3. PublishedInv' /\ InstanceInv' /\ IndexInv'
  BY <1>0 DEF IInv, NewClusterFails, PublishedInv, InstanceInv, IndexInv, Live, Referenced,
     Idle, indexVars
<1>. QED
  BY <1>1, <1>2, <1>3 DEF IInv

\* A pass that goes on to a later step with the cluster it has built.
LEMMA GoOnInv ==
  ASSUME IInv,
         NEW pc \in Built,
         worker.pc \in Built,
         worker' = [worker EXCEPT !.pc = pc],
         \/ {worker.pc, pc} \subseteq {"wait", "check", "publish"}
         \/ {worker.pc, pc} \subseteq {"engage", "current", "last"}
         \/ worker.pc = "recheck" /\ pc = "engage" /\ ~errIfStopped(worker.cl),
         UNCHANGED <<profiles, profileKeys, clusters, instances, indexVars, opsLock,
                     changes, disturbances>>
  PROVE  IInv'
<1>. USE KeyFacts, EngagementAssumption
<1>1. TypeOK'
  BY DEF IInv, TypeOK, Pass, PC, Built, indexVars
<1>2. PassInv'
  BY DEF IInv, TypeOK, Pass, PassInv, Built, Referenced
<1>3. BuiltInv'
  BY DEF IInv, TypeOK, Pass, PassInv, BuiltInv, Built, indexVars
<1>4. PublishedInv'
  BY DEF IInv, TypeOK, Pass, Instance, Monitor, PublishedInv, Built, Live, Referenced,
     errIfStopped, indexVars
<1>5. InstanceInv' /\ IndexInv'
  BY DEF IInv, TypeOK, Pass, InstanceInv, IndexInv, indexVars
<1>. QED
  BY <1>1, <1>2, <1>3, <1>4, <1>5 DEF IInv

\* A pass that ends and cancels its cluster, which is not published.
LEMMA AbandonInv ==
  ASSUME IInv,
         worker.pc \in Built,
         clusters[worker.key] # worker.cl,
         instances' = Cancelled(worker.cl),
         EndPass,
         disturbances' \in 0 .. MaxDisturbances,
         UNCHANGED <<profiles, profileKeys, clusters, indexVars, changes>>
  PROVE  IInv'
<1>. USE KeyFacts, EngagementAssumption
<1>. DEFINE i == worker.cl
<1>0. TypeOK /\ i \in Ids /\ worker.key \in Keys
  BY DEF IInv, TypeOK, Pass, PassInv, Built
<1>1. \A k \in Keys : clusters[k] # i
  BY <1>0 DEF IInv, BuiltInv, PublishedInv
<1>2. worker' = Idle /\ opsLock = "pass" /\ opsLock' = "free"
  BY DEF IInv, EndPass, TypeOK, PC, Built
<1>3. TypeOK'
  BY <1>0, <1>2, CancelFacts, Zenon DEF TypeOK, Pass, PC, Idle, indexVars
<1>4. PassInv' /\ BuiltInv'
  BY <1>2 DEF PassInv, Built, BuiltInv, Idle
<1>5. /\ \A j \in Ids \ {i} : instances'[j] = instances[j]
      /\ instances'[i].cancelled
      /\ instances'[i].mon # "ended" => /\ instances[i].mon # "ended"
                                        /\ instances'[i].key = instances[i].key
  BY <1>0, CancelFacts, Zenon
<1>6. PublishedInv'
  <2>. SUFFICES ASSUME NEW k \in Keys, clusters'[k] # None
                PROVE  PublishedInv!(k)'
    BY DEF PublishedInv
  <2>1. clusters'[k] = clusters[k] /\ clusters[k] \in Ids \ {i}
    BY <1>0, <1>1 DEF TypeOK
  <2>2. PublishedInv!(k) /\ Live(clusters[k])
    BY <2>1 DEF IInv, PublishedInv
  <2>. QED
    BY <1>5, <2>1, <2>2, Zenon DEF Live, Referenced, indexVars
<1>7. InstanceInv'
  <2>. SUFFICES ASSUME NEW j \in Ids
                PROVE  InstanceInv!(j)'
    BY DEF InstanceInv
  <2>1. CASE j = i
    BY <1>0, <1>5, <2>1, Zenon DEF IInv, InstanceInv
  <2>2. CASE j # i
    BY <1>0, <1>1, <1>2, <1>5, <2>2, Zenon DEF IInv, InstanceInv
  <2>. QED
    BY <2>1, <2>2
<1>8. IndexInv'
  BY <1>0, <1>1, <1>2, <1>5 DEF IInv, TypeOK, IndexInv, indexVars
<1>. QED
  BY <1>3, <1>4, <1>6, <1>7, <1>8 DEF IInv

\* A pass that ends, withdraws its cluster and cancels it.
LEMMA WithdrawInv ==
  ASSUME IInv,
         worker.pc \in {"recheck", "engage", "last"},
         Withdraw,
         disturbances' \in 0 .. MaxDisturbances,
         UNCHANGED <<profiles, profileKeys, indexVars, changes>>
  PROVE  IInv'
<1>. USE KeyFacts, EngagementAssumption
<1>. DEFINE i == worker.cl
<1>0. TypeOK /\ i \in Ids /\ worker.key \in Keys /\ instances[i].key = worker.key
  BY DEF IInv, TypeOK, Pass, PassInv, Built, BuiltInv
<1>1. /\ clusters' \in [Keys -> Ids \cup {None}]
      /\ \A k \in Keys : clusters'[k] = IF clusters[k] = i THEN None ELSE clusters[k]
  BY <1>0 DEF IInv, Withdraw, disengageIfCurrent, TypeOK, PublishedInv
<1>2. worker' = Idle /\ opsLock = "pass" /\ opsLock' = "free"
  BY DEF IInv, Withdraw, EndPass, TypeOK, PC
<1>3. TypeOK'
  BY <1>0, <1>1, <1>2, CancelFacts, Zenon DEF Withdraw, TypeOK, Pass, PC, Idle, indexVars
<1>4. PassInv' /\ BuiltInv'
  BY <1>2 DEF PassInv, Built, BuiltInv, Idle
<1>5. /\ \A j \in Ids \ {i} : instances'[j] = instances[j]
      /\ instances'[i].cancelled
      /\ instances'[i].mon # "ended" => /\ instances[i].mon # "ended"
                                        /\ instances'[i].key = instances[i].key
  BY <1>0, CancelFacts, Zenon DEF Withdraw
<1>6. PublishedInv'
  <2>. SUFFICES ASSUME NEW k \in Keys, clusters'[k] # None
                PROVE  PublishedInv!(k)'
    BY DEF PublishedInv
  <2>1. clusters'[k] = clusters[k] /\ clusters[k] \in Ids \ {i}
    BY <1>0, <1>1 DEF TypeOK
  <2>2. PublishedInv!(k) /\ Live(clusters[k])
    BY <2>1 DEF IInv, PublishedInv
  <2>. QED
    BY <1>5, <2>1, <2>2, Zenon DEF Live, Referenced, indexVars
<1>7. InstanceInv'
  <2>. SUFFICES ASSUME NEW j \in Ids
                PROVE  InstanceInv!(j)'
    BY DEF InstanceInv
  <2>1. CASE j = i
    BY <1>0, <1>5, <2>1 DEF IInv, InstanceInv
  <2>2. CASE j # i
    <3>1. instances'[j] = instances[j] /\ InstanceInv!(j) /\ worker.cl # j
      BY <1>5, <2>2 DEF IInv, InstanceInv
    <3>2. \A k \in Keys : clusters[k] = j => clusters'[k] = j
      BY <1>1, <2>2
    <3>3. instances[j].key \in Keys \cup {None}
      BY <1>0 DEF TypeOK, Instance
    <3>. QED
      BY <3>1, <3>2, <3>3
  <2>. QED
    BY <2>1, <2>2
<1>8. IndexInv'
  BY <1>0, <1>1, <1>2, <1>5 DEF IInv, TypeOK, IndexInv, indexVars
<1>. QED
  BY <1>3, <1>4, <1>6, <1>7, <1>8 DEF IInv

\* Publishing the new cluster.
LEMMA PublishInv ==
  ASSUME IInv, publishCluster
  PROVE  IInv'
<1>. USE KeyFacts, EngagementAssumption
<1>. DEFINE i == worker.cl
<1>0. /\ TypeOK /\ i \in Ids /\ worker.key \in Keys
      /\ clusters[worker.key] = None /\ instances[i].key = worker.key
      /\ instances[i].mon # "ended" /\ ~instances[i].cancelled /\ ~instances[i].engaged
      /\ registered \subseteq instances[i].indexes
      /\ Referenced(profileKeys, worker.key) /\ opsLock = "pass"
  BY DEF IInv, publishCluster, TypeOK, Pass, PC, PassInv, Built, BuiltInv
<1>1. /\ worker' = [worker EXCEPT !.pc = "recheck"]
      /\ clusters' = [clusters EXCEPT ![worker.key] = i]
      /\ UNCHANGED <<profiles, profileKeys, instances, indexers, registered, indexing, opsLock,
                     changes, disturbances>>
  BY DEF publishCluster, indexVars
<1>2. TypeOK'
  BY <1>0, <1>1 DEF publishCluster, TypeOK, Pass, PC
<1>3. PassInv' /\ BuiltInv'
  BY <1>0, <1>1 DEF IInv, publishCluster, TypeOK, Pass, PassInv, Built, BuiltInv, Referenced
<1>4. PublishedInv'
  BY <1>0, <1>1 DEF IInv, publishCluster, TypeOK, Pass, PublishedInv, Live, Referenced
<1>5. InstanceInv'
  BY <1>0, <1>1 DEF IInv, TypeOK, Pass, Instance, InstanceInv
<1>6. IndexInv'
  BY <1>0, <1>1 DEF IInv, TypeOK, IndexInv
<1>. QED
  BY <1>2, <1>3, <1>4, <1>5, <1>6 DEF IInv

\* Engaging the cluster, which is published or already cancelled.
LEMMA EngageInv ==
  ASSUME IInv, Engage
  PROVE  IInv'
<1>. USE KeyFacts, EngagementAssumption
<1>. DEFINE i == worker.cl
<1>0. /\ TypeOK /\ i \in Ids /\ worker.key \in Keys /\ instances[i].key = worker.key
      /\ clusters[worker.key] = i \/ instances[i].cancelled
  BY DEF IInv, Engage, TypeOK, Pass, PC, PassInv, Built, BuiltInv
<1>1. /\ worker' = [worker EXCEPT !.pc = "current"]
      /\ instances' = [instances EXCEPT ![i].engaged = TRUE]
      /\ UNCHANGED <<profiles, profileKeys, clusters, indexers, registered, indexing, opsLock,
                     changes, disturbances>>
  BY DEF Engage, indexVars
<1>2. TypeOK'
  <2>0. instances[i] \in Instance
    BY <1>0, Zenon DEF TypeOK
  <2>1. [instances[i] EXCEPT !.engaged = TRUE] \in Instance
    BY <2>0, Zenon DEF Instance
  <2>2. instances' \in [Ids -> Instance]
    BY <1>0, <1>1, <2>1 DEF TypeOK
  <2>. QED
    BY <1>0, <1>1, <2>2 DEF Engage, TypeOK, Pass, PC
<1>3. PassInv' /\ BuiltInv'
  BY <1>0, <1>1 DEF IInv, Engage, TypeOK, Instance, Pass, PassInv, Built, BuiltInv, Referenced
<1>4. PublishedInv'
  BY <1>0, <1>1 DEF IInv, Engage, TypeOK, Instance, Pass, PublishedInv, Live, Referenced
<1>5. InstanceInv'
  BY <1>0, <1>1 DEF IInv, TypeOK, Pass, Instance, InstanceInv
<1>6. IndexInv'
  BY <1>0, <1>1 DEF IInv, TypeOK, Instance, IndexInv
<1>. QED
  BY <1>2, <1>3, <1>4, <1>5, <1>6 DEF IInv

\* A pass that ends with its cluster engaged.
LEMMA EngagedInv ==
  ASSUME IInv,
         worker.pc = "last",
         EndPass,
         UNCHANGED <<profiles, profileKeys, clusters, instances, indexVars, changes,
                     disturbances>>
  PROVE  IInv'
<1>. USE KeyFacts, EngagementAssumption
<1>0. /\ TypeOK /\ worker.cl \in Ids /\ worker.key \in Keys
      /\ worker' = Idle /\ opsLock = "pass" /\ opsLock' = "free"
      /\ \/ clusters[worker.key] = worker.cl
         \/ instances[worker.cl].cancelled
      /\ instances[worker.cl].key = worker.key
  BY DEF IInv, EndPass, TypeOK, Pass, PC, PassInv, Built, BuiltInv
<1>1. TypeOK'
  BY <1>0 DEF TypeOK, Pass, PC, Idle, indexVars
<1>2. PassInv' /\ BuiltInv'
  BY <1>0 DEF PassInv, Built, BuiltInv, Idle
<1>3. PublishedInv'
  BY <1>0 DEF IInv, PublishedInv, Live, Referenced, indexVars
<1>4. InstanceInv' /\ IndexInv'
  BY <1>0 DEF IInv, InstanceInv, IndexInv, indexVars
<1>. QED
  BY <1>1, <1>2, <1>3, <1>4 DEF IInv

----------------------------------------------------------------------------
(* Steps of the goroutine, of IndexField and of the inventory.             *)

\* Start returns: nothing is left of a cancelled cluster, which is not the cluster
\* of the pass in flight; any other still has to be withdrawn.
LEMMA StartReturnsInv ==
  ASSUME IInv, NEW i \in Ids, StartReturns(i)
  PROVE  IInv'
<1>. USE KeyFacts, EngagementAssumption
<1>0. /\ TypeOK /\ disturbances' \in 0 .. MaxDisturbances
      /\ instances[i].mon = "running"
      /\ UNCHANGED <<profiles, profileKeys, clusters, indexers, registered, indexing, opsLock,
                     worker, changes>>
  BY DEF IInv, StartReturns, Disturb, TypeOK, indexVars
<1>1. CASE instances[i].cancelled /\ instances' = [instances EXCEPT ![i] = Unused]
  <2>1. worker.cl # i /\ \A k \in Keys : clusters[k] # i
    BY <1>0, <1>1 DEF IInv, BuiltInv, PublishedInv
  <2>2. Unused \in Instance /\ Unused.mon = "ended" /\ ~Unused.engaged
    BY DEF Unused, Instance, Monitor
  <2>3. TypeOK'
    BY <1>0, <1>1, <2>2 DEF TypeOK
  <2>4. PassInv' /\ BuiltInv'
    BY <1>0, <1>1, <2>1 DEF IInv, TypeOK, Pass, PassInv, BuiltInv, Referenced
  <2>5. PublishedInv'
    BY <1>0, <1>1, <2>1 DEF IInv, TypeOK, PublishedInv, Live, Referenced
  <2>6. InstanceInv'
    BY <1>0, <1>1, <2>2 DEF IInv, TypeOK, InstanceInv
  <2>7. IndexInv'
    BY <1>0, <1>1, <2>1 DEF IInv, TypeOK, IndexInv
  <2>. QED
    BY <2>3, <2>4, <2>5, <2>6, <2>7 DEF IInv
<1>2. CASE instances' = [instances EXCEPT ![i].mon = "returned"]
  <2>1. TypeOK'
    BY <1>0, <1>2 DEF TypeOK, Instance, Monitor
  <2>2. PassInv' /\ BuiltInv'
    BY <1>0, <1>2 DEF IInv, TypeOK, Instance, Pass, PassInv, BuiltInv, Referenced
  <2>3. PublishedInv'
    BY <1>0, <1>2 DEF IInv, TypeOK, Instance, PublishedInv, Live, Referenced
  <2>4. InstanceInv' /\ IndexInv'
    BY <1>0, <1>2 DEF IInv, TypeOK, Instance, InstanceInv, IndexInv
  <2>. QED
    BY <2>1, <2>2, <2>3, <2>4 DEF IInv
<1>. QED
  BY <1>1, <1>2 DEF StartReturns

\* The goroutine records that its cluster has stopped.
LEMMA MarkStoppedInv ==
  ASSUME IInv, NEW i \in Ids, markStopped(i)
  PROVE  IInv'
<1>. USE KeyFacts, EngagementAssumption
<1>1. TypeOK'
  BY DEF IInv, markStopped, TypeOK, Instance, Monitor, indexVars
<1>2. PassInv' /\ BuiltInv'
  BY DEF IInv, markStopped, TypeOK, Instance, Pass, PassInv, BuiltInv, Referenced, indexVars
<1>3. PublishedInv'
  BY DEF IInv, markStopped, TypeOK, Instance, PublishedInv, Live, Referenced, indexVars
<1>4. InstanceInv' /\ IndexInv'
  BY DEF IInv, markStopped, TypeOK, Instance, InstanceInv, IndexInv, indexVars
<1>. QED
  BY <1>1, <1>2, <1>3, <1>4 DEF IInv

\* The goroutine withdraws its cluster, when it is the published one.
LEMMA WithdrawStoppedInv ==
  ASSUME IInv, NEW i \in Ids, WithdrawStopped(i)
  PROVE  IInv'
<1>. USE KeyFacts, EngagementAssumption
<1>0. /\ TypeOK /\ instances[i].mon = "marked" /\ instances[i].key \in Keys
      /\ UNCHANGED <<profiles, profileKeys, indexers, registered, indexing, opsLock, worker,
                     changes, disturbances>>
  BY DEF IInv, WithdrawStopped, TypeOK, Instance, InstanceInv, indexVars
<1>1. /\ clusters' \in [Keys -> Ids \cup {None}]
      /\ \A k \in Keys : clusters'[k] = IF clusters[k] = i THEN None ELSE clusters[k]
  BY <1>0 DEF IInv, WithdrawStopped, disengageIfCurrent, TypeOK, PublishedInv
<1>. DEFINE c == instances[i].cancelled \/ clusters[instances[i].key] = i
<1>2. /\ c \in BOOLEAN
      /\ instances[i].cancelled => c = TRUE
      /\ clusters[instances[i].key] = i => c = TRUE
      /\ clusters[instances[i].key] # i => c = instances[i].cancelled
  BY <1>0 DEF TypeOK, Instance
<1>3. instances' = [instances EXCEPT ![i] =
                      [[instances[i] EXCEPT !.mon = "withdrawn"] EXCEPT !.cancelled = c]]
  BY <1>0, Zenon DEF WithdrawStopped, TypeOK, Instance
<1>. HIDE DEF c
<1>4. /\ instances' \in [Ids -> Instance]
      /\ \A j \in Ids \ {i} : instances'[j] = instances[j]
      /\ instances'[i].key = instances[i].key
      /\ instances'[i].mon = "withdrawn"
      /\ instances'[i].engaged = instances[i].engaged
      /\ instances'[i].indexes = instances[i].indexes
      /\ instances'[i].cancelled = c
  <2>. DEFINE w == [[instances[i] EXCEPT !.mon = "withdrawn"] EXCEPT !.cancelled = c]
  <2>0. instances[i] \in Instance
    BY <1>0 DEF TypeOK
  <2>1. /\ w \in Instance /\ w.key = instances[i].key /\ w.mon = "withdrawn"
        /\ w.engaged = instances[i].engaged /\ w.indexes = instances[i].indexes
        /\ w.cancelled = c
    BY <1>2, <2>0, Zenon DEF Instance, Monitor
  <2>2. instances' = [instances EXCEPT ![i] = w]
    BY <1>3
  <2>. HIDE DEF w
  <2>. QED
    BY <1>0, <2>1, <2>2 DEF TypeOK
<1>5. TypeOK'
  BY <1>0, <1>1, <1>4 DEF TypeOK
<1>6. PassInv'
  BY <1>0, <1>1 DEF IInv, TypeOK, Pass, PassInv, Built, Referenced
<1>7. BuiltInv'
  <2>1. CASE worker.cl = i
    <3>1. worker.key \in Keys /\ instances[i].key = worker.key
      BY <1>0, <2>1 DEF IInv, TypeOK, Pass, PassInv, Built, BuiltInv
    <3>2. clusters'[worker.key] = IF clusters[worker.key] = i THEN None ELSE clusters[worker.key]
      BY <1>1, <3>1
    <3>. QED
      BY <1>0, <1>2, <1>4, <2>1, <3>1, <3>2 DEF IInv, PassInv, Built, BuiltInv
  <2>2. CASE worker.cl # i
    <3>1. worker.cl # None => /\ worker.cl \in Ids \ {i}
                              /\ worker.key \in Keys
      BY <1>0, <2>2 DEF IInv, TypeOK, Pass, PassInv, Built
    <3>2. worker.cl # None => /\ instances'[worker.cl] = instances[worker.cl]
                              /\ clusters[worker.key] \in {worker.cl, None} =>
                                   clusters'[worker.key] = clusters[worker.key]
      BY <1>1, <1>4, <3>1
    <3>. QED
      BY <1>0, <3>1, <3>2 DEF IInv, BuiltInv
  <2>. QED
    BY <2>1, <2>2
<1>8. PublishedInv'
  <2>. SUFFICES ASSUME NEW k \in Keys, clusters'[k] # None
                PROVE  PublishedInv!(k)'
    BY DEF PublishedInv
  <2>1. clusters'[k] = clusters[k] /\ clusters[k] \in Ids \ {i} /\ PublishedInv!(k)
    BY <1>0, <1>1 DEF IInv, TypeOK, PublishedInv
  <2>. QED
    BY <1>0, <1>4, <2>1 DEF Live, Referenced
<1>9. InstanceInv'
  <2>. SUFFICES ASSUME NEW j \in Ids
                PROVE  InstanceInv!(j)'
    BY DEF InstanceInv
  <2>1. CASE j = i
    BY <1>0, <1>2, <1>4, <2>1 DEF IInv, InstanceInv
  <2>2. CASE j # i
    BY <1>0, <1>1, <1>4, <2>2 DEF IInv, TypeOK, Instance, InstanceInv
  <2>. QED
    BY <2>1, <2>2
<1>10. IndexInv'
  <2>1. ASSUME NEW k \in Keys, clusters'[k] # None
        PROVE  /\ clusters'[k] = clusters[k]
               /\ instances'[clusters[k]].indexes = instances[clusters[k]].indexes
    <3>1. clusters'[k] = clusters[k] /\ clusters[k] \in Ids \ {i}
      BY <1>0, <1>1, <2>1 DEF TypeOK
    <3>. QED
      BY <1>4, <3>1, Zenon
  <2>. QED
    BY <1>0, <2>1 DEF IInv, IndexInv
<1>. QED
  BY <1>5, <1>6, <1>7, <1>8, <1>9, <1>10 DEF IInv

\* The goroutine reports to the pass that waits for its cluster, and ends.
LEMMA SendStartErrInv ==
  ASSUME IInv, NEW i \in Ids, SendStartErr(i)
  PROVE  IInv'
<1>. USE KeyFacts, EngagementAssumption
<1>. DEFINE s == [instances[i] EXCEPT !.mon = "sent"]
<1>0. /\ TypeOK /\ instances[i].mon = "withdrawn"
      /\ instances' = [instances EXCEPT ![i] = IF worker.cl = i THEN s ELSE Unused]
      /\ UNCHANGED <<profiles, profileKeys, clusters, indexers, registered, indexing, opsLock,
                     worker, changes, disturbances>>
  BY DEF IInv, SendStartErr, indexVars
<1>1. /\ s \in Instance /\ s.mon = "sent" /\ s.key = instances[i].key
      /\ s.cancelled = instances[i].cancelled /\ s.engaged = instances[i].engaged
      /\ s.indexes = instances[i].indexes
  BY <1>0 DEF TypeOK, Instance, Monitor
<1>2. Unused \in Instance /\ Unused.mon = "ended" /\ ~Unused.engaged
  BY DEF Unused, Instance, Monitor
<1>. HIDE DEF s
<1>3. /\ instances' \in [Ids -> Instance]
      /\ \A j \in Ids \ {i} : instances'[j] = instances[j]
      /\ instances'[i] = IF worker.cl = i THEN s ELSE Unused
  BY <1>0, <1>1, <1>2 DEF TypeOK
<1>4. TypeOK' /\ PassInv'
  BY <1>0, <1>3 DEF IInv, TypeOK, PassInv, Referenced
<1>5. BuiltInv'
  BY <1>0, <1>1, <1>3 DEF IInv, TypeOK, Pass, BuiltInv
<1>6. PublishedInv'
  <2>. SUFFICES ASSUME NEW k \in Keys, clusters'[k] # None
                PROVE  PublishedInv!(k)'
    BY DEF PublishedInv
  <2>1. clusters'[k] = clusters[k] /\ clusters[k] \in Ids /\ PublishedInv!(k)
    BY <1>0 DEF IInv, TypeOK, PublishedInv
  <2>2. CASE clusters[k] = i
    BY <1>0, <1>1, <1>3, <2>1, <2>2 DEF Live, Referenced
  <2>3. CASE clusters[k] # i
    BY <1>0, <1>3, <2>1, <2>3 DEF Live, Referenced
  <2>. QED
    BY <2>2, <2>3
<1>7. InstanceInv'
  <2>. SUFFICES ASSUME NEW j \in Ids
                PROVE  InstanceInv!(j)'
    BY DEF InstanceInv
  <2>1. CASE j = i
    BY <1>0, <1>1, <1>2, <1>3, <2>1 DEF IInv, InstanceInv
  <2>2. CASE j # i
    BY <1>0, <1>3, <2>2 DEF IInv, InstanceInv
  <2>. QED
    BY <2>1, <2>2
<1>8. IndexInv'
  <2>1. \A k \in Keys : clusters[k] = i => worker.cl = i
    BY <1>0 DEF IInv, PublishedInv, Live
  <2>2. \A k \in Keys : clusters[k] # None =>
          /\ clusters[k] \in Ids
          /\ instances'[clusters[k]].indexes = instances[clusters[k]].indexes
    BY <1>0, <1>1, <1>3, <2>1 DEF TypeOK
  <2>. QED
    BY <1>0, <2>2 DEF IInv, IndexInv
<1>. QED
  BY <1>4, <1>5, <1>6, <1>7, <1>8 DEF IInv

\* IndexField takes the lock that no pass holds.
LEMMA IndexFieldInv ==
  ASSUME IInv, NEW f \in Fields, IndexField(f)
  PROVE  IInv'
<1>. USE KeyFacts, EngagementAssumption
<1>0. /\ TypeOK /\ indexing = NotIndexing
      /\ indexing' = [field |-> f, todo |-> {clusters[k] : k \in Keys} \ {None}]
      /\ indexing'.field = f
      /\ indexing'.todo = {clusters[k] : k \in Keys} \ {None}
      /\ indexers' = indexers \cup {f}
      /\ opsLock = "free" /\ opsLock' = "index"
      /\ changes' \in 0 .. MaxChanges
      /\ UNCHANGED <<profiles, profileKeys, clusters, instances, registered, worker,
                     disturbances>>
  BY DEF IInv, IndexField, TypeOK, IndexInv
<1>1. TypeOK'
  BY <1>0 DEF TypeOK
<1>2. PassInv' /\ BuiltInv'
  BY <1>0 DEF IInv, PassInv, BuiltInv, Referenced
<1>3. PublishedInv' /\ InstanceInv'
  BY <1>0 DEF IInv, PublishedInv, InstanceInv, Live, Referenced
<1>4. IndexInv'
  BY <1>0 DEF IInv, IndexInv, NotIndexing
<1>. QED
  BY <1>1, <1>2, <1>3, <1>4 DEF IInv

\* One cluster is given the index.
LEMMA IndexOneInv ==
  ASSUME IInv, NEW i \in Ids, IndexOne(i)
  PROVE  IInv'
<1>. USE KeyFacts, EngagementAssumption
<1>0. /\ TypeOK /\ indexing.field \in Fields /\ opsLock = "index"
      /\ indexing'.field = indexing.field /\ indexing'.todo = indexing.todo \ {i}
      /\ indexing' \in [field : Fields \cup {None}, todo : SUBSET Ids]
      /\ UNCHANGED <<profiles, profileKeys, clusters, indexers, registered, opsLock, worker,
                     changes, disturbances>>
  BY DEF IInv, IndexOne, TypeOK, IndexInv, NotIndexing
<1>. DEFINE x == [instances[i] EXCEPT !.indexes = @ \cup {indexing.field}]
<1>1. /\ x \in Instance /\ x.mon = instances[i].mon /\ x.key = instances[i].key
      /\ x.cancelled = instances[i].cancelled /\ x.engaged = instances[i].engaged
      /\ x.indexes = instances[i].indexes \cup {indexing.field}
  BY <1>0, SMTT(30) DEF TypeOK, Instance
<1>2. instances' = [instances EXCEPT ![i] = x]
  BY DEF IndexOne
<1>. HIDE DEF x
<1>3. /\ instances' \in [Ids -> Instance]
      /\ \A j \in Ids \ {i} : instances'[j] = instances[j]
      /\ instances'[i] = x
  BY <1>0, <1>1, <1>2 DEF TypeOK
<1>4. TypeOK' /\ PassInv'
  BY <1>0, <1>3 DEF IInv, TypeOK, PassInv, Referenced
<1>5. BuiltInv'
  <2>1. worker.cl = None
    BY <1>0, SMTT(30) DEF IInv, TypeOK, PassInv, PC, Built
  <2>. QED
    BY <1>0, <2>1 DEF BuiltInv
<1>6. PublishedInv'
  <2>. SUFFICES ASSUME NEW k \in Keys, clusters'[k] # None
                PROVE  PublishedInv!(k)'
    BY DEF PublishedInv
  <2>1. clusters'[k] = clusters[k] /\ clusters[k] \in Ids /\ PublishedInv!(k)
    BY <1>0 DEF IInv, TypeOK, PublishedInv
  <2>2. CASE clusters[k] = i
    BY <1>0, <1>1, <1>3, <2>1, <2>2 DEF Live, Referenced
  <2>3. CASE clusters[k] # i
    BY <1>0, <1>3, <2>1, <2>3, Zenon DEF Live, Referenced
  <2>. QED
    BY <2>2, <2>3
<1>7. InstanceInv'
  <2>. SUFFICES ASSUME NEW j \in Ids
                PROVE  InstanceInv!(j)'
    BY DEF InstanceInv
  <2>1. CASE j = i
    BY <1>0, <1>1, <1>3, <2>1 DEF IInv, InstanceInv
  <2>2. CASE j # i
    BY <1>0, <1>3, <2>2 DEF IInv, InstanceInv
  <2>. QED
    BY <2>1, <2>2
<1>8. IndexInv'
  <2>1. indexing # NotIndexing /\ indexing' # NotIndexing
    BY <1>0 DEF IInv, IndexInv, NotIndexing
  <2>. QED
    BY <1>0, <1>1, <1>3, <2>1, Zenon DEF IInv, TypeOK, IndexInv
<1>. QED
  BY <1>4, <1>5, <1>6, <1>7, <1>8 DEF IInv

\* A field counts as registered when no published cluster is left without it.
LEMMA IndexFieldReturnsInv ==
  ASSUME IInv, IndexFieldReturns
  PROVE  IInv'
<1>. USE KeyFacts, EngagementAssumption
<1>0. /\ TypeOK /\ opsLock = "index" /\ opsLock' = "free" /\ indexing' = NotIndexing
      /\ indexing.field \in Fields /\ indexing.field \in indexers /\ worker.cl = None
      /\ registered' \subseteq registered \cup {indexing.field}
      /\ disturbances' \in 0 .. MaxDisturbances
      /\ UNCHANGED <<profiles, profileKeys, clusters, instances, indexers, worker, changes>>
  BY DEF IInv, IndexFieldReturns, Disturb, TypeOK, IndexInv, PassInv, PC, Built
<1>1. ASSUME NEW k \in Keys, clusters[k] # None
      PROVE  registered' \subseteq instances[clusters[k]].indexes
  <2>1. /\ registered \subseteq instances[clusters[k]].indexes
        /\ clusters[k] \in indexing.todo \/ indexing.field \in instances[clusters[k]].indexes
    BY <1>1 DEF IInv, IndexFieldReturns, IndexInv, PublishedInv
  <2>. QED
    BY <2>1 DEF IndexFieldReturns
<1>2. TypeOK'
  BY <1>0, SMTT(30) DEF TypeOK, NotIndexing
<1>3. PassInv' /\ BuiltInv'
  BY <1>0, SMTT(30) DEF IInv, PassInv, BuiltInv, Referenced
<1>4. PublishedInv'
  <2>. SUFFICES ASSUME NEW k \in Keys, clusters'[k] # None
                PROVE  PublishedInv!(k)'
    BY DEF PublishedInv
  <2>1. clusters'[k] = clusters[k] /\ PublishedInv!(k)
    BY <1>0 DEF IInv, PublishedInv
  <2>. QED
    BY <1>0, <1>1, <2>1 DEF Live, Referenced
<1>6. InstanceInv'
  BY <1>0 DEF IInv, InstanceInv
<1>5. IndexInv'
  BY <1>0 DEF IInv, IndexInv
<1>. QED
  BY <1>2, <1>3, <1>4, <1>5, <1>6 DEF IInv

\* The inventory is not the provider's.
LEMMA ChangeProfileInv ==
  ASSUME IInv, NEW p \in Profiles, NEW v \in Versions \cup {None}, ChangeProfile(p, v)
  PROVE  IInv'
<1>. USE EngagementAssumption
<1>1. TypeOK'
  BY SMTT(30) DEF IInv, ChangeProfile, TypeOK, indexVars
<1>2. PassInv' /\ BuiltInv'
  BY DEF IInv, ChangeProfile, PassInv, BuiltInv, Referenced, indexVars
<1>3. PublishedInv'
  BY DEF IInv, ChangeProfile, PublishedInv, Live, Referenced, indexVars
<1>4. InstanceInv' /\ IndexInv'
  BY DEF IInv, ChangeProfile, InstanceInv, IndexInv, indexVars
<1>. QED
  BY <1>1, <1>2, <1>3, <1>4 DEF IInv

\* Nothing happens.
LEMMA StutterInv ==
  ASSUME IInv, UNCHANGED vars
  PROVE  IInv'
<1>1. TypeOK'
  BY DEF IInv, vars, TypeOK
<1>2. PassInv' /\ BuiltInv'
  BY SMTT(30) DEF IInv, vars, PassInv, BuiltInv, Referenced
<1>3. PublishedInv'
  BY DEF IInv, vars, PublishedInv, Live, Referenced
<1>4. InstanceInv' /\ IndexInv'
  BY DEF IInv, vars, InstanceInv, IndexInv
<1>. QED
  BY <1>1, <1>2, <1>3, <1>4 DEF IInv

----------------------------------------------------------------------------
(* The start of a pass.                                                    *)

\* A pass that starts takes away only clusters that no profile is left for.
LEMMA ReconcileFacts ==
  ASSUME IInv, NEW p \in Profiles, Reconcile(p)
  PROVE  \E keys \in SUBSET Keys :
           /\ disengageLocked(keys)
           /\ profileKeys' \in [Profiles -> Keys \cup {None}]
           /\ \A k \in keys : ~Referenced(profileKeys', k)
           /\ \A k \in Keys \ keys : Referenced(profileKeys, k) => Referenced(profileKeys', k)
           /\ \/ worker' = worker
              \/ /\ worker' \in Pass
                 /\ worker'.pc = "cluster" /\ worker'.cl = None /\ worker'.key \in Keys
                 /\ Referenced(profileKeys', worker'.key)
<1>. USE KeyFacts, EngagementAssumption
<1>. DEFINE profile == profiles[p]
            key     == IF profile = None THEN LogicalKey(p.name)
                                         ELSE logicalClusterName(p, profile)
<1>0. TypeOK /\ profile \in Versions \cup {None} /\ profileKeys[p] \in Keys \cup {None}
  BY DEF IInv, TypeOK
<1>1. key \in Keys
  BY <1>0, LogicalNameIsKey
<1>2. CASE disengageProfile(p, key) /\ UNCHANGED worker
  <2>. DEFINE keys == {k \in {profileKeys[p], p, key} \ {None} : ~Referenced(profileKeys', k)}
  <2>1. disengageLocked(keys) /\ profileKeys' = [profileKeys EXCEPT ![p] = None]
    BY <1>2 DEF disengageProfile, disengageLogicalIfUnreferencedLocked
  <2>2. keys \in SUBSET Keys
    BY <1>0, <1>1
  <2>3. \A k \in Keys \ keys : Referenced(profileKeys, k) => Referenced(profileKeys', k)
    BY <1>0, <2>1 DEF TypeOK, Referenced
  <2>4. profileKeys' \in [Profiles -> Keys \cup {None}]
    BY <1>0, <2>1 DEF TypeOK
  <2>. QED
    BY <1>2, <2>1, <2>2, <2>3, <2>4, Zenon
<1>3. CASE /\ profile # None
           /\ rememberProfileKey(p, key)
           /\ worker' = [Idle EXCEPT !.pc = "cluster", !.key = key, !.cfg = profile.access]
  <2>. DEFINE refs == [profileKeys EXCEPT ![p] = None]
              keys == {k \in {profileKeys[p]} \ {None, key} : ~Referenced(refs, k)}
  <2>1. disengageLocked(keys) /\ profileKeys' = [profileKeys EXCEPT ![p] = key]
    BY <1>3 DEF rememberProfileKey, disengageLogicalIfUnreferencedLocked
  <2>2. keys \in SUBSET Keys
    BY <1>0
  <2>3. \A k \in keys : ~Referenced(profileKeys', k)
    BY <1>0, <2>1 DEF TypeOK, Referenced
  <2>4. \A k \in Keys \ keys : Referenced(profileKeys, k) => Referenced(profileKeys', k)
    BY <1>0, <2>1 DEF TypeOK, Referenced
  <2>5. profileKeys' \in [Profiles -> Keys \cup {None}] /\ Referenced(profileKeys', key)
    BY <1>0, <1>1, <2>1 DEF TypeOK, Referenced
  <2>6. profile.access \in Configs \cup {None}
    BY <1>0, <1>3 DEF ClusterProfile
  <2>7. /\ worker' \in Pass /\ worker'.pc = "cluster" /\ worker'.cl = None
        /\ worker'.key = key
    BY <1>1, <1>3, <2>6, Zenon DEF Pass, PC, Idle
  <2>. QED
    BY <1>1, <2>1, <2>2, <2>3, <2>4, <2>5, <2>7, Zenon
<1>. QED
  BY <1>2, <1>3 DEF Reconcile

\* The pass starts.
LEMMA ReconcileInv ==
  ASSUME IInv, NEW p \in Profiles, Reconcile(p)
  PROVE  IInv'
<1>. USE KeyFacts, EngagementAssumption
<1>. PICK keys \in SUBSET Keys :
           /\ disengageLocked(keys)
           /\ profileKeys' \in [Profiles -> Keys \cup {None}]
           /\ \A k \in keys : ~Referenced(profileKeys', k)
           /\ \A k \in Keys \ keys : Referenced(profileKeys, k) => Referenced(profileKeys', k)
           /\ \/ worker' = worker
              \/ /\ worker' \in Pass
                 /\ worker'.pc = "cluster" /\ worker'.cl = None /\ worker'.key \in Keys
                 /\ Referenced(profileKeys', worker'.key)
  BY ReconcileFacts
<1>0. /\ TypeOK /\ worker.pc = "idle" /\ worker.cl = None /\ worker.key = None
      /\ UNCHANGED <<profiles, indexers, registered, indexing, opsLock, changes, disturbances>>
  BY DEF IInv, Reconcile, TypeOK, PassInv, Built, indexVars
<1>1. /\ clusters' \in [Keys -> Ids \cup {None}]
      /\ instances' \in [Ids -> Instance]
      /\ \A k \in Keys : clusters'[k] = IF k \in keys THEN None ELSE clusters[k]
      /\ \A i \in Ids : /\ instances'[i].key = instances[i].key
                        /\ instances'[i].mon = instances[i].mon
                        /\ instances'[i].engaged = instances[i].engaged
                        /\ instances'[i].indexes = instances[i].indexes
                        /\ instances[i].cancelled => instances'[i].cancelled
                        /\ (\E k \in keys : clusters[k] = i) => instances'[i].cancelled
                        /\ (\A k \in keys : clusters[k] # i) => instances'[i] = instances[i]
  BY <1>0, DisengageFacts
<1>2. TypeOK'
  BY <1>0, <1>1 DEF TypeOK, PC
<1>3. PassInv' /\ BuiltInv'
  BY <1>0 DEF PassInv, BuiltInv, Built
<1>4. PublishedInv'
  <2>. SUFFICES ASSUME NEW k \in Keys, clusters'[k] # None
                PROVE  PublishedInv!(k)'
    BY SMTT(30) DEF PublishedInv
  <2>1. /\ clusters'[k] = clusters[k] /\ clusters[k] \in Ids /\ k \notin keys
        /\ PublishedInv!(k) /\ Live(clusters[k])
    <3>1. clusters'[k] = clusters[k] /\ clusters[k] \in Ids /\ k \notin keys
      BY <1>0, <1>1 DEF TypeOK
    <3>. QED
      BY <1>0, <3>1 DEF IInv, PublishedInv
  <2>2. \A j \in Keys : clusters[j] = clusters[k] => j = k
    BY <2>1 DEF IInv, PublishedInv
  <2>3. instances'[clusters[k]] = instances[clusters[k]]
    BY <1>1, <2>1, <2>2
  <2>. QED
    BY <1>0, <2>1, <2>3 DEF Live
<1>5. InstanceInv'
  <2>. SUFFICES ASSUME NEW j \in Ids
                PROVE  InstanceInv!(j)'
    BY SMTT(30) DEF InstanceInv
  <2>0. instances[j].key \in Keys \cup {None} /\ InstanceInv!(j)
    BY <1>0 DEF IInv, TypeOK, Instance, InstanceInv
  <2>1. CASE \E k \in keys : clusters[k] = j
    BY <1>0, <1>1, <2>0, <2>1
  <2>2. CASE \A k \in keys : clusters[k] # j
    BY <1>0, <1>1, <2>0, <2>2, SMTT(30)
  <2>. QED
    BY <2>1, <2>2
<1>6. IndexInv'
  <2>1. ASSUME NEW k \in Keys, clusters'[k] # None
        PROVE  /\ clusters'[k] = clusters[k]
               /\ instances'[clusters[k]].indexes = instances[clusters[k]].indexes
    <3>1. clusters'[k] = clusters[k] /\ clusters[k] \in Ids
      BY <1>0, <1>1, <2>1 DEF TypeOK
    <3>. QED
      BY <1>1, <3>1
  <2>. QED
    BY <1>0, <2>1 DEF IInv, IndexInv
<1>. QED
  BY <1>2, <1>3, <1>4, <1>5, <1>6 DEF IInv

----------------------------------------------------------------------------
(* Every step keeps the invariant.                                         *)

\* The steps of publishAndEngage.
LEMMA PublishAndEngageInv ==
  ASSUME IInv, publishAndEngage
  PROVE  IInv'
<1>. USE KeyFacts, EngagementAssumption
<1>0. TypeOK
  BY DEF IInv
<1>1. CASE checkStarted
  <2>1. clusters[worker.key] # worker.cl
    BY <1>1 DEF IInv, checkStarted, PassInv, Built
  <2>. QED
    BY <1>0, <1>1, <2>1, AbandonInv, GoOnInv DEF checkStarted, Built, TypeOK
<1>2. CASE publishCluster
  BY <1>2, PublishInv
<1>3. CASE recheckStarted
  BY <1>0, <1>3, WithdrawInv, GoOnInv DEF recheckStarted, Built, TypeOK
<1>4. CASE Engage
  BY <1>4, EngageInv
<1>5. CASE EngageFails
  <2>1. disturbances' \in 0 .. MaxDisturbances
    BY <1>0, <1>5 DEF EngageFails, Disturb, TypeOK
  <2>. QED
    BY <1>5, <2>1, WithdrawInv DEF EngageFails
<1>6. CASE isCurrentCluster
  BY <1>0, <1>6, AbandonInv, GoOnInv DEF isCurrentCluster, Built, TypeOK
<1>7. CASE checkEngaged
  BY <1>0, <1>7, WithdrawInv, EngagedInv DEF checkEngaged, TypeOK
<1>. QED
  BY <1>1, <1>2, <1>3, <1>4, <1>5, <1>6, <1>7 DEF publishAndEngage

\* The steps of reconcileCluster.
LEMMA ReconcileClusterInv ==
  ASSUME IInv, reconcileCluster
  PROVE  IInv'
<1>. USE KeyFacts, EngagementAssumption
<1>0. TypeOK
  BY DEF IInv
<1>1. CASE waitForRemoteCacheSync
  BY <1>1, GoOnInv DEF waitForRemoteCacheSync, Built
<1>2. CASE waitForRemoteCacheSyncFails
  <2>1. clusters[worker.key] # worker.cl
    BY <1>2 DEF IInv, waitForRemoteCacheSyncFails, PassInv, Built
  <2>2. disturbances' \in 0 .. MaxDisturbances
    BY <1>0, <1>2 DEF waitForRemoteCacheSyncFails, Disturb, TypeOK
  <2>. QED
    BY <1>2, <2>1, <2>2, AbandonInv DEF waitForRemoteCacheSyncFails, Built
<1>. QED
  BY <1>1, <1>2, KeepExistingInv, NewClusterFailsInv, NewClusterInv, PublishAndEngageInv
     DEF reconcileCluster

\* The invariant is inductive.
LEMMA NextInv == IInv /\ [Next]_vars => IInv'
<1>. SUFFICES ASSUME IInv, [Next]_vars PROVE IInv'
  OBVIOUS
<1>1. ASSUME NEW i \in Ids, monitorClusterStart(i) PROVE IInv'
  BY <1>1, StartReturnsInv, MarkStoppedInv, WithdrawStoppedInv, SendStartErrInv
     DEF monitorClusterStart
<1>2. CASE Next
  BY <1>1, <1>2, ReconcileInv, ReconcileClusterInv, IndexFieldInv, IndexOneInv,
     IndexFieldReturnsInv, ChangeProfileInv DEF Next
<1>. QED
  BY <1>2, StutterInv

----------------------------------------------------------------------------
(* The theorems.                                                           *)

\* The provider keeps its inductive invariant, whatever the passes, the
\* goroutines, IndexField and the inventory do.
THEOREM InvariantThm == Spec => []IInv
BY InitInv, NextInv, PTL DEF Spec

\* The provider's maps, run states and locks keep their types; opsLock is held
\* exactly while reconcileCluster is past keepExistingCluster.
THEOREM EngagementTypeThm == Spec => []TypeOK
<1>1. IInv => TypeOK
  BY DEF IInv
<1>. QED
  BY <1>1, InvariantThm, PTL

\* No remote cluster that still runs is out of reach of its cancel function,
\* and none is published for a key without a profile.
THEOREM NoLeakThm == Spec => []NoLeak
<1>1. IInv => NoLeak
  BY DEF IInv, InstanceInv, PublishedInv, NoLeak
<1>. QED
  BY <1>1, InvariantThm, PTL

\* A cluster that the controllers are engaged with and that is not cancelled
\* still has its goroutine to withdraw it.
THEOREM EngagedIsWatchedThm == Spec => []EngagedIsWatched
<1>1. IInv => EngagedIsWatched
  <2>. SUFFICES ASSUME IInv, NEW i \in Ids, instances[i].engaged, ~instances[i].cancelled
                PROVE  instances[i].mon \in {"running", "returned", "marked"}
    BY DEF EngagedIsWatched
  <2>1. instances[i].key \in Keys /\ clusters[instances[i].key] = i /\ i # None
    BY KeyFacts DEF IInv, TypeOK, Instance, InstanceInv
  <2>2. Live(i) \/ (worker.pc = "recheck" /\ worker.cl = i)
    BY <2>1 DEF IInv, PublishedInv
  <2>3. ~(worker.pc = "recheck" /\ worker.cl = i)
    BY <2>1 DEF IInv, BuiltInv
  <2>. QED
    BY <2>2, <2>3 DEF Live
<1>. QED
  BY <1>1, InvariantThm, PTL

\* Every published cluster has every indexer whose IndexField has succeeded.
THEOREM IndexesCompleteThm == Spec => []IndexesComplete
<1>1. IInv => IndexesComplete
  BY DEF IInv, PublishedInv, IndexesComplete
<1>. QED
  BY <1>1, InvariantThm, PTL

\* A step that withdraws the cluster of a key that profiles still share is one of
\* the pass that works on that key, or of the goroutine of a cluster that stopped.
LEMMA WithdrawalsJustified ==
  ASSUME IInv, [Next]_vars, NEW k \in Keys, clusters[k] # None, clusters'[k] = None
  PROVE  ~Referenced(profileKeys', k) \/ worker.key = k \/ errIfStopped(clusters[k])
<1>. USE KeyFacts, EngagementAssumption
<1>0. TypeOK /\ clusters[k] \in Ids
  BY DEF IInv, TypeOK
<1>1. ASSUME NEW p \in Profiles, Reconcile(p) PROVE ~Referenced(profileKeys', k)
  <2>. PICK keys \in SUBSET Keys : /\ disengageLocked(keys)
                                   /\ \A j \in keys : ~Referenced(profileKeys', j)
    BY <1>1, ReconcileFacts
  <2>1. \A j \in Keys : clusters'[j] = IF j \in keys THEN None ELSE clusters[j]
    BY <1>0, DisengageFacts
  <2>. QED
    BY <1>0, <2>1
<1>2. CASE keepExistingCluster
  BY <1>0, <1>2, DisengageFacts DEF keepExistingCluster, disengageLocked
<1>3. ASSUME Withdraw, worker.pc \in {"recheck", "engage", "last"} PROVE worker.key = k
  <2>1. worker.cl \in Ids /\ instances[worker.cl].key = worker.key /\ worker.key \in Keys
    BY <1>3 DEF IInv, TypeOK, Pass, PassInv, BuiltInv, Built
  <2>. QED
    BY <1>0, <1>3, <2>1 DEF Withdraw, disengageIfCurrent, TypeOK
<1>4. ASSUME NEW i \in Ids, WithdrawStopped(i) PROVE errIfStopped(clusters[k])
  <2>1. instances[i].key \in Keys
    BY <1>4 DEF IInv, WithdrawStopped, TypeOK, Instance, InstanceInv
  <2>. QED
    BY <1>0, <1>4, <2>1 DEF WithdrawStopped, disengageIfCurrent, errIfStopped, TypeOK
<1>5. CASE reconcileCluster
  <2>1. CASE publishCluster
    BY <1>0, <2>1 DEF publishCluster, IInv, TypeOK, Pass, PassInv, Built
  <2>. QED
    BY <1>2, <1>3, <1>5, <2>1, Zenon DEF reconcileCluster, publishAndEngage, NewClusterFails,
       NewCluster,
       waitForRemoteCacheSync, waitForRemoteCacheSyncFails, checkStarted, recheckStarted, Engage,
       EngageFails, isCurrentCluster, checkEngaged
<1>6. ASSUME NEW i \in Ids, monitorClusterStart(i) PROVE errIfStopped(clusters[k])
  BY <1>4, <1>6 DEF monitorClusterStart, StartReturns, markStopped, SendStartErr
<1>7. CASE UNCHANGED clusters
  BY <1>7
<1>. QED
  BY <1>1, <1>5, <1>6, <1>7 DEF Next, IndexField, IndexOne, IndexFieldReturns,
     ChangeProfile, vars

\* No pass takes away a cluster that another profile shares: rememberProfileKey
\* and disengageProfile withdraw only what no profile refers to any more.
THEOREM SharedClusterKeptThm == Spec => SharedClusterKept
<1>1. IInv /\ [Next]_vars =>
        [\A k \in Keys : clusters[k] # None /\ clusters'[k] = None =>
           \/ ~Referenced(profileKeys', k)
           \/ worker.key = k
           \/ errIfStopped(clusters[k])]_vars
  BY WithdrawalsJustified
<1>. QED
  BY <1>1, InvariantThm, PTL DEF Spec, SharedClusterKept

=============================================================================
