---------------------------- MODULE RoleReplicaSet -----------------------------
(***************************************************************************)
(* The AWSServiceAccountRoleReplicaSet controller for one ReplicaSet name: *)
(* how a pass plans the OCM rollout, applies and prunes one                *)
(* AWSServiceAccountRole child per selected cluster, reports the fleet and *)
(* finalizes, while users, the placement, the role controllers of the      *)
(* children and the informer caches move.                                  *)
(*                                                                         *)
(* A pass reads everything from the caches when it starts; every further   *)
(* step is one API call.  Clusters are numbered in the order of their      *)
(* names, which is the order in which the rollout takes them.              *)
(***************************************************************************)
EXTENDS Naturals, FiniteSets, FiniteSetsExt

CONSTANTS
  N,              \* number of clusters
  MaxConcurrency, \* rollout window; N for the strategy All
  MaxFailures,    \* failed or late clusters the rollout tolerates
  MaxUID,         \* how many ReplicaSets of the name are created
  Strangers,      \* clusters where someone else's role may hold the child's name
  MaxChanges      \* bound on template edits, disturbances of the fleet and errors

ASSUME FleetAssumption ==
  /\ {N, MaxConcurrency, MaxFailures, MaxUID, MaxChanges} \subseteq Nat
  /\ MaxConcurrency > 0
  /\ Strangers \subseteq 1 .. N

Clusters == 1 .. N

UIDs == 1 .. MaxUID

\* Versions of spec.template; every edit makes a new one.
Templates == 1 .. MaxChanges + 1

\* Owner of a role that carries none of the ReplicaSet's stamps.
Foreign == MaxUID + 1

VARIABLES
  rs,          \* the ReplicaSet on the hub API server
  rsCache,     \* ... and in the informer cache
  child,       \* child[c]: the role with the ReplicaSet's name in namespace c
  childCache,
  placement,   \* what the cached Placement and its decisions resolve to
  namespaces,  \* cluster namespaces that the cache shows
  late,        \* clusters whose child has exceeded the progress deadline
  worker,      \* the reconcile pass in flight
  changes      \* disturbances so far

vars == <<rs, rsCache, child, childCache, placement, namespaces, late, worker, changes>>

fleetVars == <<placement, namespaces, late>>

Status == [ready : BOOLEAN, rolled : BOOLEAN, blocked : BOOLEAN]

NoStatus == [ready |-> FALSE, rolled |-> FALSE, blocked |-> FALSE]

\* tpl: the version of spec.template.
ReplicaSet == [uid : 0 .. MaxUID, st : {"none", "live", "deleting"}, fin : BOOLEAN,
               tpl : Templates, status : Status]

NoReplicaSet == [uid |-> 0, st |-> "none", fin |-> FALSE, tpl |-> 1, status |-> NoStatus]

\* spec: the template version it was rendered from, 0 when it binds another
\* ServiceAccount.  ready: the Ready condition; "yes" and "lost" are for the
\* present generation ("lost": it was True once), "old" is True for an earlier one.
Child == [st : {"none", "live", "deleting"}, owner : 0 .. Foreign,
          spec : {0} \cup Templates, ready : {"no", "old", "yes", "lost"}]

NoChild == [st |-> "none", owner |-> 0, spec |-> 0, ready |-> "no"]

\* The phase and the reason of a cluster summary.
Phases == {"Ready", "RolloutPending", "ChildrenPending", "ImmutableChildDrift",
           "Conflict", "Failed", "TimedOut"}

\* copy, kids, sel: the ReplicaSet, the children and the selection that the pass
\* read; window: the clusters to roll out; todo: clusters the current loop still
\* has to visit; stale: some child was pruned.
Pass == [pc : {"idle", "apply", "prune", "delete", "final"}, copy : ReplicaSet,
         kids : [Clusters -> Child], sel : SUBSET Clusters, sum : [Clusters -> Phases],
         window : SUBSET Clusters, todo : SUBSET Clusters, stale : BOOLEAN]

Idle == [pc |-> "idle", copy |-> NoReplicaSet, kids |-> [c \in Clusters |-> NoChild],
         sel |-> {}, sum |-> [c \in Clusters |-> "RolloutPending"],
         window |-> {}, todo |-> {}, stale |-> FALSE]

TypeOK ==
  /\ rs \in ReplicaSet /\ rsCache \in ReplicaSet
  /\ child \in [Clusters -> Child] /\ childCache \in [Clusters -> Child]
  /\ placement \in [ok : BOOLEAN, clusters : SUBSET Clusters]
  /\ namespaces \subseteq Clusters /\ late \subseteq Clusters
  /\ worker \in Pass /\ worker.todo \subseteq worker.sel \cup {c \in Clusters :
       worker.kids[c].owner = worker.copy.uid}
  /\ changes \in 0 .. MaxChanges

Init ==
  /\ rs = NoReplicaSet /\ rsCache = NoReplicaSet
  /\ \E S \in {{}, Strangers} :
       child = [c \in Clusters |->
                  IF c \in S THEN [NoChild EXCEPT !.st = "live", !.owner = Foreign] ELSE NoChild]
  /\ childCache = child
  /\ placement = [ok |-> TRUE, clusters |-> Clusters]
  /\ namespaces \in {Clusters, Clusters \ {N}}
  /\ late = {}
  /\ worker = Idle
  /\ changes = 0

Change == changes < MaxChanges /\ changes' = changes + 1
--------------------------------------------------------------------------------
(* Planning *)

\* Mutant: the child's name is enough.
replicaSetOwnsChild_ByName(uid, k) == k.st # "none"

replicaSetOwnsChild(uid, k) == k.st # "none" /\ k.owner = uid

\* Mutant: the generation that the condition was computed for is not looked at.
childReady_AnyGeneration(k) == k.ready \in {"yes", "old"}

childReady(k) == k.ready = "yes"

\* Mutant: a child of an earlier template is not rolled out again.
existingReplicaSetClusterSummary_NoPatch(o, c) ==
  LET k == childCache[c] IN
  CASE c \notin namespaces -> "Failed"
    [] c \in namespaces /\ ~replicaSetOwnsChild(o.uid, k) ->
         IF k.st = "none" THEN "RolloutPending" ELSE "Conflict"
    [] OTHER -> IF childReady(k) THEN "Ready" ELSE "ChildrenPending"

existingReplicaSetClusterSummary(o, c) ==
  LET k == childCache[c] IN
  CASE c \notin namespaces -> "Failed"
    [] c \in namespaces /\ ~replicaSetOwnsChild(o.uid, k) ->
         IF k.st = "none" THEN "RolloutPending" ELSE "Conflict"
    [] c \in namespaces /\ replicaSetOwnsChild(o.uid, k) /\ k.spec # o.tpl -> "RolloutPending"
    [] OTHER -> IF childReady(k) THEN "Ready" ELSE "ChildrenPending"

TimedOut(sel, sum) == {c \in sel \cap late : sum[c] = "ChildrenPending"}

\* The OCM rollout handler: clusters in the order of their names, without those
\* that are done or late; no new ones once too many before them have failed.
GetRolloutCluster(sel, sum) ==
  LET timeout == TimedOut(sel, sum)
      failed(c) == {d \in sel : d < c /\ (d \in timeout \/ sum[d] \in {"Conflict", "Failed"})}
      eligible == {c \in sel \ timeout :
                     /\ sum[c] # "Ready"
                     /\ sum[c] = "RolloutPending" => Cardinality(failed(c)) <= MaxFailures}
  IN {c \in eligible : Cardinality({d \in eligible : d < c}) < MaxConcurrency}

planReplicaSetRollout(o, sel) ==
  LET sum == [c \in Clusters |-> IF c \in sel THEN existingReplicaSetClusterSummary(o, c)
                                              ELSE "RolloutPending"]
  IN [sum    |-> [c \in Clusters |-> IF c \in TimedOut(sel, sum) THEN "TimedOut" ELSE sum[c]],
      window |-> GetRolloutCluster(sel, sum)]

\* Mutant: neither the ready count nor conflicts are looked at.
setReplicaSetAggregateConditions_FailedOnly(w) ==
  /\ \A c \in w.sel : w.sum[c] \notin {"Failed", "TimedOut"}
  /\ ~w.stale

\* Ready: as many children are ready as are desired (updating or succeeded), and
\* there is no failure, no conflict and no stale child.
setReplicaSetAggregateConditions(w) ==
  LET ready == {c \in w.sel : w.sum[c] = "Ready"} IN
  /\ Cardinality(ready) = Cardinality(w.window) + Cardinality(ready \ w.window)
  /\ \A c \in w.sel : w.sum[c] \notin {"Failed", "TimedOut", "Conflict", "ImmutableChildDrift"}
  /\ ~w.stale
--------------------------------------------------------------------------------
(* A pass over a live ReplicaSet *)

EndPass == worker' = Idle

\* Only this worker writes the status, as a merge patch from the cached one to the
\* new one: the condition list may be left out when the conditions are the same.
patchReplicaSetStatus(before, new) ==
  \E status \in {new} \cup IF before = new THEN {rs.status} ELSE {} :
    rs' = IF rs.st = "none" THEN rs ELSE [rs EXCEPT !.status = status]

ensureFinalizer ==
  /\ worker.pc = "idle"
  /\ rsCache.st = "live" /\ ~rsCache.fin /\ rsCache = rs
  /\ rs' = [rs EXCEPT !.fin = TRUE]
  /\ UNCHANGED <<rsCache, child, childCache, fleetVars, worker, changes>>

\* Mutant: every role of that name outside the selection.
Prunable_Unowned(w) == {c \in Clusters \ w.sel : w.kids[c].st # "none"}

\* Owned children outside the selection.
Prunable(w) == {c \in Clusters \ w.sel : replicaSetOwnsChild(w.copy.uid, w.kids[c])}

Report(w) ==
  patchReplicaSetStatus(w.copy.status,
    [ready   |-> setReplicaSetAggregateConditions(w),
     rolled  |-> \A c \in w.sel : w.sum[c] = "Ready",
     blocked |-> w.copy.status.blocked])

\* The start of the pass: placement, children, plan.  A placement that does not
\* resolve ends the pass before anything is applied or pruned; with nothing to
\* apply or prune the pass goes straight to the status.
reconcileReplicaSetNormal ==
  /\ worker.pc = "idle"
  /\ rsCache.st = "live" /\ rsCache.fin
  /\ LET plan == planReplicaSetRollout(rsCache, placement.clusters)
         pass == [pc |-> "apply", copy |-> rsCache, kids |-> childCache,
                  sel |-> placement.clusters, sum |-> plan.sum, window |-> plan.window,
                  todo |-> {c \in plan.window : plan.sum[c] = "RolloutPending"},
                  stale |-> FALSE]
         busy == pass.todo \cup Prunable(pass) # {}
     IN \/ /\ ~placement.ok
           /\ patchReplicaSetStatus(rsCache.status, [rsCache.status EXCEPT !.ready = FALSE])
           /\ UNCHANGED worker
        \/ placement.ok /\ busy /\ worker' = pass /\ UNCHANGED rs
        \/ placement.ok /\ ~busy /\ Report(pass) /\ UNCHANGED worker
  /\ UNCHANGED <<rsCache, child, childCache, fleetVars, changes>>

Visited(c, phase) ==
  worker' = [worker EXCEPT !.todo = @ \ {c}, !.sum = [@ EXCEPT ![c] = phase]]

\* Delete carries no precondition: it hits whatever has the name.
DeleteCall(c) ==
  child' = IF child[c].st = "live" THEN [child EXCEPT ![c].st = "deleting"] ELSE child

\* A patch that changes the spec starts a new generation.
Patched(k, tpl) ==
  [k EXCEPT !.spec = tpl, !.ready = IF k.ready \in {"yes", "old"} THEN "old" ELSE "no"]

\* One cluster of the window that has nothing, or a child to change: Create, Delete
\* of a child with another ServiceAccount, or Patch with the child's resourceVersion.
applyReplicaSetCluster ==
  /\ worker.pc = "apply" /\ worker.todo # {}
  /\ LET c == Min(worker.todo)
         k == worker.kids[c]
         o == worker.copy
     IN \/ /\ k.st = "none"
           /\ child' = IF child[c].st = "none"
                       THEN [child EXCEPT ![c] = [st |-> "live", owner |-> o.uid,
                                                  spec |-> o.tpl, ready |-> "no"]]
                       ELSE child
           /\ Visited(c, "ChildrenPending") /\ UNCHANGED changes
        \/ /\ k.st # "none" /\ k.spec = 0
           /\ IF k.st = "live" THEN DeleteCall(c) ELSE UNCHANGED child
           /\ Visited(c, "ImmutableChildDrift") /\ UNCHANGED changes
        \/ /\ k.st # "none" /\ k.spec # 0 /\ child[c] = k
           /\ child' = [child EXCEPT ![c] = Patched(k, o.tpl)]
           /\ Visited(c, "ChildrenPending") /\ UNCHANGED changes
        \/ /\ k.st # "none" /\ k.spec # 0 /\ child[c] # k
           /\ Visited(c, "Failed") /\ UNCHANGED <<child, changes>>
        \/ Change /\ Visited(c, "Failed") /\ UNCHANGED child
  /\ UNCHANGED <<rs, rsCache, childCache, fleetVars>>

\* On to the children outside the selection.
startPrune ==
  /\ worker.pc = "apply" /\ worker.todo = {} /\ Prunable(worker) # {}
  /\ worker' = [worker EXCEPT !.pc = "prune", !.todo = Prunable(worker)]
  /\ UNCHANGED <<rs, rsCache, child, childCache, fleetVars, changes>>

\* A child whose Delete fails is not counted as stale.
pruneReplicaSetChildren ==
  /\ worker.pc = "prune" /\ worker.todo # {}
  /\ LET c == Min(worker.todo) IN
     \/ /\ IF worker.kids[c].st = "live" THEN DeleteCall(c) ELSE UNCHANGED child
        /\ worker' = [worker EXCEPT !.todo = @ \ {c}, !.stale = TRUE]
        /\ UNCHANGED changes
     \/ /\ worker.kids[c].st = "live" /\ Change
        /\ worker' = [worker EXCEPT !.todo = @ \ {c}]
        /\ UNCHANGED child
  /\ UNCHANGED <<rs, rsCache, childCache, fleetVars>>

patchStatus ==
  /\ worker.pc \in {"apply", "prune"} /\ worker.todo = {}
  /\ worker.pc = "apply" => Prunable(worker) = {}
  /\ Report(worker)
  /\ EndPass
  /\ UNCHANGED <<rsCache, child, childCache, fleetVars, changes>>
--------------------------------------------------------------------------------
(* A pass over a ReplicaSet under deletion *)

listOwnedReplicaSetChildren(uid) == {c \in Clusters : replicaSetOwnsChild(uid, childCache[c])}

\* Mutant: waits for every role of that name.
reconcileReplicaSetDelete_WaitsForForeign ==
  /\ worker.pc = "idle"
  /\ rsCache.st = "deleting" /\ rsCache.fin
  /\ LET owned == {c \in Clusters : childCache[c].st # "none"} IN
     worker' = [Idle EXCEPT !.pc = IF owned = {} THEN "final" ELSE "delete",
                            !.copy = rsCache, !.kids = childCache,
                            !.todo = {c \in owned : childCache[c].st = "live"
                                                   /\ childCache[c].owner = rsCache.uid}]
  /\ UNCHANGED <<rs, rsCache, child, childCache, fleetVars, changes>>

reconcileReplicaSetDelete ==
  /\ worker.pc = "idle"
  /\ rsCache.st = "deleting" /\ rsCache.fin
  /\ LET owned == listOwnedReplicaSetChildren(rsCache.uid) IN
     worker' = [Idle EXCEPT !.pc = IF owned = {} THEN "final" ELSE "delete",
                            !.copy = rsCache, !.kids = childCache,
                            !.todo = {c \in owned : childCache[c].st = "live"}]
  /\ UNCHANGED <<rs, rsCache, child, childCache, fleetVars, changes>>

\* The children are deleted one by one; an error, like children that remain, is
\* reported as CleanupBlocked.
deleteReplicaSetChildren ==
  /\ worker.pc = "delete"
  /\ \/ /\ worker.todo # {}
        /\ DeleteCall(Min(worker.todo))
        /\ worker' = [worker EXCEPT !.todo = @ \ {Min(worker.todo)}]
        /\ UNCHANGED <<rs, changes>>
     \/ /\ \/ worker.todo = {} /\ UNCHANGED changes
           \/ worker.todo # {} /\ Change
        /\ patchReplicaSetStatus(worker.copy.status,
             [worker.copy.status EXCEPT !.ready = FALSE, !.blocked = TRUE])
        /\ EndPass
        /\ UNCHANGED child
  /\ UNCHANGED <<rsCache, childCache, fleetVars>>

\* No children: CleanupBlocked is cleared.  The patch goes by name, and the response,
\* whatever ReplicaSet has the name now, replaces the copy.
clearCleanupBlocked ==
  /\ worker.pc = "final" /\ worker.copy.status.blocked
  /\ patchReplicaSetStatus(worker.copy.status, [worker.copy.status EXCEPT !.blocked = FALSE])
  /\ IF rs.st = "none" THEN EndPass ELSE worker' = [worker EXCEPT !.copy = rs']
  /\ UNCHANGED <<rsCache, child, childCache, fleetVars, changes>>

\* The finalizer patch carries the resourceVersion of the copy; with the finalizer
\* goes a ReplicaSet that is being deleted.
removeFinalizer ==
  /\ worker.pc = "final" /\ ~worker.copy.status.blocked
  /\ rs' = IF rs # worker.copy \/ ~rs.fin THEN rs
           ELSE IF rs.st = "deleting" THEN [NoReplicaSet EXCEPT !.uid = rs.uid]
           ELSE [rs EXCEPT !.fin = FALSE]
  /\ EndPass
  /\ UNCHANGED <<rsCache, child, childCache, fleetVars, changes>>

\* An API error or a crash ends the pass where it is.
abortPass ==
  /\ worker.pc # "idle"
  /\ Change
  /\ EndPass
  /\ UNCHANGED <<rs, rsCache, child, childCache, fleetVars>>
--------------------------------------------------------------------------------
(* Users, the placement, the role controllers of the children, the caches *)

CreateReplicaSet ==
  /\ rs.st = "none" /\ rs.uid < MaxUID
  /\ rs' = [NoReplicaSet EXCEPT !.uid = rs.uid + 1, !.st = "live"]
  /\ UNCHANGED <<rsCache, child, childCache, fleetVars, worker, changes>>

DeleteReplicaSet ==
  /\ rs.st = "live"
  /\ rs' = IF rs.fin THEN [rs EXCEPT !.st = "deleting"] ELSE [NoReplicaSet EXCEPT !.uid = rs.uid]
  /\ UNCHANGED <<rsCache, child, childCache, fleetVars, worker, changes>>

EditTemplate ==
  /\ rs.st = "live" /\ Change
  /\ rs' = [rs EXCEPT !.tpl = @ + 1]
  /\ UNCHANGED <<rsCache, child, childCache, fleetVars, worker>>

\* The placement selects other clusters, or no longer resolves.
ChangePlacement ==
  /\ \/ Change /\ placement' \in [ok : {TRUE}, clusters : SUBSET Clusters] \ {placement}
     \/ Change /\ placement.ok /\ placement' = [placement EXCEPT !.ok = FALSE]
     \/ ~placement.ok /\ placement' = [placement EXCEPT !.ok = TRUE] /\ UNCHANGED changes
  /\ UNCHANGED <<rs, rsCache, child, childCache, namespaces, late, worker>>

NamespaceAppears ==
  /\ namespaces # Clusters
  /\ namespaces' = Clusters
  /\ UNCHANGED <<rs, rsCache, child, childCache, placement, late, worker, changes>>

\* Someone deletes a child, or replaces a copy of it that binds another ServiceAccount.
TamperChild(c) ==
  /\ Change /\ rs.st = "live"
  /\ \/ child[c].st = "live" /\ child[c].owner \in UIDs
        /\ child' = [child EXCEPT ![c].st = "deleting"]
     \/ child[c].st = "none" /\ c \in namespaces
        /\ child' = [child EXCEPT ![c] = [st |-> "live", owner |-> rs.uid, spec |-> 0,
                                          ready |-> "no"]]
  /\ UNCHANGED <<rs, rsCache, childCache, fleetVars, worker>>

\* The role controller: Ready, no longer Ready, finalized.
RoleReady(c) ==
  /\ child[c].st = "live" /\ child[c].owner \in UIDs /\ child[c].ready # "yes"
  /\ child' = [child EXCEPT ![c].ready = "yes"]
  /\ late' = late \ {c}
  /\ UNCHANGED <<rs, rsCache, childCache, placement, namespaces, worker, changes>>

RoleUnready(c) ==
  /\ Change
  /\ child[c].st = "live" /\ child[c].ready = "yes"
  /\ child' = [child EXCEPT ![c].ready = "lost"]
  /\ UNCHANGED <<rs, rsCache, childCache, fleetVars, worker>>

RoleFinalized(c) ==
  /\ child[c].st = "deleting"
  /\ child' = [child EXCEPT ![c] = NoChild]
  /\ late' = late \ {c}
  /\ UNCHANGED <<rs, rsCache, childCache, placement, namespaces, worker, changes>>

\* The progress deadline of the rollout strategy passes.
DeadlinePasses(c) ==
  /\ Change
  /\ child[c].st = "live" /\ child[c].ready \in {"no", "old", "lost"} /\ c \notin late
  /\ late' = late \cup {c}
  /\ UNCHANGED <<rs, rsCache, child, childCache, placement, namespaces, worker>>

SyncReplicaSet ==
  /\ rsCache # rs
  /\ rsCache' = rs
  /\ UNCHANGED <<rs, child, childCache, fleetVars, worker, changes>>

SyncChild(c) ==
  /\ childCache[c] # child[c]
  /\ childCache' = [childCache EXCEPT ![c] = child[c]]
  /\ UNCHANGED <<rs, rsCache, child, fleetVars, worker, changes>>
--------------------------------------------------------------------------------
Worker ==
  \/ ensureFinalizer \/ reconcileReplicaSetNormal \/ applyReplicaSetCluster \/ startPrune
  \/ pruneReplicaSetChildren \/ patchStatus
  \/ reconcileReplicaSetDelete \/ deleteReplicaSetChildren \/ clearCleanupBlocked
  \/ removeFinalizer

Users == CreateReplicaSet \/ DeleteReplicaSet \/ EditTemplate \/ ChangePlacement

Environment(c) ==
  \/ TamperChild(c) \/ RoleReady(c) \/ RoleUnready(c) \/ RoleFinalized(c)
  \/ DeadlinePasses(c) \/ SyncChild(c)

Next ==
  \/ Worker \/ abortPass \/ Users \/ NamespaceAppears \/ SyncReplicaSet
  \/ \E c \in Clusters : Environment(c)

Spec == Init /\ [][Next]_vars

Fairness ==
  /\ WF_vars(Worker) /\ WF_vars(SyncReplicaSet)
  /\ \A c \in Clusters : WF_vars(RoleReady(c)) /\ WF_vars(RoleFinalized(c)) /\ WF_vars(SyncChild(c))

FairSpec == Spec /\ Fairness
--------------------------------------------------------------------------------
(* Properties *)

\* Clusters that got the template of the pass but have not been ready with it.  A
\* child that was, and that a user deleted and the operator created again, may
\* still be seen as the old one.
InProgress(c) ==
  /\ child[c].st = "live" /\ child[c].owner = worker.copy.uid
  /\ child[c].spec = worker.copy.tpl
  /\ child[c].ready \in {"no", "old"}
  /\ c \notin late
  /\ ~(worker.kids[c].spec = worker.copy.tpl /\ worker.kids[c].ready = "yes")

\* The rollout window holds although the plan is made from a cache: a pass gives a
\* cluster its template only while fewer than MaxConcurrency of the selected clusters
\* before it have that template without ever having been ready with it.
WindowRespected ==
  [][\A c \in worker.sel :
       /\ child[c].spec # worker.copy.tpl
       /\ child'[c].spec = worker.copy.tpl /\ child'[c].owner = worker.copy.uid
       => Cardinality({d \in worker.sel : d < c /\ InProgress(d)}) < MaxConcurrency]_vars

\* A role of someone else, or of another ReplicaSet of the same name than the one the
\* pass is about, is not patched, deleted or taken over by it, although Delete goes by
\* name and the ownership check reads a cache (fleet-bindings.md: a same-name child
\* without the expected ownership "is not patched or deleted").  A copy with the
\* ReplicaSet's stamps that a user plants during the pass is not protected.
OthersUntouched ==
  [][\A c \in Clusters :
       /\ child[c].st = "live" /\ child[c].owner # worker.copy.uid /\ changes' = changes
       /\ child[c].owner = Foreign \/ child[c].spec # 0
       => child'[c] = [child[c] EXCEPT !.ready = child'[c].ready]]_vars

Obstructed(c) == c \notin namespaces \/ child[c].owner \notin {0, rs.uid}

Served(c) ==
  child[c].st = "live" /\ child[c].owner = rs.uid /\ child[c].spec = rs.tpl /\ child[c].ready = "yes"

\* A ReplicaSet that stays live with a resolved placement and no obstacle ends up
\* with a ready child of its template in each selected cluster and none elsewhere,
\* and says so.
FleetConverges ==
  <>[](rs.st = "live" /\ placement.ok /\ \A c \in placement.clusters : ~Obstructed(c))
    => <>[](/\ \A c \in Clusters : IF c \in placement.clusters THEN Served(c)
                                   ELSE child[c].owner # rs.uid
            /\ rs.status.ready /\ rs.status.rolled)

\* ... and one with an obstacle that stays says that it is not ready.
ObstacleReported ==
  <>[](rs.st = "live" /\ \E c \in placement.clusters : Obstructed(c))
    => <>[](~rs.status.ready)

\* Finalization ends.
DeletionDrains == rs.st = "deleting" ~> rs.st = "none"
================================================================================
