------------------------- MODULE RoleReplicaSetProofs --------------------------
(***************************************************************************)
(* Proofs about the ReplicaSet controller, for any fleet, rollout strategy *)
(* and number of edits, errors and ReplicaSets of the name: the rollout    *)
(* window holds although the plan is made from a cache, roles of others    *)
(* are not touched, and the finalizer of a live ReplicaSet stays.          *)
(***************************************************************************)
EXTENDS RoleReplicaSet, TLAPS, FiniteSetTheorems, WellFoundedInduction

----------------------------------------------------------------------------
(* The inductive invariant.                                                *)

Applying == {"apply", "prune"}

Deleting == {"delete", "final"}

\* The cache shows the present ReplicaSet or an earlier one, a pass is about one of
\* those, and one whose deletion has been seen is not live again.
UIDInv ==
  /\ rs.tpl <= changes + 1 /\ (rs.st # "none" => rs.uid \in UIDs)
  /\ rsCache.uid <= rs.uid
  /\ rsCache.uid = rs.uid /\ rsCache.st = "deleting" => rs.st # "live"
  /\ worker.pc # "idle" => worker.copy.uid <= rs.uid

\* Only the controller sets the finalizer, on the object that the cache shows, and only
\* the controller removes it: while a pass applies, its ReplicaSet stays, and while one
\* finalizes no other can have been given the finalizer.
FinalizerInv ==
  /\ rs.fin => rs.st # "none" /\ rsCache.uid = rs.uid
  /\ rsCache.st = "live" /\ rsCache.fin => rs.uid = rsCache.uid /\ rs.fin
  /\ worker.pc \in Deleting /\ rs.fin => rs.st = "deleting" /\ rsCache.st = "deleting"
  /\ worker.pc \in Applying => rs.uid = worker.copy.uid /\ rs.fin

\* A child has an owner.
Whole(k) == IF k.st = "none" THEN k = NoChild ELSE k.owner # 0

\* The role that someone else has under the child's name.
Strange == [NoChild EXCEPT !.st = "live", !.owner = Foreign]

\* old is a copy of what was child[c]: a role of someone else stays as it is, and of the
\* ReplicaSets of the name a child has the same or a later one for its owner.
Earlier(c, old) ==
  /\ Whole(old)
  /\ child[c].owner = Foreign <=> old.owner = Foreign
  /\ child[c].owner \in UIDs => old.owner <= child[c].owner
  /\ old.owner # Foreign => old.owner <= rs.uid

ChildInv ==
  \A c \in Clusters :
    /\ Whole(child[c])
    /\ child[c].owner = Foreign => child[c] = Strange
    /\ child[c].owner # Foreign => child[c].owner <= rs.uid
    /\ Earlier(c, childCache[c])
    /\ worker.pc # "idle" => Earlier(c, worker.kids[c])

\* Children of a later ReplicaSet than the one that the cache shows, or a pass is about,
\* are those that someone planted.
PlantedInv ==
  \A c \in Clusters : child[c].owner # Foreign /\ child[c].spec # 0 =>
    /\ child[c].owner <= rsCache.uid
    /\ worker.pc # "idle" => child[c].owner <= worker.copy.uid

\* What the loops visit: clusters of the plan without a child, and children of the
\* ReplicaSet of the pass.
TodoInv ==
  /\ worker.pc \in {"idle", "final"} => worker.todo = {}
  /\ worker.pc \notin Applying => worker.sel = {}
  /\ \A c \in worker.todo :
       IF worker.pc = "apply"
       THEN /\ c \in worker.sel /\ worker.sum[c] = "RolloutPending"
            /\ worker.kids[c].st = "none" \/ worker.kids[c].owner = worker.copy.uid
       ELSE worker.kids[c].st # "none" /\ worker.kids[c].owner = worker.copy.uid

\* The plan does not count a cluster that the pass has seen ready with its template, or
\* that is late.
Settled(d) ==
  \/ worker.kids[d].spec = worker.copy.tpl /\ worker.kids[d].ready = "yes"
  \/ worker.sum[d] = "TimedOut"

WindowInv ==
  /\ \A c \in worker.todo : worker.pc = "apply" =>
       Cardinality({d \in worker.sel : d < c /\ ~Settled(d)}) < MaxConcurrency
  /\ \A d \in worker.sel : worker.sum[d] = "TimedOut" =>
       \/ d \in late \/ child[d].st # "live" \/ child[d].ready \in {"yes", "lost"}
       \/ child[d].spec # worker.copy.tpl

IInv == TypeOK /\ UIDInv /\ FinalizerInv /\ ChildInv /\ PlantedInv /\ TodoInv /\ WindowInv

----------------------------------------------------------------------------
(* The constants, and the plan.                                            *)

\* The numbers and records the model is made of.
LEMMA Constants ==
  /\ Clusters \subseteq Nat /\ UIDs \subseteq Nat /\ Templates \subseteq Nat
  /\ Foreign \in Nat /\ Foreign \notin 0 .. MaxUID /\ 0 .. MaxUID \subseteq 0 .. Foreign
  /\ UIDs \cup {0} = 0 .. MaxUID /\ 0 \notin UIDs /\ 0 .. Foreign \subseteq UIDs \cup {0, Foreign}
  /\ 0 \notin Templates /\ 1 \in Templates
  /\ NoStatus \in Status /\ NoReplicaSet \in ReplicaSet
  /\ NoChild \in Child /\ Strange \in Child
  /\ Idle \in Pass
<1>1. /\ Clusters \subseteq Nat /\ UIDs \subseteq Nat /\ Templates \subseteq Nat
      /\ Foreign \in Nat /\ Foreign \notin 0 .. MaxUID /\ 0 .. MaxUID \subseteq 0 .. Foreign
      /\ UIDs \cup {0} = 0 .. MaxUID /\ 0 \notin UIDs
      /\ 0 .. Foreign \subseteq UIDs \cup {0, Foreign}
      /\ 0 \notin Templates /\ 1 \in Templates /\ 0 \in 0 .. MaxUID /\ Foreign \in 0 .. Foreign
  BY FleetAssumption DEF Clusters, UIDs, Templates, Foreign
<1>2. NoStatus \in Status
  BY DEF NoStatus, Status
<1>3. NoReplicaSet \in ReplicaSet
  BY <1>1, <1>2 DEF NoReplicaSet, ReplicaSet
<1>4. NoChild \in Child /\ Strange \in Child
  BY <1>1, Zenon DEF NoChild, Strange, Child
<1>5. Idle \in Pass
  BY <1>3, <1>4 DEF Idle, Pass, Phases
<1>. QED
  BY <1>1, <1>2, <1>3, <1>4, <1>5

\* The loops take the clusters in the order of their names.
LEMMA MinOf ==
  ASSUME NEW S \in SUBSET Clusters, S # {}
  PROVE  Min(S) \in S /\ \A x \in S : Min(S) <= x
<1>1. Clusters \subseteq Nat
  BY Constants
<1>2. PICK x \in S : \A y \in S : <<y, x>> \notin OpToRel(<, Nat)
  BY <1>1, NatLessThanWellFounded, WFMin, Zenon
<1>3. ASSUME NEW y \in S, ~(x <= y) PROVE FALSE
  <2>1. y \in Nat /\ x \in Nat /\ y < x
    BY <1>1, <1>3
  <2>2. <<y, x>> \in {ss \in Nat \X Nat : ss[1] < ss[2]}
    BY <2>1
  <2>3. <<y, x>> \in OpToRel(<, Nat)
    BY <2>2 DEF OpToRel
  <2>. QED
    BY <1>2, <2>3, Zenon
<1>. QED
  BY <1>3 DEF Min

\* Sets of clusters are finite, and a part has no more of them than the whole.
LEMMA PartOf ==
  ASSUME NEW S \in SUBSET Clusters, NEW T \in SUBSET S
  PROVE  Cardinality(T) \in Nat /\ Cardinality(S) \in Nat /\ Cardinality(T) <= Cardinality(S)
<1>1. IsFiniteSet(Clusters)
  BY FleetAssumption, FS_Interval DEF Clusters
<1>2. IsFiniteSet(S)
  BY <1>1, FS_Subset
<1>. QED
  BY <1>2, FS_Subset, FS_CardinalityType

\* What the plan says of a cluster: it has no child or one of the ReplicaSet when there is
\* something to roll out, and it is ready only with the template of the ReplicaSet.
LEMMA SummaryEffect ==
  ASSUME TypeOK, NEW c \in Clusters
  PROVE  LET phase == existingReplicaSetClusterSummary(rsCache, c)
         IN /\ phase \in Phases /\ phase # "TimedOut"
            /\ phase = "RolloutPending"
               => childCache[c].st = "none" \/ childCache[c].owner = rsCache.uid
            /\ phase = "Ready" => childCache[c].spec = rsCache.tpl /\ childCache[c].ready = "yes"
BY DEF existingReplicaSetClusterSummary, replicaSetOwnsChild, childReady, Phases

\* The plan: clusters that are to be rolled out have no more unsettled ones before them
\* than the window allows.  A cluster that the failures hold back has no cluster behind
\* it that is rolled out.
LEMMA PlanEffect ==
  ASSUME TypeOK, NEW sel \in SUBSET Clusters
  PROVE  LET plan == planReplicaSetRollout(rsCache, sel)
         IN /\ plan.sum \in [Clusters -> Phases] /\ plan.window \subseteq sel
            /\ \A c \in sel :
                 /\ plan.sum[c] = "TimedOut" => c \in late
                 /\ plan.sum[c] = "RolloutPending"
                    => childCache[c].st = "none" \/ childCache[c].owner = rsCache.uid
            /\ \A c \in plan.window : plan.sum[c] = "RolloutPending" =>
                 Cardinality({d \in sel : /\ d < c
                                          /\ ~(childCache[d].spec = rsCache.tpl
                                               /\ childCache[d].ready = "yes")
                                          /\ plan.sum[d] # "TimedOut"}) < MaxConcurrency
<1>. DEFINE sum0 == [c \in Clusters |-> IF c \in sel THEN existingReplicaSetClusterSummary(rsCache, c)
                                                    ELSE "RolloutPending"]
            timeout == TimedOut(sel, sum0)
            sum == [c \in Clusters |-> IF c \in timeout THEN "TimedOut" ELSE sum0[c]]
            failed(c) == {d \in sel : d < c /\ (d \in timeout \/ sum0[d] \in {"Conflict", "Failed"})}
            eligible == {c \in sel \ timeout :
                           /\ sum0[c] # "Ready"
                           /\ sum0[c] = "RolloutPending" => Cardinality(failed(c)) <= MaxFailures}
            window == {c \in eligible : Cardinality({d \in eligible : d < c}) < MaxConcurrency}
<1>1. /\ planReplicaSetRollout(rsCache, sel).sum = sum
      /\ planReplicaSetRollout(rsCache, sel).window = window
  BY DEF planReplicaSetRollout, GetRolloutCluster
<1>2. timeout \subseteq sel \cap late
  BY DEF TimedOut
<1>3. \A c \in Clusters : sum0[c] \in Phases /\ sum0[c] # "TimedOut"
  BY SummaryEffect DEF Phases
<1>4. sum \in [Clusters -> Phases]
  BY <1>3 DEF Phases
<1>5. ASSUME NEW c \in sel
      PROVE  /\ sum[c] = "TimedOut" <=> c \in timeout
             /\ sum[c] = "RolloutPending"
                => childCache[c].st = "none" \/ childCache[c].owner = rsCache.uid
  <2>1. c \in Clusters
    OBVIOUS
  <2>. QED
    BY <1>3, <2>1, SummaryEffect
<1>6. ASSUME NEW c \in window, sum[c] = "RolloutPending"
      PROVE  Cardinality({d \in sel : /\ d < c
                                      /\ ~(childCache[d].spec = rsCache.tpl
                                           /\ childCache[d].ready = "yes")
                                      /\ sum[d] # "TimedOut"}) < MaxConcurrency
  <2>. DEFINE before == {d \in sel : /\ d < c
                                     /\ ~(childCache[d].spec = rsCache.tpl
                                          /\ childCache[d].ready = "yes")
                                     /\ sum[d] # "TimedOut"}
  <2>1. /\ c \in eligible /\ c \in sel /\ c \in Clusters /\ c \notin timeout
        /\ Cardinality({d \in eligible : d < c}) < MaxConcurrency
    OBVIOUS
  <2>2. sum0[c] = "RolloutPending" /\ Cardinality(failed(c)) <= MaxFailures
    BY <1>6, <2>1
  <2>3. ASSUME NEW d \in before PROVE d \in eligible
    <3>1. d \in sel /\ d < c /\ d \notin timeout
      BY <1>5
    <3>2. sum0[d] # "Ready"
      BY <3>1, SummaryEffect
    <3>3. Cardinality(failed(d)) <= MaxFailures
      <4>1. failed(d) \subseteq failed(c)
        <5>1. c \in Nat /\ d \in Nat /\ \A e \in sel : e \in Nat /\ (e < d => e < c)
          BY <2>1, <3>1, Constants
        <5>. HIDE DEF timeout, sum0
        <5>. QED
          BY <5>1
      <4>2. failed(c) \in SUBSET Clusters
        OBVIOUS
      <4>. HIDE DEF failed
      <4>3. Cardinality(failed(d)) \in Nat /\ Cardinality(failed(c)) \in Nat
            /\ Cardinality(failed(d)) <= Cardinality(failed(c))
        BY <4>1, <4>2, PartOf
      <4>. QED
        BY <2>2, <4>3, FleetAssumption
    <3>. QED
      BY <3>1, <3>2, <3>3
  <2>4. before \subseteq {d \in eligible : d < c} /\ {d \in eligible : d < c} \in SUBSET Clusters
    BY <2>3, Zenon
  <2>. HIDE DEF before
  <2>5. /\ Cardinality(before) \in Nat /\ Cardinality({d \in eligible : d < c}) \in Nat
        /\ Cardinality(before) <= Cardinality({d \in eligible : d < c})
    BY <2>4, PartOf, Zenon
  <2>6. Cardinality(before) < MaxConcurrency
    BY <2>1, <2>5, FleetAssumption
  <2>. QED
    BY <2>6 DEF before
<1>. HIDE DEF sum0, timeout, sum, eligible, window
<1>7. window \subseteq sel
  BY DEF window, eligible
<1>. QED
  BY <1>1, <1>2, <1>4, <1>5, <1>6, <1>7

----------------------------------------------------------------------------
(* What a step may do to the ReplicaSet.                                   *)

\* The status may have changed, nothing else.
RsKept == rs'.uid = rs.uid /\ rs'.st = rs.st /\ rs'.fin = rs.fin /\ rs'.tpl = rs.tpl

LEMMA PatchEffect ==
  ASSUME rs \in ReplicaSet, NEW before, NEW new \in Status, patchReplicaSetStatus(before, new)
  PROVE  rs' \in ReplicaSet /\ RsKept
<1>1. PICK status \in {new} \cup {rs.status} :
        rs' = IF rs.st = "none" THEN rs ELSE [rs EXCEPT !.status = status]
  BY DEF patchReplicaSetStatus
<1>2. status \in Status
  BY <1>1 DEF ReplicaSet
<1>. QED
  BY <1>1, <1>2 DEF ReplicaSet, RsKept

LEMMA ReportEffect ==
  ASSUME rs \in ReplicaSet, NEW w, w.copy \in ReplicaSet, Report(w)
  PROVE  rs' \in ReplicaSet /\ RsKept
<1>. DEFINE ready  == setReplicaSetAggregateConditions(w)
            rolled == \A c \in w.sel : w.sum[c] = "Ready"
            new    == [ready |-> ready, rolled |-> rolled, blocked |-> w.copy.status.blocked]
<1>1. ready \in BOOLEAN /\ rolled \in BOOLEAN
  BY DEF setReplicaSetAggregateConditions
<1>2. w.copy.status.blocked \in BOOLEAN
  BY DEF ReplicaSet, Status
<1>3. patchReplicaSetStatus(w.copy.status, new)
  BY DEF Report
<1>. HIDE DEF ready, rolled
<1>4. new \in Status
  BY <1>1, <1>2 DEF Status
<1>. QED
  BY <1>3, <1>4, PatchEffect

\* Every step patches the status at most, or is one of those that follow.
LEMMA RsStep ==
  ASSUME IInv, Next
  PROVE  /\ rs' \in ReplicaSet /\ rsCache' \in ReplicaSet
         /\ \/ RsKept /\ rsCache' = rsCache
            \/ SyncReplicaSet
            \/ ensureFinalizer
            \/ removeFinalizer /\ rs' # rs
            \/ CreateReplicaSet \/ DeleteReplicaSet \/ EditTemplate
<1>1. /\ rs \in ReplicaSet /\ rsCache \in ReplicaSet /\ worker.copy \in ReplicaSet
      /\ rs.uid \in Nat /\ rs.tpl \in Nat /\ changes \in 0 .. MaxChanges /\ rs.tpl <= changes + 1
      /\ rs.uid \in 0 .. MaxUID
  <2>1. rs \in ReplicaSet /\ rsCache \in ReplicaSet /\ worker.copy \in ReplicaSet
    BY DEF IInv, TypeOK, Pass
  <2>2. changes \in 0 .. MaxChanges /\ rs.tpl <= changes + 1
    BY DEF IInv, TypeOK, UIDInv
  <2>3. rs.uid \in 0 .. MaxUID /\ rs.uid \in Nat /\ rs.tpl \in Nat
    BY <2>1, FleetAssumption DEF ReplicaSet, Templates
  <2>. QED
    BY <2>1, <2>2, <2>3
<1>2. CASE UNCHANGED <<rs, rsCache>>
  BY <1>1, <1>2 DEF RsKept
<1>3. CASE reconcileReplicaSetNormal
  <2>. DEFINE plan == planReplicaSetRollout(rsCache, placement.clusters)
              pass == [pc |-> "apply", copy |-> rsCache, kids |-> childCache,
                       sel |-> placement.clusters, sum |-> plan.sum, window |-> plan.window,
                       todo |-> {c \in plan.window : plan.sum[c] = "RolloutPending"},
                       stale |-> FALSE]
  <2>1. /\ \/ patchReplicaSetStatus(rsCache.status, [rsCache.status EXCEPT !.ready = FALSE])
           \/ UNCHANGED rs
           \/ Report(pass)
        /\ rsCache' = rsCache
    BY <1>3 DEF reconcileReplicaSetNormal
  <2>2. [rsCache.status EXCEPT !.ready = FALSE] \in Status
    BY <1>1, Zenon DEF ReplicaSet, Status
  <2>3. pass.copy \in ReplicaSet
    BY <1>1
  <2>. HIDE DEF pass
  <2>4. RsKept /\ rs' \in ReplicaSet
    BY <1>1, <1>2, <2>1, <2>2, <2>3, PatchEffect, ReportEffect DEF RsKept
  <2>. QED
    BY <1>1, <2>1, <2>4
<1>4. CASE patchStatus
  BY <1>1, <1>4, ReportEffect DEF patchStatus
<1>5. CASE deleteReplicaSetChildren \/ clearCleanupBlocked
  <2>1. /\ [worker.copy.status EXCEPT !.ready = FALSE, !.blocked = TRUE] \in Status
        /\ [worker.copy.status EXCEPT !.blocked = FALSE] \in Status
    BY <1>1, Zenon DEF ReplicaSet, Status
  <2>2. rsCache' = rsCache /\ (rs' = rs => rs' \in ReplicaSet /\ RsKept)
    BY <1>1, <1>5 DEF deleteReplicaSetChildren, clearCleanupBlocked, RsKept
  <2>3. \/ patchReplicaSetStatus(worker.copy.status,
             [worker.copy.status EXCEPT !.ready = FALSE, !.blocked = TRUE])
        \/ patchReplicaSetStatus(worker.copy.status,
             [worker.copy.status EXCEPT !.blocked = FALSE])
        \/ rs' = rs
    BY <1>5 DEF deleteReplicaSetChildren, clearCleanupBlocked
  <2>. QED
    BY <1>1, <2>1, <2>2, <2>3, PatchEffect
<1>6. CASE SyncReplicaSet
  BY <1>1, <1>6 DEF SyncReplicaSet
<1>7. [NoReplicaSet EXCEPT !.uid = rs.uid] \in ReplicaSet
  BY <1>1, Constants DEF ReplicaSet
<1>8. CASE ensureFinalizer \/ removeFinalizer \/ DeleteReplicaSet
  <2>1. /\ \/ rs' = [rs EXCEPT !.fin = TRUE] \/ rs' = [rs EXCEPT !.fin = FALSE]
           \/ rs' = [rs EXCEPT !.st = "deleting"] \/ rs' = [NoReplicaSet EXCEPT !.uid = rs.uid]
           \/ rs' = rs
        /\ rsCache' = rsCache
    BY <1>8 DEF ensureFinalizer, removeFinalizer, DeleteReplicaSet
  <2>2. rs' \in ReplicaSet
    BY <1>1, <1>7, <2>1, Zenon DEF ReplicaSet
  <2>. QED
    BY <1>1, <1>8, <2>1, <2>2 DEF RsKept
<1>9. CASE CreateReplicaSet
  <2>1. rs.uid + 1 \in 0 .. MaxUID
    BY <1>1, <1>9, FleetAssumption DEF CreateReplicaSet
  <2>. QED
    BY <1>1, <1>9, <2>1, Constants, Zenon DEF CreateReplicaSet, ReplicaSet
<1>10. CASE EditTemplate
  <2>1. rs.tpl + 1 \in Templates
    BY <1>1, <1>10, FleetAssumption DEF EditTemplate, Change, Templates
  <2>. QED
    BY <1>1, <1>10, <2>1 DEF EditTemplate, ReplicaSet
<1>11. ASSUME NEW c \in Clusters, Environment(c) PROVE UNCHANGED <<rs, rsCache>>
  BY <1>11 DEF Environment, TamperChild, RoleReady, RoleUnready, RoleFinalized, DeadlinePasses,
               SyncChild
<1>. QED
  BY <1>2, <1>3, <1>4, <1>5, <1>6, <1>8, <1>9, <1>10, <1>11, Zenon
     DEF Next, Worker, Users, applyReplicaSetCluster, startPrune, pruneReplicaSetChildren,
         reconcileReplicaSetDelete, abortPass, ChangePlacement, NamespaceAppears

----------------------------------------------------------------------------
(* What a step may do to a child.                                          *)

\* Every change of the role in namespace c: it is deleted, it is finalized, the pass
\* creates it, someone plants it, the pass patches it, or it becomes ready or unready.
ChildStep(c) ==
  \/ child'[c] = child[c]
  \/ /\ child[c].owner # Foreign
     /\ \/ child[c].st = "live" /\ child'[c] = [child[c] EXCEPT !.st = "deleting"]
        \/ child[c].st = "deleting" /\ child'[c] = NoChild
        \/ /\ worker.pc = "apply" /\ c \in worker.todo /\ c = Min(worker.todo)
           /\ \/ /\ child[c].st = "none"
                 /\ child'[c] = [st |-> "live", owner |-> worker.copy.uid,
                                 spec |-> worker.copy.tpl, ready |-> "no"]
              \/ /\ child[c].st # "none" /\ child[c].spec # 0
                 /\ child[c].owner = worker.copy.uid
                 /\ child'[c] = Patched(child[c], worker.copy.tpl)
        \/ /\ child[c].st = "none" /\ rs.st = "live"
           /\ child'[c] = [st |-> "live", owner |-> rs.uid, spec |-> 0, ready |-> "no"]
        \/ child[c].st = "live" /\ child'[c] = [child[c] EXCEPT !.ready = "yes"]
        \/ /\ child[c].st = "live" /\ child[c].ready = "yes"
           /\ child'[c] = [child[c] EXCEPT !.ready = "lost"]

\* What a loop visits belongs to no one else, on the server either.
LEMMA VisitedIsOurs ==
  ASSUME IInv, NEW c \in worker.todo, worker.kids[c].st # "none"
  PROVE  child[c].owner # Foreign
<1>1. c \in Clusters /\ worker.pc # "idle" /\ worker.kids[c].owner = worker.copy.uid
  BY DEF IInv, TypeOK, Pass, TodoInv
<1>2. worker.copy.uid # Foreign
  BY Constants DEF IInv, TypeOK, Pass, ReplicaSet
<1>. QED
  BY <1>1, <1>2 DEF IInv, ChildInv, Earlier

LEMMA DeleteEffect ==
  ASSUME IInv, NEW c \in Clusters, DeleteCall(c) \/ UNCHANGED child,
         child[c].owner # Foreign
  PROVE  \A d \in Clusters : ChildStep(d)
BY DEF IInv, TypeOK, DeleteCall, ChildStep

LEMMA ApplyEffect ==
  ASSUME IInv, applyReplicaSetCluster
  PROVE  \A d \in Clusters : ChildStep(d)
<1>. DEFINE c == Min(worker.todo)
            k == worker.kids[c]
            o == worker.copy
<1>1. c \in worker.todo /\ c \in Clusters
  BY MinOf DEF IInv, TypeOK, Pass, applyReplicaSetCluster
<1>2. child \in [Clusters -> Child] /\ worker.pc = "apply"
  BY DEF IInv, TypeOK, applyReplicaSetCluster
<1>3. CASE child' = child
  BY <1>3 DEF ChildStep
<1>4. CASE /\ child[c].st = "none"
           /\ child' = [child EXCEPT ![c] = [st |-> "live", owner |-> o.uid, spec |-> o.tpl,
                                             ready |-> "no"]]
  <2>1. child[c].owner # Foreign
    <3>1. NoChild.owner # Foreign
      BY Constants DEF NoChild
    <3>. QED
      BY <1>1, <1>4, <3>1 DEF IInv, ChildInv, Whole
  <2>. QED
    BY <1>1, <1>2, <1>4, <2>1 DEF ChildStep
<1>5. CASE k.st # "none" /\ (DeleteCall(c) \/ UNCHANGED child)
  <2>1. child[c].owner # Foreign
    BY <1>1, <1>5, VisitedIsOurs
  <2>. QED
    BY <1>1, <1>5, <2>1, DeleteEffect
<1>6. CASE /\ k.st # "none" /\ k.spec # 0 /\ child[c] = k
           /\ child' = [child EXCEPT ![c] = Patched(k, o.tpl)]
  <2>1. child[c].owner # Foreign /\ child[c].owner = o.uid
    BY <1>1, <1>2, <1>6, VisitedIsOurs DEF IInv, TodoInv
  <2>. QED
    BY <1>1, <1>2, <1>6, <2>1 DEF ChildStep
<1>. QED
  BY <1>3, <1>4, <1>5, <1>6 DEF applyReplicaSetCluster

LEMMA RemovalEffect ==
  ASSUME IInv, pruneReplicaSetChildren \/ deleteReplicaSetChildren
  PROVE  \A d \in Clusters : ChildStep(d)
<1>1. CASE worker.todo = {}
  BY <1>1 DEF pruneReplicaSetChildren, deleteReplicaSetChildren, ChildStep
<1>2. CASE worker.todo # {}
  <2>. DEFINE c == Min(worker.todo)
  <2>1. c \in worker.todo /\ c \in Clusters
    BY <1>2, MinOf DEF IInv, TypeOK, Pass
  <2>2. worker.kids[c].st # "none"
    BY <2>1 DEF IInv, TodoInv, pruneReplicaSetChildren, deleteReplicaSetChildren
  <2>3. DeleteCall(c) \/ UNCHANGED child
    BY DEF pruneReplicaSetChildren, deleteReplicaSetChildren
  <2>. HIDE DEF c
  <2>. QED
    BY <2>1, <2>2, <2>3, VisitedIsOurs, DeleteEffect
<1>. QED
  BY <1>1, <1>2

LEMMA EnvironmentEffect ==
  ASSUME IInv, NEW c \in Clusters, Environment(c)
  PROVE  \A d \in Clusters : ChildStep(d)
<1>1. child \in [Clusters -> Child]
  BY DEF IInv, TypeOK
<1>2. child[c].owner = Foreign => child[c].st = "live" /\ child[c].ready = "no"
  BY Zenon DEF IInv, ChildInv, Strange, NoChild
<1>3. Foreign \notin UIDs
  BY Constants
<1>4. CASE TamperChild(c)
  BY <1>1, <1>2, <1>3, <1>4 DEF TamperChild, ChildStep
<1>5. CASE RoleReady(c) \/ RoleUnready(c) \/ RoleFinalized(c)
  BY <1>1, <1>2, <1>3, <1>5 DEF RoleReady, RoleUnready, RoleFinalized, ChildStep
<1>. QED
  BY <1>4, <1>5, SMTT(30) DEF Environment, DeadlinePasses, SyncChild, ChildStep

LEMMA ChildEffect ==
  ASSUME IInv, Next
  PROVE  \A c \in Clusters : ChildStep(c)
<1>1. CASE UNCHANGED child
  BY <1>1 DEF ChildStep
<1>. QED
  BY <1>1, ApplyEffect, RemovalEffect, EnvironmentEffect, Zenon
     DEF Next, Worker, Users, ensureFinalizer, reconcileReplicaSetNormal, startPrune, patchStatus,
         reconcileReplicaSetDelete, clearCleanupBlocked, removeFinalizer, abortPass,
         CreateReplicaSet, DeleteReplicaSet, EditTemplate, ChangePlacement, NamespaceAppears,
         SyncReplicaSet

----------------------------------------------------------------------------
(* What a step may do to the pass.                                         *)

\* A loop visits a cluster: its phase may become another, but not a timeout.
GoesOn ==
  /\ worker.pc # "idle" /\ worker'.pc = worker.pc /\ worker'.copy = worker.copy
  /\ worker'.kids = worker.kids /\ worker'.sel = worker.sel
  /\ worker'.todo \subseteq worker.todo
  /\ \A c \in Clusters : \/ worker'.sum[c] = worker.sum[c]
                         \/ c \in worker.todo \ worker'.todo /\ worker'.sum[c] # "TimedOut"

\* The pass starts with what the caches show.
Starts ==
  /\ worker.pc = "idle" /\ worker'.copy = rsCache /\ worker'.kids = childCache
  /\ UNCHANGED <<rs, rsCache, child, childCache, late>>
  /\ \/ /\ worker'.pc = "apply" /\ rsCache.st = "live" /\ rsCache.fin
        /\ TodoInv' /\ WindowInv'
     \/ /\ worker'.pc \in Deleting /\ rsCache.st = "deleting"
        /\ worker'.sel = {} /\ TodoInv'

\* On to the children outside the selection.
StartsPrune ==
  /\ worker.pc = "apply" /\ worker'.pc = "prune" /\ worker'.todo = Prunable(worker)
  /\ worker'.copy = worker.copy /\ worker'.kids = worker.kids /\ worker'.sel = worker.sel
  /\ worker'.sum = worker.sum
  /\ UNCHANGED <<rs, rsCache, child, childCache, late>>

\* The response to the status patch becomes the copy.
Clears ==
  /\ worker.pc = "final" /\ worker'.pc = "final" /\ worker'.copy = rs'
  /\ worker'.kids = worker.kids /\ worker'.sel = worker.sel /\ worker'.todo = worker.todo
  /\ UNCHANGED <<rsCache, child, childCache, late>>

WorkerStep ==
  \/ worker' = worker
  \/ worker' = Idle
  \/ GoesOn
  \/ Starts
  \/ StartsPrune
  \/ Clears

LEMMA VisitEffect ==
  ASSUME IInv, worker.todo # {}, worker.pc = "apply", NEW phase \in Phases \ {"TimedOut"},
         Visited(Min(worker.todo), phase)
  PROVE  worker' \in Pass /\ GoesOn
<1>. DEFINE c == Min(worker.todo)
<1>1. worker \in Pass /\ c \in worker.todo /\ c \in Clusters
  BY MinOf DEF IInv, TypeOK, Pass
<1>2. worker.sum \in [Clusters -> Phases] /\ worker.todo \subseteq Clusters
  BY <1>1 DEF Pass
<1>3. worker' = [worker EXCEPT !.todo = worker.todo \ {c},
                               !.sum = [worker.sum EXCEPT ![c] = phase]]
  BY DEF Visited
<1>. HIDE DEF c
<1>4. [worker.sum EXCEPT ![c] = phase] \in [Clusters -> Phases]
  BY <1>2, Zenon
<1>5. /\ worker' \in Pass /\ worker'.todo = worker.todo \ {c}
      /\ worker'.sum = [worker.sum EXCEPT ![c] = phase]
      /\ worker'.pc = worker.pc /\ worker'.copy = worker.copy
      /\ worker'.kids = worker.kids /\ worker'.sel = worker.sel
  BY <1>1, <1>2, <1>3, <1>4, ZenonT(30) DEF Pass
<1>. QED
  BY <1>1, <1>2, <1>5 DEF GoesOn

LEMMA StartEffect ==
  ASSUME IInv, reconcileReplicaSetNormal
  PROVE  worker' \in Pass /\ WorkerStep
<1>. DEFINE sel  == placement.clusters
            plan == planReplicaSetRollout(rsCache, sel)
            todo == {c \in plan.window : plan.sum[c] = "RolloutPending"}
            pass == [pc |-> "apply", copy |-> rsCache, kids |-> childCache, sel |-> sel,
                     sum |-> plan.sum, window |-> plan.window, todo |-> todo, stale |-> FALSE]
<1>1. CASE worker' = worker
  BY <1>1 DEF IInv, TypeOK, WorkerStep
<1>2. CASE worker' = pass /\ UNCHANGED rs
  <2>1. /\ sel \in SUBSET Clusters /\ TypeOK /\ rsCache \in ReplicaSet
        /\ childCache \in [Clusters -> Child]
    BY DEF IInv, TypeOK
  <2>2. /\ plan.sum \in [Clusters -> Phases] /\ plan.window \subseteq sel
        /\ \A c \in sel :
             /\ plan.sum[c] = "TimedOut" => c \in late
             /\ plan.sum[c] = "RolloutPending"
                => childCache[c].st = "none" \/ childCache[c].owner = rsCache.uid
        /\ \A c \in plan.window : plan.sum[c] = "RolloutPending" =>
             Cardinality({d \in sel : /\ d < c
                                      /\ ~(childCache[d].spec = rsCache.tpl
                                           /\ childCache[d].ready = "yes")
                                      /\ plan.sum[d] # "TimedOut"}) < MaxConcurrency
    BY <2>1, PlanEffect, SMTT(30)
  <2>. HIDE DEF plan, sel
  <2>3. pass \in Pass
    BY <2>1, <2>2 DEF Pass
  <2>4. TodoInv'
    BY <1>2, <2>2 DEF TodoInv, Applying
  <2>5. WindowInv'
    <3>1. ASSUME NEW c \in todo
          PROVE  Cardinality({d \in worker'.sel : d < c /\ ~Settled(d)'}) < MaxConcurrency
      <4>1. {d \in worker'.sel : d < c /\ ~Settled(d)'}
            = {d \in sel : /\ d < c
                           /\ ~(childCache[d].spec = rsCache.tpl
                                /\ childCache[d].ready = "yes")
                           /\ plan.sum[d] # "TimedOut"}
        BY <1>2 DEF Settled
      <4>. QED
        BY <2>2, <4>1
    <3>2. worker'.todo = todo /\ worker'.sel = sel /\ worker'.sum = plan.sum /\ late' = late
      BY <1>2 DEF reconcileReplicaSetNormal, fleetVars
    <3>. QED
      BY <2>2, <3>1, <3>2 DEF WindowInv
  <2>6. /\ UNCHANGED <<rs, rsCache, child, childCache, late>>
        /\ rsCache.st = "live" /\ rsCache.fin /\ worker.pc = "idle"
    BY <1>2 DEF reconcileReplicaSetNormal, fleetVars
  <2>. QED
    BY <1>2, <2>3, <2>4, <2>5, <2>6 DEF WorkerStep, Starts
<1>. QED
  BY <1>1, <1>2 DEF reconcileReplicaSetNormal

LEMMA StartDeleteEffect ==
  ASSUME IInv, reconcileReplicaSetDelete
  PROVE  worker' \in Pass /\ WorkerStep
<1>. DEFINE owned == listOwnedReplicaSetChildren(rsCache.uid)
            todo  == {c \in owned : childCache[c].st = "live"}
            pc    == IF owned = {} THEN "final" ELSE "delete"
<1>1. worker' = [Idle EXCEPT !.pc = pc, !.copy = rsCache, !.kids = childCache, !.todo = todo]
  BY DEF reconcileReplicaSetDelete
<1>2. /\ rsCache \in ReplicaSet /\ childCache \in [Clusters -> Child] /\ todo \in SUBSET Clusters
      /\ pc \in Deleting /\ (pc = "final" => todo = {})
      /\ \A c \in todo : childCache[c].st # "none" /\ childCache[c].owner = rsCache.uid
  BY DEF IInv, TypeOK, Deleting, listOwnedReplicaSetChildren, replicaSetOwnsChild
<1>. HIDE DEF todo, pc
<1>3. /\ worker' \in Pass /\ worker'.pc = pc /\ worker'.copy = rsCache
      /\ worker'.kids = childCache /\ worker'.todo = todo /\ worker'.sel = {}
  <2>1. Idle \in Pass /\ Idle.sel = {}
    BY Constants DEF Idle
  <2>. QED
    BY <1>1, <1>2, <2>1, Zenon DEF Pass, Deleting
<1>4. TodoInv'
  BY <1>2, <1>3 DEF TodoInv, Deleting, Applying
<1>. QED
  BY <1>2, <1>3, <1>4 DEF WorkerStep, Starts, reconcileReplicaSetDelete, fleetVars

LEMMA RemovalPass ==
  ASSUME IInv, pruneReplicaSetChildren \/ deleteReplicaSetChildren
  PROVE  worker' \in Pass /\ WorkerStep
<1>1. CASE worker' = Idle
  BY <1>1, Constants DEF WorkerStep
<1>2. CASE worker' = [worker EXCEPT !.todo = @ \ {Min(worker.todo)}, !.stale = TRUE]
  <2>1. worker' \in Pass /\ GoesOn
    BY <1>2, Zenon DEF IInv, TypeOK, Pass, GoesOn, pruneReplicaSetChildren, deleteReplicaSetChildren
  <2>. QED
    BY <2>1 DEF WorkerStep
<1>3. CASE worker' = [worker EXCEPT !.todo = @ \ {Min(worker.todo)}]
  <2>1. worker' \in Pass /\ GoesOn
    BY <1>3 DEF IInv, TypeOK, Pass, GoesOn, pruneReplicaSetChildren, deleteReplicaSetChildren
  <2>. QED
    BY <2>1 DEF WorkerStep
<1>. QED
  BY <1>1, <1>2, <1>3 DEF pruneReplicaSetChildren, deleteReplicaSetChildren, EndPass

LEMMA WorkerEffect ==
  ASSUME IInv, Next
  PROVE  worker' \in Pass /\ WorkerStep
<1>1. CASE UNCHANGED worker
  BY <1>1 DEF IInv, TypeOK, WorkerStep
<1>2. CASE EndPass
  BY <1>2, Constants DEF EndPass, WorkerStep
<1>3. CASE applyReplicaSetCluster
  <2>1. \E phase \in Phases \ {"TimedOut"} : Visited(Min(worker.todo), phase)
    BY <1>3 DEF applyReplicaSetCluster, Phases
  <2>. QED
    BY <1>3, <2>1, VisitEffect, SMTT(30) DEF applyReplicaSetCluster, WorkerStep
<1>4. CASE startPrune
  <2>1. Prunable(worker) \subseteq Clusters
    BY DEF Prunable
  <2>. QED
    BY <1>4, <2>1, Zenon DEF startPrune, IInv, TypeOK, Pass, WorkerStep, StartsPrune, fleetVars
<1>5. CASE clearCleanupBlocked
  <2>1. rs' \in ReplicaSet
    BY <1>5, RsStep DEF Next, Worker
  <2>2. CASE worker' = [worker EXCEPT !.copy = rs']
    BY <1>5, <2>1, <2>2 DEF clearCleanupBlocked, IInv, TypeOK, Pass, WorkerStep, Clears, fleetVars
  <2>. QED
    BY <1>2, <1>5, <2>2 DEF clearCleanupBlocked
<1>6. ASSUME NEW c \in Clusters, Environment(c) PROVE UNCHANGED worker
  BY <1>6 DEF Environment, TamperChild, RoleReady, RoleUnready, RoleFinalized, DeadlinePasses,
              SyncChild
<1>. QED
  BY <1>1, <1>2, <1>3, <1>4, <1>5, <1>6, StartEffect, StartDeleteEffect, RemovalPass, ZenonT(30)
     DEF Next, Worker, Users, ensureFinalizer, patchStatus, removeFinalizer, abortPass,
         CreateReplicaSet, DeleteReplicaSet, EditTemplate, ChangePlacement, NamespaceAppears,
         SyncReplicaSet

----------------------------------------------------------------------------
(* The inductive step.                                                     *)

\* A cached child is left alone or becomes what the server has, and a cluster is late
\* no longer only because its child has become ready or is gone.
LEMMA CacheStep ==
  ASSUME TypeOK, Next
  PROVE  /\ \A c \in Clusters : childCache'[c] \in {childCache[c], child[c]}
         /\ childCache' \in [Clusters -> Child]
         /\ childCache' # childCache => UNCHANGED <<child, worker>>
<1>1. ASSUME NEW c \in Clusters, SyncChild(c)
      PROVE  /\ \A d \in Clusters : childCache'[d] \in {childCache[d], child[d]}
             /\ childCache' \in [Clusters -> Child] /\ UNCHANGED <<child, worker>>
  BY <1>1 DEF SyncChild, TypeOK
<1>2. ASSUME ~ \E c \in Clusters : SyncChild(c) PROVE childCache' = childCache
  <2>1. ASSUME NEW c \in Clusters, Environment(c) PROVE childCache' = childCache
    BY <1>2, <2>1 DEF Environment, TamperChild, RoleReady, RoleUnready, RoleFinalized,
                      DeadlinePasses
  <2>. QED
    BY <2>1, Zenon DEF Next, Worker, Users, ensureFinalizer, reconcileReplicaSetNormal,
       applyReplicaSetCluster, startPrune, pruneReplicaSetChildren, patchStatus,
       reconcileReplicaSetDelete, deleteReplicaSetChildren, clearCleanupBlocked, removeFinalizer,
       abortPass, CreateReplicaSet, DeleteReplicaSet, EditTemplate, ChangePlacement,
       NamespaceAppears, SyncReplicaSet
<1>. QED
  BY <1>1, <1>2 DEF TypeOK

LEMMA FleetStep ==
  ASSUME TypeOK, Next
  PROVE  /\ placement' \in [ok : BOOLEAN, clusters : SUBSET Clusters]
         /\ namespaces' \subseteq Clusters /\ late' \subseteq Clusters
         /\ changes' \in 0 .. MaxChanges /\ changes <= changes'
         /\ \A c \in late \ late' : child'[c].ready = "yes" \/ child'[c].st = "none"
<1>1. /\ placement \in [ok : BOOLEAN, clusters : SUBSET Clusters]
      /\ namespaces \subseteq Clusters /\ late \subseteq Clusters
      /\ changes \in 0 .. MaxChanges /\ child \in [Clusters -> Child]
  BY DEF TypeOK
<1>2. changes' = changes \/ Change => changes' \in 0 .. MaxChanges /\ changes <= changes'
  BY <1>1, FleetAssumption DEF Change
<1>3. CASE UNCHANGED fleetVars /\ (changes' = changes \/ Change)
  BY <1>1, <1>2, <1>3 DEF fleetVars
<1>4. CASE ChangePlacement
  <2>1. placement' \in [ok : BOOLEAN, clusters : SUBSET Clusters]
    BY <1>1, <1>4, Zenon DEF ChangePlacement
  <2>. QED
    BY <1>1, <1>2, <1>4, <2>1, Zenon DEF ChangePlacement
<1>5. CASE NamespaceAppears
  BY <1>1, <1>2, <1>5 DEF NamespaceAppears
<1>6. ASSUME NEW c \in Clusters, RoleReady(c) \/ RoleFinalized(c) \/ DeadlinePasses(c)
      PROVE  /\ placement' = placement /\ namespaces' = namespaces /\ late' \subseteq Clusters
             /\ changes' = changes \/ Change
             /\ \A d \in late \ late' : child'[d].ready = "yes" \/ child'[d].st = "none"
  <2>1. NoChild.st = "none"
    BY DEF NoChild
  <2>2. CASE RoleReady(c)
    BY <1>1, <2>2 DEF RoleReady, Child
  <2>3. CASE RoleFinalized(c)
    BY <1>1, <2>1, <2>3 DEF RoleFinalized
  <2>4. CASE DeadlinePasses(c)
    BY <1>1, <2>4 DEF DeadlinePasses
  <2>. QED
    BY <1>6, <2>2, <2>3, <2>4
<1>7. ASSUME NEW c \in Clusters, Environment(c)
      PROVE  \/ UNCHANGED fleetVars /\ (changes' = changes \/ Change)
             \/ RoleReady(c) \/ RoleFinalized(c) \/ DeadlinePasses(c)
  BY <1>7 DEF Environment, TamperChild, RoleUnready, SyncChild
<1>8. \/ UNCHANGED fleetVars /\ (changes' = changes \/ Change)
      \/ ChangePlacement \/ NamespaceAppears
      \/ \E c \in Clusters : RoleReady(c) \/ RoleFinalized(c) \/ DeadlinePasses(c)
  BY <1>7, Zenon DEF Next, Worker, Users, ensureFinalizer, reconcileReplicaSetNormal,
     applyReplicaSetCluster, startPrune, pruneReplicaSetChildren, patchStatus,
     reconcileReplicaSetDelete, deleteReplicaSetChildren, clearCleanupBlocked, removeFinalizer,
     abortPass, CreateReplicaSet, DeleteReplicaSet, EditTemplate, SyncReplicaSet
<1>. QED
  BY <1>1, <1>2, <1>3, <1>4, <1>5, <1>6, <1>8

\* Numbers of ReplicaSets only grow, and the cache follows.
LEMMA UIDStep ==
  ASSUME IInv, Next
  PROVE  /\ UIDInv'
         /\ rs.uid <= rs'.uid /\ rsCache.uid <= rsCache'.uid /\ rs.uid \in Nat /\ rs'.uid \in Nat
         /\ rsCache.uid \in Nat /\ rsCache'.uid \in Nat /\ worker.copy.uid \in Nat
<1>1. /\ rs \in ReplicaSet /\ rsCache \in ReplicaSet /\ rs' \in ReplicaSet /\ rsCache' \in ReplicaSet
      /\ worker.copy \in ReplicaSet /\ UIDInv /\ WorkerStep
  BY RsStep, WorkerEffect DEF IInv, TypeOK, Pass
<1>2. /\ rs.uid \in Nat /\ rs'.uid \in Nat /\ rsCache.uid \in Nat /\ rsCache'.uid \in Nat
      /\ worker.copy.uid \in Nat /\ rs.tpl \in Nat /\ rs'.tpl \in Nat
      /\ changes \in Nat /\ changes' \in Nat /\ changes <= changes'
      /\ rs'.uid \in UIDs \cup {0}
  <2>1. /\ changes \in 0 .. MaxChanges /\ changes' \in 0 .. MaxChanges /\ changes <= changes'
    BY FleetStep DEF IInv, TypeOK
  <2>2. /\ rs.uid \in 0 .. MaxUID /\ rs'.uid \in 0 .. MaxUID /\ rsCache.uid \in 0 .. MaxUID
        /\ rsCache'.uid \in 0 .. MaxUID /\ worker.copy.uid \in 0 .. MaxUID
        /\ rs.tpl \in Templates /\ rs'.tpl \in Templates
    BY <1>1 DEF ReplicaSet
  <2>3. /\ 0 .. MaxUID \subseteq Nat /\ 0 .. MaxChanges \subseteq Nat /\ Templates \subseteq Nat
        /\ 0 .. MaxUID = UIDs \cup {0}
    BY Constants
  <2>4. rs'.uid \in UIDs \cup {0}
    BY <2>2, <2>3
  <2>. QED
    BY <2>1, <2>2, <2>3, <2>4, Zenon
<1>3. /\ rs.uid <= rs'.uid
      /\ rs'.tpl <= changes' + 1
      /\ rs'.st # "none" => rs'.uid \in UIDs
      /\ rs'.uid = rs.uid /\ rs'.st = "live" => rs.st = "live"
      /\ \/ rsCache' = rsCache
         \/ rsCache' = rs /\ rs' = rs
  <2>1. CASE RsKept /\ rsCache' = rsCache
    BY <1>1, <1>2, <2>1 DEF RsKept, UIDInv
  <2>2. CASE SyncReplicaSet
    BY <1>1, <1>2, <2>2 DEF SyncReplicaSet, UIDInv
  <2>3. CASE ensureFinalizer \/ removeFinalizer \/ DeleteReplicaSet
    <3>1. /\ \/ rs' = [rs EXCEPT !.fin = TRUE] \/ rs' = [rs EXCEPT !.fin = FALSE]
             \/ rs' = [rs EXCEPT !.st = "deleting"] /\ rs.st = "live"
             \/ rs' = [NoReplicaSet EXCEPT !.uid = rs.uid]
             \/ rs' = rs
          /\ rsCache' = rsCache
      BY <2>3 DEF ensureFinalizer, removeFinalizer, DeleteReplicaSet
    <3>2. /\ rs'.uid = rs.uid
          /\ \/ rs'.st = rs.st /\ rs'.tpl = rs.tpl
             \/ rs'.st = "deleting" /\ rs.st = "live" /\ rs'.tpl = rs.tpl
             \/ rs'.st = "none" /\ rs'.tpl = 1
      BY <1>1, <3>1 DEF ReplicaSet, NoReplicaSet
    <3>. QED
      BY <1>1, <1>2, <3>1, <3>2 DEF UIDInv
  <2>4. CASE CreateReplicaSet
    <3>1. rs'.uid = rs.uid + 1 /\ rs'.tpl = 1 /\ rsCache' = rsCache
      BY <2>4 DEF CreateReplicaSet, NoReplicaSet
    <3>2. rs.uid \in Nat /\ rs'.tpl \in Nat /\ changes' \in Nat
      BY <1>2
    <3>3. rs'.uid # 0 /\ rs'.uid # rs.uid /\ rs.uid <= rs'.uid
      BY <3>1, <3>2
    <3>4. rs'.tpl <= changes' + 1
      <4>1. \A n \in Nat : 1 <= n + 1
        OBVIOUS
      <4>. QED
        BY <3>1, <3>2, <4>1, Zenon
    <3>. QED
      BY <1>2, <3>1, <3>3, <3>4, Zenon
  <2>5. CASE EditTemplate
    <3>1. /\ rs'.uid = rs.uid /\ rs'.st = rs.st /\ rs'.tpl = rs.tpl + 1 /\ rsCache' = rsCache
          /\ changes' = changes + 1
      BY <1>1, <2>5 DEF EditTemplate, ReplicaSet, Change
    <3>. QED
      BY <1>1, <1>2, <3>1 DEF UIDInv
  <2>. QED
    BY <2>1, <2>2, <2>3, <2>4, <2>5, RsStep
<1>4. /\ rsCache'.uid <= rs'.uid /\ rsCache.uid <= rsCache'.uid
      /\ rsCache'.uid = rs'.uid /\ rsCache'.st = "deleting" => rs'.st # "live"
  BY <1>1, <1>2, <1>3 DEF UIDInv
<1>5. worker'.pc # "idle" => worker'.copy.uid <= rs'.uid
  <2>1. CASE worker' = worker \/ GoesOn
    BY <1>1, <1>2, <1>3, <2>1 DEF UIDInv, GoesOn
  <2>2. CASE worker' = Idle
    BY <2>2 DEF Idle
  <2>3. CASE Starts
    BY <1>1, <1>2, <1>3, <2>3 DEF UIDInv, Starts
  <2>4. CASE StartsPrune
    BY <1>1, <1>2, <1>3, <2>4 DEF UIDInv, StartsPrune
  <2>5. CASE Clears
    BY <1>2, <2>5 DEF Clears
  <2>. QED
    BY <1>1, <2>1, <2>2, <2>3, <2>4, <2>5 DEF WorkerStep
<1>. QED
  BY <1>2, <1>3, <1>4, <1>5 DEF UIDInv

LEMMA FinalizerStep ==
  ASSUME IInv, Next
  PROVE  FinalizerInv'
<1>1. /\ rs \in ReplicaSet /\ rsCache \in ReplicaSet /\ worker \in Pass
      /\ UIDInv /\ FinalizerInv /\ WorkerStep
  BY WorkerEffect DEF IInv, TypeOK
<1>2. CASE RsKept /\ rsCache' = rsCache
  <2>1. /\ rs'.fin => rs'.st # "none" /\ rsCache'.uid = rs'.uid
        /\ rsCache'.st = "live" /\ rsCache'.fin => rs'.uid = rsCache'.uid /\ rs'.fin
    BY <1>1, <1>2 DEF FinalizerInv, RsKept
  <2>2. ASSUME worker'.pc \in Deleting, rs.fin
        PROVE  rs.st = "deleting" /\ rsCache.st = "deleting"
    <3>1. CASE worker.pc \in Deleting
      BY <1>1, <2>2, <3>1 DEF FinalizerInv
    <3>2. CASE worker.pc \notin Deleting
      <4>1. Starts
        <5>1. worker' # Idle /\ ~StartsPrune /\ ~Clears /\ ~GoesOn /\ worker' # worker
          BY <2>2, <3>2 DEF Deleting, Idle, GoesOn, StartsPrune, Clears
        <5>. QED
          BY <1>1, <5>1 DEF WorkerStep
      <4>2. rsCache.st = "deleting"
        BY <2>2, <4>1 DEF Starts, Deleting
      <4>3. rs.st \notin {"none", "live"}
        BY <1>1, <2>2, <4>2 DEF FinalizerInv, UIDInv
      <4>. QED
        BY <1>1, <4>2, <4>3 DEF ReplicaSet
    <3>. QED
      BY <3>1, <3>2
  <2>3. ASSUME worker'.pc \in Applying PROVE rs.uid = worker'.copy.uid /\ rs.fin
    <3>1. CASE worker.pc \in Applying
      <4>1. worker'.copy = worker.copy
        <5>1. worker' # Idle /\ ~Starts /\ ~Clears
          BY <2>3, <3>1 DEF Applying, Idle, Starts, Clears
        <5>. QED
          BY <1>1, <5>1, SMTT(30) DEF WorkerStep, GoesOn, StartsPrune
      <4>. QED
        BY <1>1, <3>1, <4>1 DEF FinalizerInv
    <3>2. CASE worker.pc \notin Applying
      <4>1. Starts
        <5>1. worker' # Idle /\ ~StartsPrune /\ ~Clears /\ ~GoesOn /\ worker' # worker
          BY <2>3, <3>2, SMTT(30) DEF Applying, Idle, GoesOn, StartsPrune, Clears
        <5>. QED
          BY <1>1, <5>1 DEF WorkerStep
      <4>. QED
        BY <1>1, <2>3, <4>1, SMTT(30) DEF Starts, FinalizerInv, Applying, Deleting
    <3>. QED
      BY <3>1, <3>2
  <2>. QED
    BY <1>2, <2>1, <2>2, <2>3 DEF FinalizerInv, RsKept
<1>3. CASE SyncReplicaSet
  BY <1>1, <1>3 DEF SyncReplicaSet, FinalizerInv
<1>4. CASE ensureFinalizer
  <2>1. rs'.uid = rs.uid /\ rs'.st = "live" /\ rs'.fin
    BY <1>1, <1>4 DEF ensureFinalizer, ReplicaSet
  <2>. QED
    BY <1>4, <2>1 DEF ensureFinalizer, FinalizerInv, Deleting, Applying
<1>5. CASE removeFinalizer /\ rs' # rs
  <2>1. rs.fin /\ worker.pc = "final" /\ rsCache' = rsCache /\ worker'.pc = "idle"
    BY <1>5 DEF removeFinalizer, EndPass, Idle
  <2>2. rs.st = "deleting" /\ rsCache.st = "deleting"
    BY <1>1, <2>1 DEF FinalizerInv, Deleting
  <2>3. ~rs'.fin
    BY <1>5, <2>2 DEF removeFinalizer, NoReplicaSet
  <2>. QED
    BY <2>1, <2>2, <2>3 DEF FinalizerInv, Deleting, Applying
<1>6. CASE CreateReplicaSet
  <2>1. ~rs.fin /\ ~rs'.fin
    BY <1>1, <1>6 DEF CreateReplicaSet, NoReplicaSet, FinalizerInv
  <2>. QED
    BY <1>1, <1>6, <2>1 DEF CreateReplicaSet, FinalizerInv
<1>7. CASE DeleteReplicaSet
  <2>1. CASE rs.fin
    <3>1. rs'.uid = rs.uid /\ rs'.st = "deleting" /\ rs'.fin
      BY <1>1, <1>7, <2>1 DEF DeleteReplicaSet, ReplicaSet
    <3>. QED
      BY <1>1, <1>7, <2>1, <3>1 DEF DeleteReplicaSet, FinalizerInv
  <2>2. CASE ~rs.fin
    <3>1. ~rs'.fin
      BY <1>7, <2>2 DEF DeleteReplicaSet, NoReplicaSet
    <3>. QED
      BY <1>1, <1>7, <2>2, <3>1 DEF DeleteReplicaSet, FinalizerInv
  <2>. QED
    BY <2>1, <2>2
<1>8. CASE EditTemplate
  <2>1. rs'.uid = rs.uid /\ rs'.st = rs.st /\ rs'.fin = rs.fin
    BY <1>1, <1>8, SMTT(30) DEF EditTemplate, ReplicaSet
  <2>. QED
    BY <1>1, <1>8, <2>1 DEF EditTemplate, FinalizerInv
<1>. QED
  BY <1>2, <1>3, <1>4, <1>5, <1>6, <1>7, <1>8, RsStep, SMTT(30)

\* What a child is after a step: a role of someone else stays, and a child that is new
\* belongs to the present ReplicaSet.
LEMMA ChildAfter ==
  ASSUME IInv, Next, NEW c \in Clusters
  PROVE  /\ child'[c] \in Child /\ Whole(child'[c])
         /\ child'[c].owner = Foreign <=> child[c].owner = Foreign
         /\ child[c].owner = Foreign => child'[c] = child[c]
         /\ child'[c].owner \in {0, child[c].owner, rs.uid}
         /\ child'[c].spec # 0 => \/ child'[c].owner = child[c].owner /\ child[c].spec # 0
                                  \/ worker.pc = "apply" /\ child'[c].owner = worker.copy.uid
<1>1. /\ child[c] \in Child /\ Whole(child[c]) /\ rs.uid # Foreign /\ 0 # Foreign
      /\ rs.uid \in 0 .. Foreign
  BY Constants DEF IInv, TypeOK, ReplicaSet, ChildInv
<1>2. /\ worker.pc = "apply" => worker.copy.uid = rs.uid /\ rs.st # "none"
      /\ rs.st # "none" => rs.uid # 0
      /\ worker.copy.tpl \in Templates
  BY Constants DEF IInv, FinalizerInv, Applying, UIDInv, TypeOK, Pass, ReplicaSet
<1>3. CASE child'[c] = child[c]
  BY <1>1, <1>3
<1>4. CASE /\ child[c].owner # Foreign /\ child[c].st = "live"
           /\ \/ child'[c] = [child[c] EXCEPT !.st = "deleting"]
              \/ child'[c] = [child[c] EXCEPT !.ready = "yes"]
              \/ child'[c] = [child[c] EXCEPT !.ready = "lost"]
  <2>1. /\ child'[c] \in Child /\ child'[c].owner = child[c].owner /\ child'[c].st # "none"
        /\ child'[c].spec = child[c].spec
    BY <1>1, <1>4 DEF Child
  <2>. QED
    BY <1>1, <1>4, <2>1 DEF Whole
<1>5. CASE child[c].owner # Foreign /\ child'[c] = NoChild
  BY <1>1, <1>5, Constants DEF Whole, NoChild
<1>6. CASE /\ child[c].owner # Foreign /\ worker.pc = "apply"
           /\ child'[c] = [st |-> "live", owner |-> worker.copy.uid, spec |-> worker.copy.tpl,
                           ready |-> "no"]
  BY <1>1, <1>2, <1>6 DEF Whole, Child
<1>7. CASE /\ child[c].owner # Foreign /\ rs.st = "live"
           /\ child'[c] = [st |-> "live", owner |-> rs.uid, spec |-> 0, ready |-> "no"]
  BY <1>1, <1>2, <1>7, SMTT(30) DEF Whole, Child
<1>8. CASE /\ child[c].owner # Foreign /\ child[c].st # "none" /\ child[c].spec # 0
           /\ child'[c] = Patched(child[c], worker.copy.tpl)
  <2>1. /\ child'[c] \in Child /\ child'[c].owner = child[c].owner /\ child'[c].st # "none"
    BY <1>1, <1>2, <1>8, ZenonT(30) DEF Child, Patched
  <2>. QED
    BY <1>1, <1>8, <2>1 DEF Whole
<1>. QED
  BY <1>3, <1>4, <1>5, <1>6, <1>7, <1>8, ChildEffect, SMTT(30) DEF ChildStep

\* What was an earlier state of a child stays one.
LEMMA EarlierKept ==
  ASSUME IInv, Next, NEW c \in Clusters, NEW old \in Child, Earlier(c, old)
  PROVE  /\ Whole(old)
         /\ child'[c].owner = Foreign <=> old.owner = Foreign
         /\ child'[c].owner \in UIDs => old.owner <= child'[c].owner
         /\ old.owner # Foreign => old.owner <= rs'.uid
<1>1. old.owner \in Nat /\ rs.uid \in Nat /\ rs'.uid \in Nat /\ rs.uid <= rs'.uid
  BY UIDStep, Constants DEF Child
<1>2. child'[c].owner \in UIDs => child'[c].owner \in {child[c].owner, rs.uid}
  BY ChildAfter, Constants
<1>3. child'[c].owner \in UIDs => child'[c].owner # Foreign
  BY Constants
<1>4. child'[c].owner = Foreign <=> child[c].owner = Foreign
  BY ChildAfter
<1>5. ASSUME child'[c].owner \in UIDs PROVE old.owner <= child'[c].owner
  <2>1. old.owner <= rs.uid
    BY <1>3, <1>4, <1>5 DEF Earlier
  <2>. QED
    BY <1>2, <1>5, <2>1 DEF Earlier
<1>6. old.owner # Foreign => old.owner <= rs'.uid
  BY <1>1 DEF Earlier
<1>. QED
  BY <1>4, <1>5, <1>6 DEF Earlier

LEMMA ChildInvStep ==
  ASSUME IInv, Next
  PROVE  ChildInv'
<1>1. SUFFICES ASSUME NEW c \in Clusters
               PROVE  /\ Whole(child'[c])
                      /\ child'[c].owner = Foreign => child'[c] = Strange
                      /\ child'[c].owner # Foreign => child'[c].owner <= rs'.uid
                      /\ Earlier(c, childCache[c])'
                      /\ worker'.pc # "idle" => Earlier(c, worker.kids[c])'
  BY DEF ChildInv, Whole, NoChild, Strange, Foreign
<1>2. /\ ChildInv /\ child[c] \in Child /\ childCache[c] \in Child
      /\ worker.kids[c] \in Child /\ child[c].owner \in Nat
  BY Constants DEF IInv, TypeOK, Pass, Child
<1>3. Whole(child'[c]) /\ (child'[c].owner = Foreign => child'[c] = Strange)
  BY <1>2, ChildAfter, SMTT(30) DEF ChildInv
<1>4. child'[c].owner # Foreign => child'[c].owner <= rs'.uid
  <2>1. rs.uid \in Nat /\ rs'.uid \in Nat /\ rs.uid <= rs'.uid
    BY UIDStep
  <2>. QED
    BY <1>2, <2>1, ChildAfter DEF ChildInv
<1>5. Earlier(c, childCache[c]) /\ (worker.pc # "idle" => Earlier(c, worker.kids[c]))
  BY <1>2 DEF ChildInv
<1>6. Earlier(c, child[c])
  BY <1>2 DEF ChildInv, Earlier
<1>7. Earlier(c, childCache[c])'
  <2>1. childCache'[c] \in {childCache[c], child[c]}
    BY CacheStep DEF IInv
  <2>. QED
    BY <1>2, <1>5, <1>6, <2>1, EarlierKept DEF Earlier
<1>8. ASSUME worker'.pc # "idle" PROVE Earlier(c, worker.kids[c])'
  <2>1. \/ worker.pc # "idle" /\ worker'.kids = worker.kids
        \/ worker'.kids = childCache
    BY <1>8, WorkerEffect DEF WorkerStep, GoesOn, Starts, StartsPrune, Clears, Idle
  <2>2. CASE worker.pc # "idle" /\ worker'.kids = worker.kids
    BY <1>2, <1>5, <2>2, EarlierKept, SMTT(30) DEF Earlier
  <2>3. CASE worker'.kids = childCache
    BY <1>2, <1>5, <2>3, EarlierKept, SMTT(30) DEF Earlier
  <2>. QED
    BY <2>1, <2>2, <2>3
<1>. QED
  BY <1>3, <1>4, <1>7, <1>8

LEMMA PlantedStep ==
  ASSUME IInv, Next
  PROVE  PlantedInv'
<1>1. SUFFICES ASSUME NEW c \in Clusters, child'[c].owner # Foreign, child'[c].spec # 0
               PROVE  /\ child'[c].owner <= rsCache'.uid
                      /\ worker'.pc # "idle" => child'[c].owner <= worker'.copy.uid
  BY DEF PlantedInv
<1>2. /\ rs.uid \in Nat /\ rs'.uid \in Nat /\ rs.uid <= rs'.uid
      /\ rsCache.uid \in Nat /\ rsCache'.uid \in Nat /\ rsCache.uid <= rsCache'.uid
      /\ worker.copy.uid \in Nat
  BY UIDStep
<1>3. child'[c].owner \in Nat /\ child[c].owner \in Nat
  <2>1. child'[c] \in Child /\ child[c] \in Child /\ 0 .. Foreign \subseteq Nat
    BY ChildAfter DEF IInv, TypeOK
  <2>. QED
    BY <2>1 DEF Child
<1>4. CASE child'[c].owner = child[c].owner /\ child[c].spec # 0
  <2>1. /\ child[c].owner <= rsCache.uid /\ child[c].owner <= rs.uid
        /\ worker.pc # "idle" => child[c].owner <= worker.copy.uid
    BY <1>1, <1>4 DEF IInv, PlantedInv, ChildInv
  <2>2. child[c].owner <= rsCache'.uid /\ child[c].owner <= rs'.uid
    BY <1>2, <1>3, <2>1
  <2>3. worker'.pc # "idle" => \/ worker.pc # "idle" /\ worker'.copy = worker.copy
                               \/ worker'.copy = rsCache
                               \/ worker'.copy = rs'
    BY WorkerEffect DEF WorkerStep, GoesOn, Starts, StartsPrune, Clears, Idle
  <2>. QED
    BY <1>4, <2>1, <2>2, <2>3, SMTT(30)
<1>5. CASE worker.pc = "apply" /\ child'[c].owner = worker.copy.uid
  <2>1. worker.copy.uid = rsCache.uid
    BY <1>5, SMTT(30) DEF IInv, FinalizerInv, Applying
  <2>2. worker'.pc # "idle" => worker'.copy = worker.copy
    BY <1>5, WorkerEffect, SMTT(30) DEF WorkerStep, GoesOn, Starts, StartsPrune, Clears, Idle
  <2>. QED
    BY <1>2, <1>5, <2>1, <2>2
<1>. QED
  BY <1>1, <1>4, <1>5, ChildAfter

LEMMA TodoStep ==
  ASSUME IInv, Next
  PROVE  TodoInv'
<1>1. TodoInv /\ WorkerStep /\ worker \in Pass
  BY WorkerEffect DEF IInv, TypeOK
<1>2. CASE worker' = worker
  BY <1>1, <1>2 DEF TodoInv
<1>3. CASE worker' = Idle
  BY <1>3, SMTT(30) DEF TodoInv, Idle
<1>4. CASE GoesOn
  <2>1. \A c \in worker'.todo : c \in worker.todo /\ worker'.sum[c] = worker.sum[c]
    BY <1>1, <1>4 DEF GoesOn, Pass
  <2>. QED
    BY <1>1, <1>4, <2>1 DEF GoesOn, TodoInv
<1>5. CASE StartsPrune
  BY <1>5 DEF StartsPrune, Prunable, replicaSetOwnsChild, TodoInv, Applying
<1>6. CASE Clears
  BY <1>1, <1>6 DEF Clears, TodoInv, Applying
<1>. QED
  BY <1>1, <1>2, <1>3, <1>4, <1>5, <1>6 DEF WorkerStep, Starts

\* A cluster that was late when the plan was made does not come to be in progress while
\* the pass lasts.
LEMMA LateKept ==
  ASSUME IInv, Next, NEW d \in worker.sel, worker.sum[d] = "TimedOut"
  PROVE  \/ d \in late' \/ child'[d].st # "live" \/ child'[d].ready \in {"yes", "lost"}
         \/ child'[d].spec # worker.copy.tpl
<1>1. /\ d \in Clusters /\ child[d] \in Child /\ worker.copy.tpl # 0
      /\ d \in late \/ child[d].st # "live" \/ child[d].ready \in {"yes", "lost"}
         \/ child[d].spec # worker.copy.tpl
  BY Constants DEF IInv, TypeOK, Pass, ReplicaSet, WindowInv
<1>2. d \in late \ late' => child'[d].ready = "yes" \/ child'[d].st = "none"
  BY FleetStep DEF IInv
<1>3. ~(worker.pc = "apply" /\ d \in worker.todo)
  BY DEF IInv, TodoInv
<1>4. CASE d \in late
  BY <1>2, <1>4
<1>5. CASE d \notin late
  <2>1. CASE child'[d] = child[d]
    BY <1>1, <1>5, <2>1
  <2>2. CASE \/ child'[d] = [child[d] EXCEPT !.st = "deleting"]
             \/ child'[d] = [child[d] EXCEPT !.ready = "yes"]
             \/ child'[d] = [child[d] EXCEPT !.ready = "lost"]
    BY <1>1, <2>2, SMTT(30) DEF Child
  <2>3. CASE \/ child'[d] = NoChild
             \/ child'[d] = [st |-> "live", owner |-> rs.uid, spec |-> 0, ready |-> "no"]
    BY <1>1, <2>3 DEF NoChild
  <2>. QED
    BY <1>1, <1>3, <2>1, <2>2, <2>3, ChildEffect, SMTT(30) DEF ChildStep
<1>. QED
  BY <1>4, <1>5, SMTT(30)

LEMMA WindowStep ==
  ASSUME IInv, Next
  PROVE  WindowInv'
<1>1. WindowInv /\ TodoInv /\ WorkerStep /\ worker \in Pass
  BY WorkerEffect DEF IInv, TypeOK
<1>2. CASE worker' = worker
  <2>1. \A d : Settled(d)' = Settled(d)
    BY <1>2 DEF Settled
  <2>. QED
    BY <1>1, <1>2, <2>1, LateKept DEF WindowInv
<1>3. CASE worker' = Idle \/ Clears
  <2>1. worker'.sel = {} /\ worker'.todo = {}
    BY <1>1, <1>3 DEF Idle, Clears, TodoInv, Applying
  <2>. QED
    BY <2>1 DEF WindowInv
<1>4. CASE GoesOn \/ StartsPrune
  <2>1. /\ worker'.copy = worker.copy /\ worker'.kids = worker.kids /\ worker'.sel = worker.sel
        /\ worker.sel \subseteq Clusters /\ worker.todo \subseteq Clusters
    BY <1>1, <1>4 DEF GoesOn, StartsPrune, Pass
  <2>2. \A d \in Clusters : worker'.sum[d] = "TimedOut" => worker.sum[d] = "TimedOut"
    BY <1>4 DEF GoesOn, StartsPrune
  <2>3. \A d \in worker'.sel : worker'.sum[d] = "TimedOut" =>
          \/ d \in late' \/ child'[d].st # "live" \/ child'[d].ready \in {"yes", "lost"}
          \/ child'[d].spec # worker'.copy.tpl
    BY <2>1, <2>2, LateKept
  <2>4. ASSUME NEW c \in worker'.todo, worker'.pc = "apply"
        PROVE  Cardinality({d \in worker'.sel : d < c /\ ~Settled(d)'}) < MaxConcurrency
    <3>1. worker.pc = "apply" /\ c \in worker.todo /\ GoesOn
      BY <1>4, <2>4 DEF GoesOn, StartsPrune
    <3>2. \A d \in worker.sel : worker.sum[d] = "TimedOut" => worker'.sum[d] = "TimedOut"
      BY <1>1, <2>1, <3>1 DEF GoesOn, TodoInv
    <3>3. {d \in worker'.sel : d < c /\ ~Settled(d)'} = {d \in worker.sel : d < c /\ ~Settled(d)}
      BY <2>1, <2>2, <3>2 DEF Settled
    <3>. QED
      BY <1>1, <3>1, <3>3 DEF WindowInv
  <2>. QED
    BY <2>3, <2>4 DEF WindowInv
<1>5. CASE Starts
  BY <1>5 DEF Starts, WindowInv, Deleting
<1>. QED
  BY <1>1, <1>2, <1>3, <1>4, <1>5, SMTT(30) DEF WorkerStep

\* A step writes a child in its place.
LEMMA ChildFunction ==
  ASSUME TypeOK, Next
  PROVE  child' = [c \in Clusters |-> child'[c]]
<1>1. child = [c \in Clusters |-> child[c]]
  BY DEF TypeOK
<1>2. ASSUME NEW c, NEW k, child' = [child EXCEPT ![c] = k]
      PROVE  child' = [d \in Clusters |-> child'[d]]
  BY <1>1, <1>2
<1>3. ASSUME NEW c, DeleteCall(c) \/ UNCHANGED child
      PROVE  child' = [d \in Clusters |-> child'[d]]
  BY <1>1, <1>2, <1>3 DEF DeleteCall
<1>4. CASE applyReplicaSetCluster \/ pruneReplicaSetChildren \/ deleteReplicaSetChildren
  BY <1>1, <1>2, <1>3, <1>4
     DEF applyReplicaSetCluster, pruneReplicaSetChildren, deleteReplicaSetChildren
<1>5. ASSUME NEW c \in Clusters, Environment(c) PROVE child' = [d \in Clusters |-> child'[d]]
  BY <1>1, <1>2, <1>5, SMTT(30) DEF Environment, TamperChild, RoleReady, RoleUnready, RoleFinalized,
                          DeadlinePasses, SyncChild
<1>. QED
  BY <1>1, <1>4, <1>5, ZenonT(30)
     DEF Next, Worker, Users, ensureFinalizer, reconcileReplicaSetNormal, startPrune, patchStatus,
         reconcileReplicaSetDelete, clearCleanupBlocked, removeFinalizer, abortPass,
         CreateReplicaSet, DeleteReplicaSet, EditTemplate, ChangePlacement, NamespaceAppears,
         SyncReplicaSet

LEMMA TypeStep ==
  ASSUME IInv, Next
  PROVE  TypeOK'
<1>1. child' \in [Clusters -> Child]
  <2>1. child \in [Clusters -> Child] /\ \A c \in Clusters : child'[c] \in Child
    BY ChildAfter DEF IInv, TypeOK
  <2>2. child' = [c \in Clusters |-> child'[c]]
    BY ChildFunction DEF IInv
  <2>. QED
    BY <2>1, <2>2
<1>2. worker'.todo \subseteq worker'.sel \cup {c \in Clusters :
        worker'.kids[c].owner = worker'.copy.uid}
  BY TodoStep, WorkerEffect DEF TodoInv, Pass
<1>. QED
  BY <1>1, <1>2, RsStep, CacheStep, FleetStep, WorkerEffect DEF IInv, TypeOK

\* The invariant holds at the start, whoever has roles of that name.
LEMMA InitInv ==
  ASSUME Init
  PROVE  IInv
<1>1. PICK S \in {{}, Strangers} :
        child = [c \in Clusters |->
                   IF c \in S THEN [NoChild EXCEPT !.st = "live", !.owner = Foreign] ELSE NoChild]
  BY DEF Init
<1>2. child \in [Clusters -> Child] /\ \A c \in Clusters : child[c] \in {NoChild, Strange}
  BY <1>1, Constants DEF Strange
<1>3. /\ rs = NoReplicaSet /\ rsCache = NoReplicaSet /\ worker = Idle /\ childCache = child
      /\ placement = [ok |-> TRUE, clusters |-> Clusters] /\ namespaces \subseteq Clusters
      /\ late = {} /\ changes = 0
  BY DEF Init
<1>4. TypeOK
  <2>1. 0 \in 0 .. MaxChanges
    BY FleetAssumption
  <2>2. worker \in Pass /\ worker.todo = {}
    BY <1>3, Constants DEF Idle
  <2>. QED
    BY <1>2, <1>3, <2>1, <2>2, Constants DEF TypeOK
<1>5. UIDInv
  BY <1>3 DEF UIDInv, NoReplicaSet, Idle
<1>6. FinalizerInv
  BY <1>3 DEF FinalizerInv, NoReplicaSet, Idle, Applying, Deleting
<1>7. ChildInv /\ PlantedInv
  <2>1. /\ NoChild.owner = 0 /\ NoChild.st = "none" /\ NoChild.spec = 0
        /\ Strange.owner = Foreign /\ Strange.st = "live" /\ Foreign # 0 /\ 0 \notin UIDs
        /\ Foreign \notin UIDs /\ rs.uid = 0 /\ worker.pc = "idle"
    BY <1>3, Constants DEF NoChild, Strange, NoReplicaSet, Idle
  <2>2. \A c \in Clusters : Earlier(c, child[c]) /\ Whole(child[c])
    BY <1>2, <2>1 DEF Earlier, Whole
  <2>3. \A c \in Clusters : child[c].owner # Foreign => child[c] = NoChild
    BY <1>2, <2>1, SMTT(30)
  <2>. QED
    BY <1>2, <1>3, <2>1, <2>2, <2>3 DEF ChildInv, PlantedInv
<1>8. TodoInv /\ WindowInv
  BY <1>3 DEF TodoInv, WindowInv, Idle
<1>. QED
  BY <1>4, <1>5, <1>6, <1>7, <1>8 DEF IInv

\* ... and every step keeps it.
LEMMA NextInv ==
  ASSUME IInv, [Next]_vars
  PROVE  IInv'
<1>1. CASE Next
  BY <1>1, TypeStep, UIDStep, FinalizerStep, ChildInvStep, PlantedStep, TodoStep, WindowStep
     DEF IInv
<1>2. CASE UNCHANGED vars
  <2>1. \A d : Settled(d)' = Settled(d)
    BY <1>2 DEF Settled, vars
  <2>2. WindowInv'
    BY <1>2, <2>1, SMTT(30) DEF IInv, WindowInv, vars
  <2>3. TypeOK' /\ UIDInv' /\ FinalizerInv'
    BY <1>2, SMTT(30) DEF IInv, vars, TypeOK, UIDInv, FinalizerInv
  <2>4. ChildInv' /\ PlantedInv' /\ TodoInv'
    BY <1>2 DEF IInv, vars, ChildInv, Earlier, PlantedInv, TodoInv
  <2>. QED
    BY <2>2, <2>3, <2>4 DEF IInv
<1>. QED
  BY <1>1, <1>2

----------------------------------------------------------------------------
(* The theorems.                                                           *)

\* The inductive invariant holds of every state.
THEOREM Invariance == Spec => []IInv
<1>. QED
  BY InitInv, NextInv, PTL DEF Spec

\* Every state has its type, for every fleet and strategy; in particular the loops visit
\* selected clusters and children of the ReplicaSet of the pass only.
THEOREM TypeCorrect == Spec => []TypeOK
<1>1. IInv => TypeOK
  BY DEF IInv
<1>. QED
  BY <1>1, Invariance, PTL

\* A step that gives a selected cluster the template of the pass has fewer than
\* MaxConcurrency clusters in progress before it.
LEMMA RolloutStep ==
  ASSUME IInv, Next, NEW c \in worker.sel,
         child[c].spec # worker.copy.tpl,
         child'[c].spec = worker.copy.tpl, child'[c].owner = worker.copy.uid
  PROVE  Cardinality({d \in worker.sel : d < c /\ InProgress(d)}) < MaxConcurrency
<1>1. /\ c \in Clusters /\ worker.sel \subseteq Clusters /\ child[c] \in Child
      /\ worker.copy.tpl # 0
  BY Constants, Zenon DEF IInv, TypeOK, Pass, ReplicaSet
<1>2. worker.pc = "apply" /\ c \in worker.todo
  <2>1. CASE \/ child'[c] = [child[c] EXCEPT !.st = "deleting"]
             \/ child'[c] = [child[c] EXCEPT !.ready = "yes"]
             \/ child'[c] = [child[c] EXCEPT !.ready = "lost"]
    BY <1>1, <2>1 DEF Child
  <2>2. CASE \/ child'[c] = NoChild
             \/ child'[c] = [st |-> "live", owner |-> rs.uid, spec |-> 0, ready |-> "no"]
    <3>1. child'[c].spec = 0
      BY <2>2 DEF NoChild
    <3>. QED
      BY <1>1, <3>1, SMTT(30)
  <2>. QED
    BY <1>1, <2>1, <2>2, ChildEffect DEF ChildStep
<1>3. Cardinality({d \in worker.sel : d < c /\ ~Settled(d)}) < MaxConcurrency
  BY <1>2 DEF IInv, WindowInv
<1>4. ASSUME NEW d \in worker.sel, InProgress(d) PROVE ~Settled(d)
  BY <1>4 DEF InProgress, Settled, IInv, WindowInv
<1>. DEFINE before == {d \in worker.sel : d < c /\ InProgress(d)}
            after  == {d \in worker.sel : d < c /\ ~Settled(d)}
<1>5. before \subseteq after /\ after \in SUBSET Clusters
  BY <1>1, <1>4
<1>. HIDE DEF before, after
<1>6. Cardinality(before) \in Nat /\ Cardinality(after) \in Nat
      /\ Cardinality(before) <= Cardinality(after)
  BY <1>5, PartOf
<1>7. Cardinality(before) < MaxConcurrency
  <2>1. Cardinality(after) < MaxConcurrency /\ MaxConcurrency \in Nat
    BY <1>3, FleetAssumption DEF after
  <2>. QED
    BY <1>6, <2>1
<1>. QED
  BY <1>7 DEF before

\* For every fleet, window, tolerance and history of the caches, a pass gives a cluster
\* its template only while the window has room.
THEOREM WindowIsRespected == Spec => WindowRespected
<1>1. IInv /\ [Next]_vars
      => [\A c \in worker.sel :
            /\ child[c].spec # worker.copy.tpl
            /\ child'[c].spec = worker.copy.tpl /\ child'[c].owner = worker.copy.uid
            => Cardinality({d \in worker.sel : d < c /\ InProgress(d)}) < MaxConcurrency]_vars
  BY RolloutStep
<1>. QED
  BY <1>1, Invariance, PTL DEF Spec, WindowRespected

\* A step of the operator that changes more than the readiness of a live role finds it
\* with the uid of its ReplicaSet, unless someone planted it.
LEMMA OthersStep ==
  ASSUME IInv, Next, NEW c \in Clusters,
         child[c].st = "live", child[c].owner # worker.copy.uid, changes' = changes,
         child[c].owner = Foreign \/ child[c].spec # 0
  PROVE  child'[c] = [child[c] EXCEPT !.ready = child'[c].ready]
<1>1. child \in [Clusters -> Child] /\ child[c] \in Child /\ changes \in Nat
  BY FleetAssumption DEF IInv, TypeOK
<1>2. CASE child'[c] = child[c] \/ child'[c] = [child[c] EXCEPT !.ready = "yes"]
  BY <1>1, <1>2 DEF Child
<1>3. CASE child'[c] = [child[c] EXCEPT !.ready = "lost"]
  BY <1>1, <1>3 DEF Child
<1>4. CASE child[c].owner = Foreign
  BY <1>2, <1>4, ChildAfter
<1>5. ASSUME child'[c] # child[c], child[c].owner # Foreign,
             child'[c] = [child[c] EXCEPT !.st = "deleting"]
      PROVE  FALSE
  <2>1. c \in worker.todo /\ worker.pc # "idle" /\ worker.kids[c].owner = worker.copy.uid
    <3>1. ~Change
      BY <1>1 DEF Change
    <3>2. \/ applyReplicaSetCluster \/ pruneReplicaSetChildren \/ deleteReplicaSetChildren
      <4>1. child' # child
        BY <1>5
      <4>2. ASSUME NEW d \in Clusters, Environment(d) PROVE FALSE
        <5>1. RoleReady(d) \/ RoleFinalized(d)
          BY <3>1, <4>1, <4>2 DEF Environment, TamperChild, RoleUnready, DeadlinePasses, SyncChild
        <5>2. child'[c] = child[c] \/ child'[c].st # "deleting"
          BY <1>1, <5>1 DEF RoleReady, RoleFinalized, Child, NoChild
        <5>3. child'[c].st = "deleting"
          BY <1>1, <1>5 DEF Child
        <5>. QED
          BY <1>5, <5>2, <5>3
      <4>. QED
        BY <4>1, <4>2, ZenonT(30)
           DEF Next, Worker, Users, ensureFinalizer, reconcileReplicaSetNormal, startPrune,
               patchStatus, reconcileReplicaSetDelete, clearCleanupBlocked, removeFinalizer,
               abortPass, CreateReplicaSet, DeleteReplicaSet, EditTemplate, ChangePlacement,
               NamespaceAppears, SyncReplicaSet
    <3>3. worker.todo # {} /\ c = Min(worker.todo)
      <4>1. child'[c].st # "live" /\ child' # child
        BY <1>1, <1>5, SMTT(30) DEF Child
      <4>2. CASE applyReplicaSetCluster
        BY <1>1, <4>1, <4>2 DEF applyReplicaSetCluster, DeleteCall
      <4>3. CASE pruneReplicaSetChildren \/ deleteReplicaSetChildren
        BY <1>1, <4>1, <4>3, SMTT(30) DEF pruneReplicaSetChildren, deleteReplicaSetChildren,
           DeleteCall
      <4>. QED
        BY <3>2, <4>2, <4>3
    <3>4. c \in worker.todo /\ worker.pc # "idle"
      BY <3>2, <3>3, MinOf DEF IInv, TypeOK, Pass, applyReplicaSetCluster,
         pruneReplicaSetChildren, deleteReplicaSetChildren
    <3>5. worker.kids[c].st # "none"
      <4>1. CASE applyReplicaSetCluster
        <5>1. child'[c].st = "deleting"
          BY <1>1, <1>5 DEF Child
        <5>. QED
          BY <1>1, <1>5, <3>1, <3>3, <4>1, <5>1, SMTT(30) DEF applyReplicaSetCluster
      <4>2. CASE worker.pc # "apply"
        BY <3>4, <4>2, SMTT(30) DEF IInv, TodoInv
      <4>. QED
        BY <3>2, <4>1, <4>2 DEF pruneReplicaSetChildren, deleteReplicaSetChildren
    <3>. QED
      BY <3>4, <3>5 DEF IInv, TodoInv
  <2>2. Earlier(c, worker.kids[c]) /\ child[c].owner # 0
    BY <2>1 DEF IInv, ChildInv, Whole
  <2>3. child[c].owner \in UIDs /\ child[c].owner \in Nat /\ worker.copy.uid \in Nat
    BY <1>1, <1>5, <2>2, UIDStep, Constants, SMTT(30) DEF Child
  <2>4. worker.copy.uid <= child[c].owner
    BY <2>1, <2>2, <2>3 DEF Earlier
  <2>5. child[c].owner <= worker.copy.uid
    BY <1>5, <2>1 DEF IInv, PlantedInv
  <2>. QED
    BY <2>3, <2>4, <2>5
<1>. QED
  BY <1>2, <1>3, <1>4, <1>5, ChildEffect, SMTT(30) DEF ChildStep

\* A role of someone else, or of another ReplicaSet of the name, is not patched, deleted
\* or taken over, whatever the caches show.
THEOREM OthersAreUntouched == Spec => OthersUntouched
<1>1. IInv /\ [Next]_vars
      => [\A c \in Clusters :
            /\ child[c].st = "live" /\ child[c].owner # worker.copy.uid /\ changes' = changes
            /\ child[c].owner = Foreign \/ child[c].spec # 0
            => child'[c] = [child[c] EXCEPT !.ready = child'[c].ready]]_vars
  BY OthersStep
<1>. QED
  BY <1>1, Invariance, PTL DEF Spec, OthersUntouched

\* A live ReplicaSet that has the finalizer keeps it, also in the step that deletes the
\* ReplicaSet, although after clearCleanupBlocked the copy of a finalizing pass may be a
\* later one.
FinalizerKept == [][rs.st = "live" /\ rs.fin => rs'.fin]_vars

\* So deleting a ReplicaSet always goes through reconcileReplicaSetDelete once it has been
\* reconciled.
THEOREM FinalizerIsKept == Spec => FinalizerKept
<1>1. ASSUME IInv, Next, rs.st = "live", rs.fin PROVE rs'.fin
  <2>1. rs \in ReplicaSet
    BY <1>1 DEF IInv, TypeOK
  <2>2. CASE removeFinalizer
    BY <1>1, <2>2 DEF removeFinalizer, IInv, FinalizerInv, Deleting
  <2>3. CASE ensureFinalizer \/ DeleteReplicaSet \/ EditTemplate
    <3>1. \/ rs' = [rs EXCEPT !.fin = TRUE] \/ rs' = [rs EXCEPT !.st = "deleting"]
          \/ rs' = [rs EXCEPT !.tpl = @ + 1]
      BY <1>1, <2>3 DEF ensureFinalizer, DeleteReplicaSet, EditTemplate
    <3>. QED
      BY <1>1, <2>1, <3>1 DEF ReplicaSet
  <2>. QED
    BY <1>1, <2>2, <2>3, RsStep, ZenonT(30) DEF SyncReplicaSet, CreateReplicaSet, RsKept
<1>2. IInv /\ [Next]_vars
      => [rs.st = "live" /\ rs.fin => rs'.fin]_vars
  BY <1>1
<1>. QED
  BY <1>2, Invariance, PTL DEF Spec, FinalizerKept
================================================================================
