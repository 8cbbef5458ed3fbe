-------------------------- MODULE RoleChildrenProofs ---------------------------
(***************************************************************************)
(* Proofs about the generated ACK children of one role name, for any       *)
(* number of objects of the name, edits and errors: objects of other       *)
(* controllers are never touched, a pass over an earlier object of the     *)
(* name does not delete the children of the present one, and the           *)
(* finalizer of a live role stays.                                         *)
(***************************************************************************)
EXTENDS RoleChildren, TLAPS

----------------------------------------------------------------------------
(* The inductive invariant.                                                *)

Finalizing == {"delete", "recheck", "final"}

\* The cache shows the present object or an earlier one, a pass works on one that the
\* cache has shown, and an object whose deletion has been seen is not live again.
Behind(r) ==
  /\ r.uid <= role.uid
  /\ r.uid = role.uid /\ r.st = "deleting" => role.st # "live"

UIDInv ==
  /\ role.st # "none" => role.uid \in UIDs
  /\ Behind(roleCache)
  /\ worker.pc # "idle" => worker.copy.uid <= roleCache.uid /\ Behind(worker.copy)
  /\ worker.pc \in Finalizing => worker.copy.st = "deleting"

\* Only the controller sets the finalizer, on the object that the cache shows: while
\* there is one, no finalizing pass is about an earlier object.
FinalizerInv ==
  /\ role.fin => role.st # "none" /\ roleCache.uid = role.uid
  /\ role.fin /\ worker.pc \in Finalizing => role.st = "deleting"

\* A child belongs to an object that a pass has worked on, so no pass is about an
\* earlier one.
OwnerInv ==
  \A k \in Kinds : child[k].owner \in UIDs =>
    /\ child[k].owner <= roleCache.uid
    /\ worker.pc # "idle" => child[k].owner <= worker.copy.uid

\* What another controller owns is as it was from the start, and the cache knows.
ForeignInv ==
  \A k \in Kinds :
    /\ child[k].owner = Foreign => child[k] = StrangerChild("foreign")
    /\ child[k].owner = Foreign <=> childCache[k].owner = Foreign
    /\ childCache[k].owner = Foreign => childCache[k] = StrangerChild("foreign")

IInv == TypeOK /\ UIDInv /\ FinalizerInv /\ OwnerInv /\ ForeignInv

----------------------------------------------------------------------------
(* Type correctness.                                                       *)

\* The numbers and records the model is made of.
LEMMA Constants ==
  /\ UIDs \subseteq Nat /\ UIDs \subseteq 0 .. MaxUID /\ 0 \in 0 .. MaxUID /\ 0 \notin UIDs
  /\ 0 .. MaxUID \subseteq UIDs \cup {0}
  /\ Foreign \notin 0 .. MaxUID /\ Bare \notin 0 .. MaxUID /\ Foreign # Bare
  /\ \A u \in 0 .. MaxUID : NoRole(u) \in RoleObject
  /\ NoChild \in Child /\ NoChild.owner = 0 /\ NoChild.st = "none"
  /\ Idle \in Pass
<1>1. /\ UIDs \subseteq Nat /\ UIDs \subseteq 0 .. MaxUID /\ 0 \in 0 .. MaxUID /\ 0 \notin UIDs
      /\ 0 .. MaxUID \subseteq UIDs \cup {0}
      /\ Foreign \notin 0 .. MaxUID /\ Bare \notin 0 .. MaxUID /\ Foreign # Bare
  BY BoundsAssumption DEF UIDs, Foreign, Bare
<1>2. \A u \in 0 .. MaxUID : NoRole(u) \in RoleObject
  BY DEF NoRole, RoleObject
<1>3. NoChild \in Child /\ NoChild.owner = 0 /\ NoChild.st = "none"
  BY DEF NoChild, Child
<1>4. Idle \in Pass
  BY <1>1, <1>2 DEF Idle, Pass, DeliveryTypes
<1>. QED
  BY <1>1, <1>2, <1>3, <1>4

\* An object of another controller is a child, live and synced.
LEMMA Strange ==
  ASSUME NEW o \in {"foreign", "bare"}
  PROVE  /\ StrangerChild(o) \in Child
         /\ StrangerChild(o).st = "live" /\ StrangerChild(o).synced
         /\ StrangerChild(o).owner = Foreign <=> o = "foreign"
BY Constants DEF StrangerChild, Child

\* A Delete by name changes the object with that name only, and gives it no owner.
LEMMA DeleteEffect ==
  ASSUME TypeOK, NEW k \in Kinds, DeleteCall(k)
  PROVE  /\ child' \in [Kinds -> Child]
         /\ \A j \in Kinds \ {k} : child'[j] = child[j]
         /\ child'[k].owner \in {0, child[k].owner}
<1>1. child \in [Kinds -> Child] /\ child[k] \in Child
  BY DEF TypeOK
<1>2. CASE child' = child
  BY <1>1, <1>2
<1>3. CASE child' = [child EXCEPT ![k].st = "deleting"]
  <2>1. [child[k] EXCEPT !.st = "deleting"] \in Child
    BY <1>1 DEF Child
  <2>. QED
    BY <1>1, <1>3, <2>1 DEF Child
<1>4. CASE child' = [child EXCEPT ![k] = NoChild]
  BY <1>1, <1>4, Constants
<1>. QED
  BY <1>2, <1>3, <1>4 DEF DeleteCall

\* What createOrUpdate writes is owned by the object of the pass, and it leaves alone
\* what another controller owns and what is being deleted.
LEMMA ApplyEffect ==
  ASSUME TypeOK, ForeignInv, NEW k \in Kinds, NEW a \in BOOLEAN, createOrUpdate(k, a)
  PROVE  /\ child' \in [Kinds -> Child]
         /\ \A j \in Kinds \ {k} : child'[j] = child[j]
         /\ \/ child'[k] = child[k]
            \/ /\ child[k].owner # Foreign /\ child'[k].owner = worker.copy.uid
               /\ child[k].st = "live" => child'[k].st = "live"
<1>1. child \in [Kinds -> Child] /\ child[k] \in Child /\ childCache[k] \in Child
  BY DEF TypeOK
<1>2. worker.copy.uid \in UIDs \cup {0, Foreign, Bare}
  BY Constants DEF TypeOK, Pass, RoleObject
<1>3. CASE /\ childCache[k].st = "none" /\ child[k].st = "none"
           /\ child' = [child EXCEPT ![k] = [st |-> "live", owner |-> worker.copy.uid,
                                             synced |-> FALSE, attached |-> a]]
  <2>1. child[k].owner # Foreign
    BY <1>3, Strange DEF ForeignInv
  <2>2. [st |-> "live", owner |-> worker.copy.uid, synced |-> FALSE, attached |-> a] \in Child
    BY <1>2 DEF Child
  <2>. QED
    BY <1>1, <1>3, <2>1, <2>2
<1>4. CASE child' = child
  BY <1>1, <1>4
<1>5. CASE /\ Controllable(k) /\ child[k] = childCache[k]
           /\ child' = [child EXCEPT ![k] =
                [childCache[k] EXCEPT !.owner = worker.copy.uid, !.attached = a]]
  <2>1. child[k].owner # Foreign
    BY <1>5, Constants DEF Controllable
  <2>2. [childCache[k] EXCEPT !.owner = worker.copy.uid, !.attached = a] \in Child
    BY <1>1, <1>2, Zenon DEF Child
  <2>3. /\ [childCache[k] EXCEPT !.owner = worker.copy.uid, !.attached = a].owner
             = worker.copy.uid
        /\ [childCache[k] EXCEPT !.owner = worker.copy.uid, !.attached = a].st
             = childCache[k].st
    BY <1>1 DEF Child
  <2>. QED
    BY <1>1, <1>5, <2>1, <2>2, <2>3
<1>. QED
  BY <1>3, <1>4, <1>5 DEF createOrUpdate

----------------------------------------------------------------------------
(* What a step may do.                                                     *)

\* A pass goes on with its copy, ends, or starts with what the cache shows; and one
\* that finalizes has started as such.
PassStep ==
  \/ worker' = worker
  \/ worker' = Idle
  \/ /\ worker.pc # "idle" /\ worker'.copy = worker.copy
     /\ worker'.pc \in Finalizing => worker.pc \in Finalizing
  \/ /\ worker.pc = "idle" /\ worker'.copy = roleCache
     /\ worker'.pc \in Finalizing => roleCache.st = "deleting"

\* An object of another controller stays; of the others a step may remove one, or make
\* it the pass's.
ChildStep ==
  \A k \in Kinds :
    \/ child'[k] = child[k]
    \/ /\ child[k].owner # Foreign
       /\ \/ child'[k].owner \in {0, child[k].owner}
          \/ worker.pc # "idle" /\ child'[k].owner = worker.copy.uid

WorkerType(w) == w \in Pass /\ (w.pc \in {"delete", "recheck"} => w.kind \in Kinds)

\* Where a pass may go.
LEMMA GotoEffect ==
  ASSUME WorkerType(worker), worker.pc # "idle",
         NEW pc \in {"role", "pia", "recheck"}, NEW kind \in Kinds \cup {"none"},
         pc = "recheck" => kind \in Kinds /\ worker.pc \in Finalizing,
         Goto(pc, kind)
  PROVE  WorkerType(worker)' /\ PassStep
<1>1. worker' \in Pass /\ worker'.pc = pc /\ worker'.kind = kind /\ worker'.copy = worker.copy
  BY Zenon DEF Goto, WorkerType, Pass
<1>. QED
  BY <1>1 DEF WorkerType, PassStep, Finalizing

LEMMA ProceedEffect ==
  ASSUME WorkerType(worker), worker.pc \in {"delete", "recheck"}, NEW b \in BOOLEAN, Proceed(b)
  PROVE  WorkerType(worker)' /\ PassStep
<1>1. worker \in Pass /\ worker.kind \in Kinds
  BY DEF WorkerType
<1>2. NextChild(worker.kind) \in Kinds \cup {"none"}
  BY <1>1 DEF NextChild, Kinds
<1>3. /\ worker' \in Pass /\ worker'.copy = worker.copy /\ worker'.kind = NextChild(worker.kind)
      /\ worker'.pc = IF NextChild(worker.kind) = "none" THEN "final" ELSE "delete"
  BY <1>1, <1>2, Zenon DEF Proceed, Pass
<1>. QED
  BY <1>2, <1>3 DEF WorkerType, PassStep, Finalizing

LEMMA EndEffect ==
  ASSUME EndPass
  PROVE  WorkerType(worker)' /\ PassStep
BY Constants DEF EndPass, WorkerType, PassStep, Idle

LEMMA StartEffect ==
  ASSUME TypeOK, NEW pc \in {"policy", "delete"}, NEW kind \in Kinds \cup {"none"},
         pc = "delete" => kind \in Kinds /\ roleCache.st = "deleting",
         StartPass(pc, kind)
  PROVE  WorkerType(worker)' /\ PassStep
<1>1. worker' \in Pass /\ worker'.pc = pc /\ worker'.kind = kind /\ worker'.copy = roleCache
  BY DEF StartPass, TypeOK, Pass
<1>. QED
  BY <1>1 DEF StartPass, WorkerType, PassStep, Finalizing

\* The effect of a step that writes child k as createOrUpdate or Delete do.
LEMMA AppliedEffect ==
  ASSUME IInv, NEW k \in Kinds, NEW a \in BOOLEAN, createOrUpdate(k, a), worker.pc # "idle"
  PROVE  child' \in [Kinds -> Child] /\ ChildStep
BY ApplyEffect DEF ChildStep, IInv

LEMMA DeletedEffect ==
  ASSUME IInv, NEW k \in Kinds, DeleteCall(k), child[k].owner # Foreign
  PROVE  child' \in [Kinds -> Child] /\ ChildStep
BY DeleteEffect DEF ChildStep, IInv

\* What isRoleChildOwnedBy accepts belongs to no other controller, on the server either.
LEMMA OwnedIsOurs ==
  ASSUME IInv, NEW k \in Kinds, isRoleChildOwnedBy(k)
  PROVE  child[k].owner # Foreign
<1>1. worker.copy.uid # Foreign
  BY Constants DEF IInv, TypeOK, Pass, RoleObject
<1>. QED
  BY <1>1 DEF isRoleChildOwnedBy, IInv, ForeignInv

LEMMA PolicyEffect ==
  ASSUME IInv, reconcileGeneratedPolicy
  PROVE  WorkerType(worker)' /\ PassStep /\ child' \in [Kinds -> Child] /\ ChildStep
<1>1. WorkerType(worker) /\ worker.pc = "policy" /\ "Policy" \in Kinds
  BY DEF IInv, TypeOK, WorkerType, reconcileGeneratedPolicy, Kinds
<1>2. child' = child => child' \in [Kinds -> Child] /\ ChildStep
  BY DEF IInv, TypeOK, ChildStep
<1>3. CASE DeleteCall("Policy") /\ isRoleChildOwnedBy("Policy") /\ Goto("role", "none")
  BY <1>1, <1>3, OwnedIsOurs, DeletedEffect, GotoEffect
<1>4. CASE child' = child /\ Goto("role", "none")
  BY <1>1, <1>2, <1>4, GotoEffect
<1>5. CASE /\ createOrUpdate("Policy", FALSE)
           /\ worker' = [worker EXCEPT !.pc = "role", !.arn = childCache["Policy"].synced]
  <2>1. childCache["Policy"].synced \in BOOLEAN
    BY <1>1 DEF IInv, TypeOK, Child
  <2>2. worker' \in Pass /\ worker'.pc = "role" /\ worker'.copy = worker.copy
    BY <1>1, <1>5, <2>1, Zenon DEF WorkerType, Pass
  <2>3. WorkerType(worker)' /\ PassStep
    BY <1>1, <2>2 DEF WorkerType, PassStep, Finalizing
  <2>. QED
    BY <1>1, <1>5, <2>3, AppliedEffect, Zenon
<1>6. CASE EndPass /\ child' = child
  BY <1>2, <1>6, EndEffect
<1>. QED
  BY <1>3, <1>4, <1>5, <1>6, Zenon DEF reconcileGeneratedPolicy

LEMMA RoleEffect ==
  ASSUME IInv, reconcileIAMRole \/ reconcilePodIdentityAssociation
  PROVE  WorkerType(worker)' /\ PassStep /\ child' \in [Kinds -> Child] /\ ChildStep
<1>1. WorkerType(worker) /\ worker.pc \in {"role", "pia"} /\ worker.arn \in BOOLEAN
  BY Zenon DEF IInv, TypeOK, WorkerType, Pass, reconcileIAMRole, reconcilePodIdentityAssociation
<1>2. WorkerType(worker)' /\ PassStep
  BY <1>1, EndEffect, GotoEffect, Zenon DEF reconcileIAMRole, reconcilePodIdentityAssociation
<1>3. CASE child' = child
  BY <1>2, <1>3 DEF IInv, TypeOK, ChildStep
<1>4. CASE \/ createOrUpdate("Role", worker.arn)
           \/ createOrUpdate("PodIdentityAssociation", FALSE)
  <2>1. "Role" \in Kinds /\ "PodIdentityAssociation" \in Kinds
    BY DEF Kinds
  <2>. QED
    BY <1>1, <1>2, <1>4, <2>1, AppliedEffect, Zenon
<1>. QED
  BY <1>3, <1>4, Zenon DEF reconcileIAMRole, reconcilePodIdentityAssociation

LEMMA RemovalEffect ==
  ASSUME IInv, deleteRoleChildIfOwned \/ recheckRoleChild
  PROVE  WorkerType(worker)' /\ PassStep /\ child' \in [Kinds -> Child] /\ ChildStep
<1>1. WorkerType(worker) /\ worker.pc \in {"delete", "recheck"} /\ worker.kind \in Kinds
  BY Zenon DEF IInv, TypeOK, WorkerType, deleteRoleChildIfOwned, recheckRoleChild
<1>2. ASSUME NEW b \in BOOLEAN, Proceed(b) PROVE WorkerType(worker)' /\ PassStep
  BY <1>1, <1>2, ProceedEffect
<1>3. CASE recheckRoleChild
  <2>1. WorkerType(worker)' /\ PassStep
    BY <1>2, <1>3, Zenon DEF recheckRoleChild
  <2>. QED
    BY <1>3, <2>1 DEF recheckRoleChild, IInv, TypeOK, ChildStep
<1>4. CASE deleteRoleChildIfOwned
  <2>1. WorkerType(worker)' /\ PassStep
    <3>1. Goto("recheck", worker.kind) => WorkerType(worker)' /\ PassStep
      BY <1>1, GotoEffect DEF Finalizing
    <3>. QED
      BY <1>2, <1>4, <3>1, Zenon DEF deleteRoleChildIfOwned
  <2>2. CASE child' = child
    BY <2>1, <2>2 DEF IInv, TypeOK, ChildStep
  <2>3. CASE isRoleChildOwnedBy(worker.kind) /\ DeleteCall(worker.kind)
    BY <1>1, <2>1, <2>3, OwnedIsOurs, DeletedEffect
  <2>. QED
    BY <1>4, <2>2, <2>3, Zenon DEF deleteRoleChildIfOwned
<1>. QED
  BY <1>3, <1>4

LEMMA EnvironmentEffect ==
  ASSUME IInv, NEW k \in Kinds, ACKSync(k) \/ CollectGarbage(k)
  PROVE  child' \in [Kinds -> Child] /\ ChildStep
<1>1. child \in [Kinds -> Child] /\ child[k] \in Child
  BY DEF IInv, TypeOK
<1>2. child[k].owner = Foreign => child[k].st = "live" /\ child[k].synced
  <2>1. HAVE child[k].owner = Foreign
  <2>2. child[k] = StrangerChild("foreign")
    BY <2>1 DEF IInv, ForeignInv
  <2>. QED
    BY <2>2, Strange
<1>3. CASE CollectGarbage(k)
  BY <1>3, DeletedEffect, Constants, Zenon DEF CollectGarbage
<1>4. CASE child[k].st = "live" /\ ~child[k].synced /\ child' = [child EXCEPT ![k].synced = TRUE]
  <2>1. [child[k] EXCEPT !.synced = TRUE] \in Child
    BY <1>1, Zenon DEF Child
  <2>. QED
    BY <1>1, <1>2, <1>4, <2>1 DEF ChildStep, Child
<1>5. CASE child[k].st = "deleting" /\ child' = [child EXCEPT ![k] = NoChild]
  BY <1>1, <1>2, <1>5, Constants DEF ChildStep
<1>. QED
  BY <1>3, <1>4, <1>5 DEF ACKSync

\* Every step keeps the types and does to the children and to the pass what it may.
LEMMA StepEffect ==
  ASSUME IInv, Next
  PROVE  TypeOK' /\ PassStep /\ ChildStep
<1>1. TypeOK /\ WorkerType(worker)
  BY DEF IInv, TypeOK, WorkerType
<1>2. NoRole(role.uid) \in RoleObject
  BY <1>1, Constants DEF TypeOK, RoleObject
<1>3. UNCHANGED worker => WorkerType(worker)' /\ PassStep
  BY <1>1 DEF WorkerType, PassStep
<1>4. UNCHANGED child => child' \in [Kinds -> Child] /\ ChildStep
  BY <1>1 DEF TypeOK, ChildStep
<1>5. UNCHANGED <<role, roleCache, childCache, delivery, changes>>
      => /\ role' \in RoleObject /\ roleCache' \in RoleObject /\ delivery' \in DeliveryTypes
         /\ childCache' \in [Kinds -> Child] /\ changes' \in 0 .. MaxChanges
  BY <1>1 DEF TypeOK
<1>6. Change => changes' \in 0 .. MaxChanges
  BY <1>1, BoundsAssumption DEF TypeOK, Change
<1>7. CASE ensureFinalizer \/ CreateRole \/ DeleteRole \/ EditRole \/ SwitchDelivery \/ SyncRole
  <2>1. role' \in RoleObject
    <3>1. CASE ensureFinalizer \/ DeleteRole \/ EditRole
      <4>1. role' \in {NoRole(role.uid), [role EXCEPT !.st = "deleting"],
                        [role EXCEPT !.doc = ~@], [role EXCEPT !.fin = TRUE]}
        BY <3>1 DEF ensureFinalizer, DeleteRole, EditRole
      <4>. QED
        BY <1>1, <1>2, <4>1, Zenon DEF TypeOK, RoleObject
    <3>2. CASE CreateRole
      BY <1>1, <3>2, BoundsAssumption DEF CreateRole, TypeOK, RoleObject
    <3>. QED
      BY <1>1, <1>7, <3>1, <3>2 DEF SwitchDelivery, SyncRole, TypeOK
  <2>2. /\ roleCache' \in RoleObject /\ delivery' \in DeliveryTypes
        /\ childCache' \in [Kinds -> Child] /\ changes' \in 0 .. MaxChanges
        /\ UNCHANGED <<worker, child>>
    BY <1>1, <1>6, <1>7 DEF ensureFinalizer, CreateRole, DeleteRole, EditRole,
                            SwitchDelivery, SyncRole, TypeOK
  <2>. QED
    BY <1>3, <1>4, <2>1, <2>2 DEF TypeOK, WorkerType
<1>8. CASE reconcileGeneratedPolicy
  BY <1>5, <1>8, PolicyEffect, Zenon DEF reconcileGeneratedPolicy, hubVars, TypeOK, WorkerType
<1>9. CASE reconcileIAMRole \/ reconcilePodIdentityAssociation
  BY <1>5, <1>9, RoleEffect, Zenon
     DEF reconcileIAMRole, reconcilePodIdentityAssociation, hubVars, TypeOK, WorkerType
<1>10. CASE deleteRoleChildIfOwned \/ recheckRoleChild
  BY <1>5, <1>10, RemovalEffect, Zenon
     DEF deleteRoleChildIfOwned, recheckRoleChild, hubVars, TypeOK, WorkerType
<1>11. CASE reconcileNormal \/ reconcileDelete
  <2>1. WorkerType(worker)' /\ PassStep
    BY <1>1, <1>11, StartEffect DEF reconcileNormal, reconcileDelete, Kinds
  <2>. QED
    BY <1>4, <1>5, <1>11, <2>1 DEF reconcileNormal, reconcileDelete, hubVars, TypeOK, WorkerType
<1>12. CASE removeFinalizer
  <2>1. role' \in {role, NoRole(role.uid), [role EXCEPT !.fin = FALSE]}
    BY <1>12 DEF removeFinalizer
  <2>2. role' \in RoleObject
    BY <1>2, <1>1, <2>1, Zenon DEF TypeOK, RoleObject
  <2>3. /\ roleCache' \in RoleObject /\ delivery' \in DeliveryTypes
        /\ childCache' \in [Kinds -> Child] /\ changes' \in 0 .. MaxChanges
        /\ UNCHANGED child /\ EndPass
    BY <1>1, <1>12 DEF removeFinalizer, TypeOK
  <2>. QED
    BY <1>4, <2>2, <2>3, EndEffect DEF TypeOK, WorkerType
<1>13. CASE abortPass
  <2>1. /\ role' \in RoleObject /\ roleCache' \in RoleObject /\ delivery' \in DeliveryTypes
        /\ childCache' \in [Kinds -> Child] /\ changes' \in 0 .. MaxChanges
        /\ UNCHANGED child /\ EndPass
    BY <1>1, <1>6, <1>13 DEF abortPass, hubVars, TypeOK
  <2>. QED
    BY <1>4, <2>1, EndEffect DEF TypeOK, WorkerType
<1>14. ASSUME NEW k \in Kinds, Environment(k) PROVE TypeOK' /\ PassStep /\ ChildStep
  <2>1. CASE ACKSync(k) \/ CollectGarbage(k)
    BY <1>3, <1>5, <2>1, EnvironmentEffect DEF ACKSync, CollectGarbage, hubVars, TypeOK, WorkerType
  <2>2. CASE SyncChild(k)
    <3>1. childCache' \in [Kinds -> Child]
      BY <1>1, <2>2 DEF SyncChild, TypeOK
    <3>. QED
      BY <1>1, <1>3, <1>4, <2>2, <3>1 DEF SyncChild, hubVars, TypeOK, WorkerType
  <2>. QED
    BY <1>14, <2>1, <2>2 DEF Environment
<1>. QED
  BY <1>7, <1>8, <1>9, <1>10, <1>11, <1>12, <1>13, <1>14 DEF Next, Worker, Users

----------------------------------------------------------------------------
(* The inductive step.                                                     *)

\* What a step may do to the object on the server and to its cached copy.
LEMMA RoleStep ==
  ASSUME IInv, Next
  PROVE  \/ UNCHANGED <<role, roleCache>>
         \/ SyncRole
         \/ ensureFinalizer
         \/ removeFinalizer /\ role' # role
         \/ CreateRole \/ DeleteRole \/ EditRole
<1>1. ASSUME NEW k \in Kinds, Environment(k) PROVE UNCHANGED <<role, roleCache>>
  BY <1>1 DEF Environment, ACKSync, CollectGarbage, SyncChild, hubVars
<1>. QED
  BY <1>1, Zenon DEF Next, Worker, Users, reconcileNormal, reconcileGeneratedPolicy,
     reconcileIAMRole,
     reconcilePodIdentityAssociation, reconcileDelete, deleteRoleChildIfOwned, recheckRoleChild,
     removeFinalizer, abortPass, SwitchDelivery, hubVars

\* Uids only grow, and a role that is not live stays so until it gets the next uid.
LEMMA RoleGrows ==
  ASSUME IInv, Next
  PROVE  /\ role.uid <= role'.uid
         /\ role'.uid = role.uid /\ role'.st # "none" => role.st # "none"
         /\ role'.uid = role.uid /\ role'.st = "live" => role.st = "live"
         /\ roleCache' \in {roleCache, role}
<1>1. role \in RoleObject /\ role.uid \in Nat
  BY DEF IInv, TypeOK, RoleObject
<1>2. CASE removeFinalizer
  <2>1. role' \in {role, NoRole(role.uid), [role EXCEPT !.fin = FALSE]} /\ roleCache' = roleCache
    BY <1>2 DEF removeFinalizer
  <2>. QED
    BY <1>1, <2>1 DEF NoRole, RoleObject
<1>3. CASE DeleteRole \/ EditRole \/ ensureFinalizer
  <2>1. /\ \/ role' = NoRole(role.uid)
           \/ role' = [role EXCEPT !.st = "deleting"] /\ role.st = "live"
           \/ role' = [role EXCEPT !.doc = ~@] /\ role.st = "live"
           \/ role' = [role EXCEPT !.fin = TRUE]
        /\ roleCache' = roleCache
    BY <1>3 DEF DeleteRole, EditRole, ensureFinalizer
  <2>. QED
    BY <1>1, <2>1 DEF NoRole, RoleObject
<1>4. CASE CreateRole
  BY <1>1, <1>4 DEF CreateRole
<1>. QED
  BY <1>1, <1>2, <1>3, <1>4, RoleStep DEF SyncRole

LEMMA UIDStep ==
  ASSUME IInv, Next
  PROVE  UIDInv'
<1>1. TypeOK /\ TypeOK' /\ UIDInv /\ PassStep
  BY StepEffect DEF IInv
<1>2. /\ role.uid \in Nat /\ role'.uid \in Nat /\ roleCache.uid \in Nat /\ roleCache'.uid \in Nat
      /\ worker.copy.uid \in Nat
  BY <1>1 DEF TypeOK, RoleObject, Pass
<1>3. ASSUME NEW r, r.uid \in Nat, Behind(r)
      PROVE  r.uid <= role'.uid /\ (r.uid = role'.uid /\ r.st = "deleting" => role'.st # "live")
  BY <1>2, <1>3, RoleGrows DEF Behind
<1>4. Behind(role)
  BY <1>2 DEF Behind
<1>5. role'.st # "none" => role'.uid \in UIDs
  <2>1. CASE role'.uid = role.uid
    BY <1>1, <2>1, RoleGrows DEF UIDInv
  <2>2. CASE role'.uid # role.uid
    BY <1>1, <1>2, <2>2, RoleGrows DEF TypeOK, RoleObject, UIDs
  <2>. QED
    BY <2>1, <2>2
<1>6. Behind(roleCache)'
  BY <1>1, <1>2, <1>3, <1>4, RoleGrows DEF Behind, UIDInv
<1>7. roleCache.uid <= roleCache'.uid
  BY <1>1, <1>2, RoleGrows DEF UIDInv, Behind
<1>8. worker.pc # "idle"
      => /\ worker.copy.uid <= roleCache'.uid /\ worker.copy.uid <= role'.uid
         /\ worker.copy.uid = role'.uid /\ worker.copy.st = "deleting" => role'.st # "live"
  BY <1>1, <1>2, <1>3, <1>7 DEF UIDInv
<1>9. /\ roleCache.uid <= roleCache'.uid /\ roleCache.uid <= role'.uid
      /\ roleCache.uid = role'.uid /\ roleCache.st = "deleting" => role'.st # "live"
  BY <1>1, <1>2, <1>3, <1>7 DEF UIDInv
<1>10. worker'.pc # "idle"
       => /\ worker'.copy.uid <= roleCache'.uid /\ worker'.copy.uid <= role'.uid
          /\ worker'.copy.uid = role'.uid /\ worker'.copy.st = "deleting" => role'.st # "live"
  <2>1. SUFFICES ASSUME worker'.pc # "idle"
                 PROVE  \/ worker.pc # "idle" /\ worker'.copy = worker.copy
                        \/ worker'.copy = roleCache
    BY <1>8, <1>9
  <2>2. worker' # Idle
    BY <2>1 DEF Idle
  <2>. QED
    BY <1>1, <2>1, <2>2 DEF PassStep
<1>11. worker'.pc \in Finalizing => worker'.copy.st = "deleting"
  <2>1. "idle" \notin Finalizing
    BY DEF Finalizing
  <2>. QED
    BY <1>1, <2>1 DEF PassStep, UIDInv, Idle
<1>. QED
  BY <1>5, <1>6, <1>10, <1>11 DEF UIDInv, Behind

LEMMA FinalizerStep ==
  ASSUME IInv, Next
  PROVE  FinalizerInv'
<1>1. TypeOK /\ UIDInv /\ FinalizerInv /\ PassStep /\ role \in RoleObject
  BY StepEffect DEF IInv, TypeOK
<1>2. CASE UNCHANGED <<role, roleCache>>
  <2>1. role'.fin => role'.st # "none" /\ roleCache'.uid = role'.uid
    BY <1>1, <1>2 DEF FinalizerInv
  <2>2. ASSUME role.fin, worker'.pc \in Finalizing PROVE role.st = "deleting"
    <3>1. CASE worker.pc \in Finalizing
      BY <1>1, <2>2, <3>1 DEF FinalizerInv
    <3>2. CASE worker.pc \notin Finalizing
      <4>1. roleCache.st = "deleting"
        BY <1>1, <2>2, <3>2 DEF PassStep, Idle, Finalizing
      <4>2. role.st \notin {"live", "none"}
        BY <1>1, <2>2, <4>1 DEF UIDInv, Behind, FinalizerInv
      <4>. QED
        BY <1>1, <4>2 DEF RoleObject
    <3>. QED
      BY <3>1, <3>2
  <2>. QED
    BY <1>2, <2>1, <2>2 DEF FinalizerInv
<1>3. CASE SyncRole
  BY <1>1, <1>3 DEF SyncRole, FinalizerInv
<1>4. CASE ensureFinalizer
  <2>1. role'.uid = role.uid /\ role'.st = role.st
    BY <1>1, <1>4 DEF ensureFinalizer, RoleObject
  <2>. QED
    BY <1>4, <2>1 DEF ensureFinalizer, FinalizerInv, Finalizing
<1>5. CASE removeFinalizer /\ role' # role
  <2>1. role' \in {NoRole(role.uid), [role EXCEPT !.fin = FALSE]}
    BY <1>5 DEF removeFinalizer
  <2>2. ~ role'.fin
    BY <1>1, <2>1 DEF NoRole, RoleObject
  <2>. QED
    BY <2>2 DEF FinalizerInv
<1>6. CASE CreateRole
  BY <1>6 DEF CreateRole, FinalizerInv
<1>7. CASE DeleteRole
  <2>1. CASE ~role.fin
    BY <1>7, <2>1 DEF DeleteRole, NoRole, FinalizerInv
  <2>2. CASE role.fin
    <3>1. role'.uid = role.uid /\ role'.st = "deleting"
      BY <1>1, <1>7, <2>2 DEF DeleteRole, RoleObject
    <3>. QED
      BY <1>1, <1>7, <2>2, <3>1 DEF DeleteRole, FinalizerInv
  <2>. QED
    BY <2>1, <2>2
<1>8. CASE EditRole
  <2>1. role'.uid = role.uid /\ role'.st = role.st /\ role'.fin = role.fin /\ role.st = "live"
    BY <1>1, <1>8 DEF EditRole, RoleObject
  <2>. QED
    BY <1>1, <1>8, <2>1 DEF EditRole, FinalizerInv
<1>. QED
  BY <1>2, <1>3, <1>4, <1>5, <1>6, <1>7, <1>8, RoleStep

LEMMA OwnerStep ==
  ASSUME IInv, Next
  PROVE  OwnerInv'
<1>1. TypeOK /\ UIDInv /\ OwnerInv /\ PassStep /\ ChildStep /\ UIDs \subseteq Nat /\ 0 \notin UIDs
  BY StepEffect, Constants DEF IInv
<1>2. /\ role.uid \in Nat /\ roleCache.uid \in Nat /\ worker.copy.uid \in Nat
      /\ roleCache.uid <= role.uid /\ roleCache' \in {roleCache, role}
  BY <1>1, RoleGrows DEF TypeOK, RoleObject, Pass, UIDInv, Behind
<1>3. SUFFICES ASSUME NEW k \in Kinds, child'[k].owner \in UIDs
               PROVE  /\ child'[k].owner <= roleCache'.uid
                      /\ worker'.pc # "idle" => child'[k].owner <= worker'.copy.uid
  BY DEF OwnerInv
<1>4. CASE child'[k].owner = child[k].owner
  <2>1. /\ child[k].owner <= roleCache.uid
        /\ worker.pc # "idle" => child[k].owner <= worker.copy.uid
    BY <1>1, <1>3, <1>4 DEF OwnerInv
  <2>2. worker'.pc # "idle" => child[k].owner <= worker'.copy.uid
    BY <1>1, <2>1 DEF PassStep, Idle
  <2>3. child[k].owner <= roleCache'.uid
    <3>1. child[k].owner \in Nat
      BY <1>1, <1>3, <1>4, Zenon
    <3>. QED
      BY <1>2, <2>1, <3>1
  <2>. QED
    BY <1>4, <2>2, <2>3
<1>5. CASE worker.pc # "idle" /\ child'[k].owner = worker.copy.uid
  <2>1. worker.copy.uid <= roleCache.uid /\ worker.copy.uid <= roleCache'.uid
    BY <1>1, <1>2, <1>5 DEF UIDInv
  <2>2. worker'.pc # "idle" => worker'.copy = worker.copy
    BY <1>1, <1>5 DEF PassStep, Idle
  <2>. QED
    BY <1>2, <1>5, <2>1, <2>2
<1>. QED
  BY <1>1, <1>3, <1>4, <1>5 DEF ChildStep

\* A cached child is left alone or becomes what the server has.
LEMMA CacheStep ==
  ASSUME TypeOK, Next
  PROVE  \A k \in Kinds : childCache'[k] \in {childCache[k], child[k]}
<1>1. ASSUME NEW j \in Kinds, SyncChild(j)
      PROVE  \A k \in Kinds : childCache'[k] \in {childCache[k], child[k]}
  BY <1>1 DEF SyncChild, TypeOK
<1>2. ASSUME ~ \E j \in Kinds : SyncChild(j) PROVE childCache' = childCache
  <2>1. ASSUME NEW j \in Kinds, Environment(j) PROVE childCache' = childCache
    BY <1>2, <2>1 DEF Environment, ACKSync, CollectGarbage
  <2>. QED
    BY <2>1, Zenon DEF Next, Worker, Users, ensureFinalizer, reconcileNormal,
       reconcileGeneratedPolicy,
       reconcileIAMRole, reconcilePodIdentityAssociation, reconcileDelete,
       deleteRoleChildIfOwned, recheckRoleChild, removeFinalizer, abortPass, CreateRole,
       DeleteRole, EditRole, SwitchDelivery, SyncRole
<1>. QED
  BY <1>1, <1>2

\* A child of another controller stays, and no step makes one.
LEMMA ForeignKept ==
  ASSUME IInv, Next, NEW k \in Kinds
  PROVE  child[k].owner = Foreign \/ child'[k].owner = Foreign => child'[k] = child[k]
<1>1. worker.copy.uid # Foreign /\ Foreign # 0
  BY Constants DEF IInv, TypeOK, Pass, RoleObject
<1>. QED
  BY <1>1, StepEffect DEF ChildStep

LEMMA ForeignStep ==
  ASSUME IInv, Next
  PROVE  ForeignInv'
<1>1. ForeignInv /\ TypeOK
  BY DEF IInv
<1>2. SUFFICES ASSUME NEW k \in Kinds
               PROVE  /\ child'[k].owner = Foreign => child'[k] = StrangerChild("foreign")
                      /\ child'[k].owner = Foreign <=> childCache'[k].owner = Foreign
                      /\ childCache'[k].owner = Foreign
                         => childCache'[k] = StrangerChild("foreign")
  BY Zenon DEF ForeignInv, Foreign, StrangerChild, Bare
<1>3. child'[k].owner = Foreign <=> child[k].owner = Foreign
  BY ForeignKept
<1>. QED
  BY <1>1, <1>3, ForeignKept, CacheStep DEF ForeignInv

\* The invariant holds at the start, whatever objects have the names.
LEMMA InitInv ==
  ASSUME Init
  PROVE  IInv
<1>1. child \in [Kinds -> Child] /\ \A k \in Kinds : \/ child[k] = NoChild
                                                     \/ child[k] = StrangerChild("foreign")
                                                     \/ child[k] = StrangerChild("bare")
  <2>1. CASE child = [k \in Kinds |-> NoChild]
    BY <2>1, Constants
  <2>2. CASE \E s \in Strangers :
               child = [k \in Kinds |-> IF k = s[1] THEN StrangerChild(s[2]) ELSE NoChild]
    <3>1. PICK s \in Strangers :
               child = [k \in Kinds |-> IF k = s[1] THEN StrangerChild(s[2]) ELSE NoChild]
      BY <2>2
    <3>2. s[2] \in {"foreign", "bare"}
      BY StrangersAssumption
    <3>. QED
      BY <3>1, <3>2, Constants, Strange
  <2>. QED
    BY <2>1, <2>2 DEF Init
<1>2. /\ role = NoRole(0) /\ roleCache = NoRole(0) /\ worker = Idle /\ childCache = child
      /\ delivery \in DeliveryTypes /\ changes = 0
  BY DeliveriesAssumption DEF Init
<1>3. TypeOK
  BY <1>1, <1>2, Constants, BoundsAssumption DEF TypeOK, Idle
<1>4. UIDInv /\ FinalizerInv
  BY <1>2 DEF UIDInv, FinalizerInv, Behind, Idle, NoRole, Finalizing
<1>5. \A k \in Kinds : child[k].owner \notin UIDs
  BY <1>1, Constants, BoundsAssumption DEF StrangerChild, Foreign, Bare, UIDs
<1>6. ForeignInv
  BY <1>1, <1>2, Constants, Strange DEF ForeignInv
<1>. QED
  BY <1>3, <1>4, <1>5, <1>6 DEF IInv, OwnerInv

\* ... and every step keeps it.
LEMMA NextInv ==
  ASSUME IInv, [Next]_vars
  PROVE  IInv'
<1>1. CASE Next
  BY <1>1, StepEffect, UIDStep, FinalizerStep, OwnerStep, ForeignStep DEF IInv
<1>2. CASE UNCHANGED vars
  BY <1>2 DEF IInv, vars, TypeOK, UIDInv, Behind, FinalizerInv, OwnerInv, ForeignInv
<1>. QED
  BY <1>1, <1>2

----------------------------------------------------------------------------
(* The theorems.                                                           *)

\* The inductive invariant holds of every state.
THEOREM Invariance == Spec => []IInv
<1>. QED
  BY InitInv, NextInv, PTL DEF Spec

\* Every state has its type, whichever objects of other controllers hold the generated
\* names; in particular the deletion loop ends behind the last child.
THEOREM TypeCorrect == Spec => []TypeOK
<1>1. IInv => TypeOK
  BY DEF IInv
<1>. QED
  BY <1>1, Invariance, PTL

\* What another controller owns is never changed or deleted: neither createOrUpdate nor
\* deleteRoleChildIfOwned, which decide on a cached copy, hits it.
THEOREM ForeignIsUntouched == Spec => ForeignUntouched
<1>1. IInv /\ [Next]_vars
      => [\A k \in Kinds : child[k].owner = Foreign => child'[k] = child[k]]_vars
  BY ForeignKept
<1>. QED
  BY <1>1, Invariance, PTL DEF Spec, ForeignUntouched

\* A child that a step takes from a live role is the policy of a pass that saw no
\* document.
LEMMA LiveChildStep ==
  ASSUME IInv, Next, NEW k \in Kinds,
         role.st = "live", child[k].st = "live", child[k].owner = role.uid,
         child'[k].st # "live"
  PROVE  k = "Policy" /\ ~worker.copy.doc
<1>1. TypeOK /\ UIDInv /\ OwnerInv /\ ForeignInv /\ child[k] \in Child
  BY DEF IInv, TypeOK
<1>2. /\ role.uid \in Nat /\ roleCache.uid \in Nat /\ worker.copy.uid \in Nat
      /\ role.uid \in UIDs
  BY <1>1 DEF TypeOK, RoleObject, Pass, UIDInv
<1>3. ASSUME NEW j \in Kinds, NEW a \in BOOLEAN, createOrUpdate(j, a) PROVE FALSE
  BY <1>1, <1>3, ApplyEffect
<1>4. ASSUME NEW j \in Kinds, DeleteCall(j) PROVE k = j
  BY <1>1, <1>4, DeleteEffect
<1>5. CASE deleteRoleChildIfOwned
  <2>1. worker.pc = "delete" /\ worker.kind \in Kinds /\ child' # child
    BY <1>1, <1>5 DEF deleteRoleChildIfOwned, TypeOK
  <2>2. worker.copy.st = "deleting" /\ Behind(worker.copy)
    BY <1>1, <2>1 DEF UIDInv, Finalizing
  <2>3. role.uid <= worker.copy.uid
    BY <1>1, <1>2, <2>1 DEF OwnerInv
  <2>. QED
    BY <1>2, <2>2, <2>3 DEF Behind
<1>6. CASE reconcileGeneratedPolicy
  <2>1. "Policy" \in Kinds
    BY DEF Kinds
  <2>. QED
    BY <1>3, <1>4, <1>6, <2>1, Zenon DEF reconcileGeneratedPolicy
<1>7. CASE reconcileIAMRole \/ reconcilePodIdentityAssociation
  <2>1. worker.arn \in BOOLEAN /\ "Role" \in Kinds /\ "PodIdentityAssociation" \in Kinds
    BY <1>1 DEF TypeOK, Pass, Kinds
  <2>. QED
    BY <1>3, <1>7, <2>1, Zenon DEF reconcileIAMRole, reconcilePodIdentityAssociation
<1>8. ASSUME NEW j \in Kinds, Environment(j) PROVE FALSE
  <2>1. CASE CollectGarbage(j)
    BY <1>4, <2>1 DEF CollectGarbage
  <2>2. CASE ACKSync(j)
    <3>1. CASE child' = [child EXCEPT ![j].synced = TRUE]
      BY <1>1, <3>1 DEF TypeOK, Child
    <3>2. CASE child[j].st = "deleting" /\ child' = [child EXCEPT ![j] = NoChild]
      BY <1>1, <3>2 DEF TypeOK
    <3>. QED
      BY <2>2, <3>1, <3>2 DEF ACKSync
  <2>. QED
    BY <1>8, <2>1, <2>2 DEF Environment, SyncChild
<1>. QED
  BY <1>5, <1>6, <1>7, <1>8 DEF Next, Worker, Users, ensureFinalizer, reconcileNormal,
     reconcileDelete, recheckRoleChild, removeFinalizer, abortPass, CreateRole, DeleteRole,
     EditRole, SwitchDelivery, SyncRole

\* However many objects of the name follow each other, and however far the caches lag,
\* a child of the live one is deleted only as the policy of a pass that saw no document.
THEOREM LiveChildrenAreKept == Spec => LiveChildrenKept
<1>1. IInv /\ [Next]_vars
      => [\A k \in Kinds :
            /\ role.st = "live"
            /\ child[k].st = "live" /\ child[k].owner = role.uid /\ child'[k].st # "live"
            => k = "Policy" /\ ~worker.copy.doc]_vars
  BY LiveChildStep
<1>. QED
  BY <1>1, Invariance, PTL DEF Spec, LiveChildrenKept

\* A live role that has the finalizer keeps it, also in the step that deletes the role.
\* removeFinalizer itself does not look at the deletionTimestamp, and after
\* clearRoleDeletionBlocked its copy may be a later object of the name.
FinalizerKept == [][role.st = "live" /\ role.fin => role'.fin]_vars

\* So deleting a role always goes through reconcileDelete once it has been reconciled.
THEOREM FinalizerIsKept == Spec => FinalizerKept
<1>1. ASSUME IInv, Next, role.st = "live", role.fin PROVE role'.fin
  <2>1. role \in RoleObject
    BY <1>1 DEF IInv, TypeOK
  <2>2. CASE removeFinalizer
    BY <1>1, <2>2 DEF removeFinalizer, IInv, FinalizerInv, Finalizing
  <2>3. CASE ensureFinalizer \/ DeleteRole \/ EditRole
    <3>1. role' \in {[role EXCEPT !.fin = TRUE], [role EXCEPT !.st = "deleting"],
                     [role EXCEPT !.doc = ~@]}
      BY <1>1, <2>3 DEF ensureFinalizer, DeleteRole, EditRole
    <3>. QED
      BY <1>1, <2>1, <3>1 DEF RoleObject
  <2>. QED
    BY <1>1, <2>2, <2>3, RoleStep DEF SyncRole, CreateRole
<1>2. IInv /\ [Next]_vars
      => [role.st = "live" /\ role.fin => role'.fin]_vars
  BY <1>1
<1>. QED
  BY <1>2, Invariance, PTL DEF Spec, FinalizerKept
================================================================================
