----------------------------- MODULE RoleChildren ------------------------------
(***************************************************************************)
(* The ACK children that the role controller generates for one             *)
(* AWSServiceAccountRole name, over the successive objects (uids) of that  *)
(* name: how a pass applies and prunes them, how finalization deletes      *)
(* them, and what ACK, the garbage collector and foreign objects with the  *)
(* same generated names do meanwhile.                                      *)
(*                                                                         *)
(* A step is one API call with the cached reads before it.  The remote     *)
(* annotation cleanup and the status are RoleBinding's.                    *)
(***************************************************************************)
EXTENDS Naturals

CONSTANTS
  Deliveries, \* spec.type the namespace config starts with
  MaxUID,     \* how many objects of the name are created, one after the other
  Strangers,  \* <<kind, owner>> of objects that may already hold a generated name
  MaxChanges  \* bound on edits of the role and of the config and on errors

ASSUME BoundsAssumption == MaxUID \in Nat /\ MaxChanges \in Nat

UIDs == 1 .. MaxUID

\* Owners that are not objects of the name: another controller, and no controllerRef.
Foreign == MaxUID + 1

Bare == MaxUID + 2

VARIABLES
  role,        \* the object on the hub API server
  roleCache,   \* ... and in the informer cache
  child,       \* child[k]: the ACK object of kind k with the generated name
  childCache,
  delivery,    \* spec.type of the namespace config
  worker,      \* the reconcile pass in flight
  changes      \* edits and errors so far

vars == <<role, roleCache, child, childCache, delivery, worker, changes>>

hubVars == <<role, roleCache, delivery>>

Kinds == {"PodIdentityAssociation", "Role", "Policy"}

ASSUME StrangersAssumption == Strangers \subseteq Kinds \X {"foreign", "bare"}

DeliveryTypes == {"EKSIRSA", "EKSPodIdentity"}

ASSUME DeliveriesAssumption == Deliveries \subseteq DeliveryTypes

\* doc: is there a spec.policyDocument?  uid 0 before the first object.
RoleObject == [uid : 0 .. MaxUID,
               st  : {"none", "live", "deleting"},
               fin : BOOLEAN,
               doc : BOOLEAN]

\* owner: the uid of the controllerRef; synced: ACK has reported the ARN; attached: spec.policies of
\* the IAM Role lists the generated policy.
Child == [st       : {"none", "live", "deleting"},
          owner    : UIDs \cup {0, Foreign, Bare},
          synced   : BOOLEAN,
          attached : BOOLEAN]

NoChild == [st |-> "none", owner |-> 0, synced |-> FALSE, attached |-> FALSE]

StrangerChild(o) ==
  [st |-> "live", owner |-> IF o = "bare" THEN Bare ELSE Foreign,
   synced |-> TRUE, attached |-> FALSE]

\* copy: the cached role the pass works on; arn: status.generatedPolicyARN is
\* known; pending: some child was still there after its Delete.
Pass == [pc       : {"idle", "policy", "role", "pia", "delete", "recheck", "final"},
         kind     : Kinds \cup {"none"},
         copy     : RoleObject,
         delivery : DeliveryTypes,
         arn      : BOOLEAN,
         pending  : BOOLEAN]

\* No object; u is the uid of the last one.
NoRole(u) == [uid |-> u, st |-> "none", fin |-> FALSE, doc |-> FALSE]

Idle == [pc |-> "idle", kind |-> "none", copy |-> NoRole(0), delivery |-> "EKSIRSA",
         arn |-> FALSE, pending |-> FALSE]

TypeOK ==
  /\ role \in RoleObject /\ roleCache \in RoleObject
  /\ child \in [Kinds -> Child] /\ childCache \in [Kinds -> Child]
  /\ delivery \in DeliveryTypes
  /\ worker \in Pass /\ (worker.pc \in {"delete", "recheck"} => worker.kind \in Kinds)
  /\ changes \in 0 .. MaxChanges

Init ==
  /\ role = NoRole(0) /\ roleCache = NoRole(0)
  /\ \/ child = [k \in Kinds |-> NoChild]
     \/ \E s \in Strangers :
          child = [k \in Kinds |-> IF k = s[1] THEN StrangerChild(s[2]) ELSE NoChild]
  /\ childCache = child
  /\ delivery \in Deliveries
  /\ worker = Idle
  /\ changes = 0

Change == changes < MaxChanges /\ changes' = changes + 1

Goto(pc, kind) == worker' = [worker EXCEPT !.pc = pc, !.kind = kind]

EndPass == worker' = Idle

StartPass(pc, kind) ==
  /\ worker.pc = "idle"
  /\ worker' = [pc |-> pc, kind |-> kind, copy |-> roleCache, delivery |-> delivery,
                arn |-> FALSE, pending |-> FALSE]
--------------------------------------------------------------------------------
(* Reading, applying and deleting one child *)

\* Mutant: any object with the generated name passes for a child.
isRoleChildOwnedBy_ByName(k) == TRUE

isRoleChildOwnedBy(k) == childCache[k].owner = worker.copy.uid

\* controllerutil.SetControllerReference refuses an object that another controller
\* controls.  It compares owners by kind and name, so it takes over, with a new uid,
\* what an earlier object of the name left, and adopts what has no controller.
Controllable(k) == childCache[k].owner \in UIDs \cup {Bare}

\* The Delete call carries no precondition: it hits whatever has the name.  An
\* object that ACK has not touched yet has no finalizer and is gone at once.
DeleteCall(k) ==
  \/ child[k].st = "none" /\ UNCHANGED child
  \/ child[k].st # "none" /\ child' = [child EXCEPT ![k].st = "deleting"]
  \/ /\ child[k].st = "live" /\ ~child[k].synced
     /\ child' = [child EXCEPT ![k] = NoChild]

\* createOrUpdate, when it succeeds: a cached Get, and a Create, an Update with
\* the resourceVersion of the Get, or nothing when nothing differs.
createOrUpdate(k, attached) ==
  \/ /\ childCache[k].st = "none" /\ child[k].st = "none"
     /\ child' = [child EXCEPT ![k] = [st |-> "live", owner |-> worker.copy.uid,
                                       synced |-> FALSE, attached |-> attached]]
  \/ /\ childCache[k].st # "none" /\ Controllable(k)
     /\ LET new == [childCache[k] EXCEPT !.owner = worker.copy.uid, !.attached = attached]
        IN \/ new = childCache[k] /\ UNCHANGED child
           \/ /\ new # childCache[k] /\ child[k] = childCache[k]
              /\ child' = [child EXCEPT ![k] = new]

\* ... and when it fails: AlreadyExists, a foreign controllerRef, or conflicts
\* until the retries are used up.
ApplyFails(k, attached) ==
  \/ childCache[k].st = "none" /\ child[k].st # "none"
  \/ childCache[k].st # "none" /\ ~Controllable(k)
  \/ /\ childCache[k].st # "none" /\ Controllable(k) /\ child[k] # childCache[k]
     /\ [childCache[k] EXCEPT !.owner = worker.copy.uid, !.attached = attached] # childCache[k]
--------------------------------------------------------------------------------
(* reconcileNormal *)

ensureFinalizer ==
  /\ worker.pc = "idle"
  /\ roleCache.st = "live" /\ ~roleCache.fin /\ roleCache = role
  /\ role' = [role EXCEPT !.fin = TRUE]
  /\ UNCHANGED <<roleCache, child, childCache, delivery, worker, changes>>

reconcileNormal ==
  /\ roleCache.st = "live" /\ roleCache.fin
  /\ StartPass("policy", "none")
  /\ UNCHANGED <<hubVars, child, childCache, changes>>

\* Mutant: the pass waits for the policy to go before it touches the IAM Role.
reconcileGeneratedPolicy_Waits ==
  /\ worker.pc = "policy"
  /\ \/ /\ ~worker.copy.doc
        /\ IF childCache["Policy"].st # "none" /\ isRoleChildOwnedBy("Policy")
           THEN DeleteCall("Policy") /\ EndPass
           ELSE UNCHANGED child /\ Goto("role", "none")
     \/ /\ worker.copy.doc
        /\ createOrUpdate("Policy", FALSE)
        /\ worker' = [worker EXCEPT !.pc = "role", !.arn = childCache["Policy"].synced]
     \/ worker.copy.doc /\ ApplyFails("Policy", FALSE) /\ EndPass /\ UNCHANGED child
  /\ UNCHANGED <<hubVars, childCache, changes>>

\* Without a policy document an owned policy is deleted and the pass goes on
\* whether or not it is still there; with one it is applied.
reconcileGeneratedPolicy ==
  /\ worker.pc = "policy"
  /\ \/ /\ ~worker.copy.doc
        /\ IF childCache["Policy"].st # "none" /\ isRoleChildOwnedBy("Policy")
           THEN DeleteCall("Policy")
           ELSE UNCHANGED child
        /\ Goto("role", "none")
     \/ /\ worker.copy.doc
        /\ createOrUpdate("Policy", FALSE)
        /\ worker' = [worker EXCEPT !.pc = "role", !.arn = childCache["Policy"].synced]
     \/ /\ worker.copy.doc
        /\ ApplyFails("Policy", FALSE)
        /\ EndPass
        /\ UNCHANGED child
  /\ UNCHANGED <<hubVars, childCache, changes>>

\* The generated policy is attached once its ARN is known.
reconcileIAMRole ==
  /\ worker.pc = "role"
  /\ \/ /\ createOrUpdate("Role", worker.arn)
        /\ IF childCache["Role"].synced /\ worker.delivery = "EKSPodIdentity"
           THEN Goto("pia", "none")
           ELSE EndPass
     \/ ApplyFails("Role", worker.arn) /\ EndPass /\ UNCHANGED child
  /\ UNCHANGED <<hubVars, childCache, changes>>

reconcilePodIdentityAssociation ==
  /\ worker.pc = "pia"
  /\ \/ createOrUpdate("PodIdentityAssociation", FALSE)
     \/ ApplyFails("PodIdentityAssociation", FALSE) /\ UNCHANGED child
  /\ EndPass
  /\ UNCHANGED <<hubVars, childCache, changes>>
--------------------------------------------------------------------------------
(* reconcileDelete, after the annotation cleanup *)

NextChild(k) == [PodIdentityAssociation |-> "Role", Role |-> "Policy", Policy |-> "none"][k]

\* Mutant: the deletionTimestamp is not looked at.
reconcileDelete_NoTimestamp ==
  /\ roleCache.fin
  /\ StartPass("delete", "PodIdentityAssociation")
  /\ UNCHANGED <<hubVars, child, childCache, changes>>

reconcileDelete ==
  /\ roleCache.st = "deleting" /\ roleCache.fin
  /\ StartPass("delete", "PodIdentityAssociation")
  /\ UNCHANGED <<hubVars, child, childCache, changes>>

\* Mutant: the loop runs past the last child.
Proceed_Past(pending) ==
  worker' = [worker EXCEPT !.pc = "delete", !.kind = NextChild(worker.kind),
                           !.pending = @ \/ pending]

\* The loop over the children: on to the next, or to the decision.
Proceed(pending) ==
  worker' = [worker EXCEPT !.pc = IF NextChild(worker.kind) = "none" THEN "final" ELSE "delete",
                           !.kind = NextChild(worker.kind),
                           !.pending = @ \/ pending]

\* Mutant: an object of someone else counts as a child still to go.
deleteRoleChildIfOwned_WaitsForForeign ==
  /\ worker.pc = "delete"
  /\ LET k == worker.kind IN
     \/ /\ childCache[k].st = "none" \/ ~isRoleChildOwnedBy(k)
        /\ Proceed(childCache[k].st # "none")
        /\ UNCHANGED child
     \/ /\ childCache[k].st # "none" /\ isRoleChildOwnedBy(k)
        /\ DeleteCall(k)
        /\ IF child[k].st = "none" THEN Proceed(FALSE) ELSE Goto("recheck", k)
  /\ UNCHANGED <<hubVars, childCache, changes>>

deleteRoleChildIfOwned ==
  /\ worker.pc = "delete"
  /\ LET k == worker.kind IN
     \/ /\ childCache[k].st = "none" \/ ~isRoleChildOwnedBy(k)
        /\ Proceed(FALSE)
        /\ UNCHANGED child
     \/ /\ childCache[k].st # "none" /\ isRoleChildOwnedBy(k)
        /\ DeleteCall(k)
        /\ IF child[k].st = "none" THEN Proceed(FALSE) ELSE Goto("recheck", k)
  /\ UNCHANGED <<hubVars, childCache, changes>>

\* The second cached Get, which does not look at the owner.
recheckRoleChild ==
  /\ worker.pc = "recheck"
  /\ Proceed(childCache[worker.kind].st # "none")
  /\ UNCHANGED <<hubVars, child, childCache, changes>>

\* Children still pending end the pass; else the finalizer goes, with the
\* resourceVersion of the copy, and with it an object that is being deleted.  Where
\* the copy had the condition DeletionBlocked, clearRoleDeletionBlocked has patched the
\* status by name, and its answer, whatever object has the name now, is the copy.
removeFinalizer ==
  /\ worker.pc = "final"
  /\ \/ worker.pending /\ UNCHANGED role
     \/ /\ ~worker.pending
        /\ \E copy \in {worker.copy, role} :
             role' = IF role # copy \/ ~role.fin THEN role
                     ELSE IF role.st = "deleting" THEN NoRole(role.uid)
                     ELSE [role EXCEPT !.fin = FALSE]
  /\ EndPass
  /\ UNCHANGED <<roleCache, child, childCache, delivery, changes>>

\* An API error or a crash ends the pass where it is.
abortPass ==
  /\ worker.pc # "idle"
  /\ Change
  /\ EndPass
  /\ UNCHANGED <<hubVars, child, childCache>>
--------------------------------------------------------------------------------
(* Users, ACK, the garbage collector and the caches *)

CreateRole ==
  /\ role.st = "none" /\ role.uid < MaxUID
  /\ \E doc \in BOOLEAN :
       role' = [uid |-> role.uid + 1, st |-> "live", fin |-> FALSE, doc |-> doc]
  /\ UNCHANGED <<roleCache, child, childCache, delivery, worker, changes>>

DeleteRole ==
  /\ role.st = "live"
  /\ role' = IF role.fin THEN [role EXCEPT !.st = "deleting"] ELSE NoRole(role.uid)
  /\ UNCHANGED <<roleCache, child, childCache, delivery, worker, changes>>

EditRole ==
  /\ role.st = "live" /\ Change
  /\ role' = [role EXCEPT !.doc = ~@]
  /\ UNCHANGED <<roleCache, child, childCache, delivery, worker>>

\* A config that was force-deleted and created again.
SwitchDelivery ==
  /\ Change
  /\ delivery' \in DeliveryTypes \ {delivery}
  /\ UNCHANGED <<role, roleCache, child, childCache, worker>>

\* ACK reports the ARN, or completes a deletion: AWS keeps a policy that a role
\* still has attached.
ACKSync(k) ==
  /\ \/ /\ child[k].st = "live" /\ ~child[k].synced
        /\ child' = [child EXCEPT ![k].synced = TRUE]
     \/ /\ child[k].st = "deleting"
        /\ k = "Policy" => child["Role"].st = "none" \/ ~child["Role"].attached
        /\ child' = [child EXCEPT ![k] = NoChild]
  /\ UNCHANGED <<hubVars, childCache, worker, changes>>

\* Kubernetes deletes objects whose owner is gone.
CollectGarbage(k) ==
  /\ child[k].st = "live" /\ child[k].owner \in UIDs
  /\ child[k].owner # role.uid \/ role.st = "none"
  /\ DeleteCall(k)
  /\ UNCHANGED <<hubVars, childCache, worker, changes>>

SyncRole ==
  /\ roleCache # role
  /\ roleCache' = role
  /\ UNCHANGED <<role, child, childCache, delivery, worker, changes>>

SyncChild(k) ==
  /\ childCache[k] # child[k]
  /\ childCache' = [childCache EXCEPT ![k] = child[k]]
  /\ UNCHANGED <<hubVars, child, worker, changes>>
--------------------------------------------------------------------------------
Worker ==
  \/ ensureFinalizer \/ reconcileNormal \/ reconcileGeneratedPolicy \/ reconcileIAMRole
  \/ reconcilePodIdentityAssociation
  \/ reconcileDelete \/ deleteRoleChildIfOwned \/ recheckRoleChild \/ removeFinalizer

Users == CreateRole \/ DeleteRole \/ EditRole \/ SwitchDelivery

Environment(k) == ACKSync(k) \/ CollectGarbage(k) \/ SyncChild(k)

Next == Worker \/ abortPass \/ Users \/ SyncRole \/ \E k \in Kinds : Environment(k)

Spec == Init /\ [][Next]_vars

Fairness ==
  /\ WF_vars(Worker) /\ WF_vars(SyncRole)
  /\ \A k \in Kinds : /\ WF_vars(ACKSync(k)) /\ WF_vars(CollectGarbage(k))
                      /\ WF_vars(SyncChild(k))

FairSpec == Spec /\ Fairness
--------------------------------------------------------------------------------
(* Properties *)

\* An object that another controller controls and that holds a generated name is
\* never changed or deleted, neither by a pass that applies nor by one that
\* finalizes.
ForeignUntouched ==
  [][\A k \in Kinds : child[k].owner = Foreign => child'[k] = child[k]]_vars

\* A child of a live role is deleted only as the generated policy of a pass that
\* saw no policy document.  In particular a pass that still works on the previous
\* object of the same name does not delete the children of the present one.
LiveChildrenKept ==
  [][\A k \in Kinds :
       /\ role.st = "live"
       /\ child[k].st = "live" /\ child[k].owner = role.uid /\ child'[k].st # "live"
       => k = "Policy" /\ ~worker.copy.doc]_vars

\* What the children of a live role are in the end.
Converged ==
  /\ child["Role"].st = "live" /\ child["Role"].owner = role.uid
  /\ child["Role"].attached = role.doc
  /\ IF role.doc THEN child["Policy"].st = "live" /\ child["Policy"].owner = role.uid
                 ELSE child["Policy"].owner # role.uid
  /\ delivery = "EKSPodIdentity" => /\ child["PodIdentityAssociation"].st = "live"
                                    /\ child["PodIdentityAssociation"].owner = role.uid

\* A role that stays live, and whose names no foreign object holds, ends up with
\* the children its spec asks for, whatever the previous object of the name left
\* behind and however the policy document was edited.
ChildrenConverge ==
  <>[](role.st = "live" /\ \A k \in Kinds : child[k].owner # Foreign) => <>[]Converged

\* Finalization ends, and when the name is no longer used nothing that was
\* generated for it stays.
NothingLeftBehind ==
  /\ [](role.st = "deleting" => <>(role.st = "none"))
  /\ <>[](role.st = "none") => <>[](\A k \in Kinds : child[k].owner \notin UIDs)

\* The comment on deleteRoleChildIfOwned: the parent must not disappear before
\* its owned ACK children are gone from the API server.
ParentOutlivesChildren ==
  \A k \in Kinds : child[k].owner \in UIDs => role.st # "none" /\ role.uid = child[k].owner
================================================================================
