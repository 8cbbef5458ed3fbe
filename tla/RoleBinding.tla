------------------------------ MODULE RoleBinding ------------------------------
(***************************************************************************)
(* The AWSServiceAccountRole objects that bind ONE remote ServiceAccount,  *)
(* the role controller's worker for each of them, the ServiceAccount       *)
(* repair controller, role admission, the IAM Role ACK child of each role  *)
(* and the informer caches through which the hub objects are read.         *)
(*                                                                         *)
(* A step is one API call, with the in-memory work around it.  Hub reads   *)
(* go to a cache that lags behind the API server; reads of the remote      *)
(* ServiceAccount are live.  The IAM Role ARN of a role is a function of   *)
(* the role, so an ARN is a BOOLEAN on the hub (observed or not) and the   *)
(* role itself in the annotation of the ServiceAccount.                    *)
(***************************************************************************)
EXTENDS Naturals, FiniteSets

CONSTANTS
  Roles,           \* names of AWSServiceAccountRole objects, each used once
  Deletable,       \* the roles that users delete
  ConfigTypes,     \* spec.type the namespace config may be created with
  RepairEnabled,   \* is the remote ServiceAccount controller running?
  Disturbances,    \* the kinds of disturbance the environment may cause
  MaxDisturbances  \* bound on their number

AnnotationTypes == {"SelfHostedIRSA", "EKSIRSA"}

DeliveryTypes == AnnotationTypes \cup {"EKSPodIdentity"}

ASSUME RolesAssumption ==
  {"none", "absent", "repair"} \cap Roles = {} /\ Deletable \subseteq Roles

ASSUME TypesAssumption == ConfigTypes \subseteq DeliveryTypes

ASSUME SwitchAssumption ==
  /\ RepairEnabled \in BOOLEAN
  /\ Disturbances \subseteq {"error", "config", "drift", "ackloss"}
  /\ MaxDisturbances \in Nat

VARIABLES
  role,       \* role[r]: the object on the hub API server
  roleCache,  \* roleCache[r]: the same object as the informer cache shows it
  ack,        \* ack[r]: the ACK IAM Role generated for r
  ackCache,
  cfg,        \* spec.type of AWSWorkloadIdentityConfig/default, or "none"
  cfgCache,
  sa,         \* whose ARN the remote ServiceAccount carries; "none", "absent"
  saFresh,    \* actors whose last read of it still has its resourceVersion
  saQueued,   \* is the ServiceAccount in the repair controller's queue?
  worker,     \* worker[r]: the reconcile pass in flight for r
  repair,     \* the repair pass in flight
  disturbed   \* disturbances so far

vars == <<role, roleCache, ack, ackCache, cfg, cfgCache, sa, saFresh, saQueued,
          worker, repair, disturbed>>

hubVars == <<role, roleCache, ack, ackCache, cfg, cfgCache>>
saVars == <<sa, saFresh, saQueued>>
--------------------------------------------------------------------------------
(* Objects *)

\* The part of AWSServiceAccountRole.status that decides anything:
\* roleARN # "", deliveryType (which fixes resolvedClusterName) and the set of
\* condition types that are True.
Status == [arn   : BOOLEAN,
           dtype : DeliveryTypes \cup {"none"},
           conds : SUBSET {"Ready", "DeletionBlocked"}]

NoStatus == [arn |-> FALSE, dtype |-> "none", conds |-> {}]

RoleObject == [st     : {"none", "live", "deleting", "gone"},
               fin    : BOOLEAN,
               status : Status]

NoRole == [st |-> "none", fin |-> FALSE, status |-> NoStatus]

ACKObject == [st : {"none", "live", "deleting"}, arn : BOOLEAN]

NoACK == [st |-> "none", arn |-> FALSE]

NormalSteps == {"apply", "getsa", "patchsa", "status"}

DeleteSteps == {"dgetsa", "dpatchsa", "dchild", "drecheck", "dfinal"}

\* copy: the cached object the pass started from (its status is beforeStatus);
\* new: the status the pass has computed so far.
Pass == [pc   : {"idle"} \cup NormalSteps \cup DeleteSteps,
         copy : RoleObject,
         new  : Status]

Idle == [pc |-> "idle", copy |-> NoRole, new |-> NoStatus]

RepairPass == [pc     : {"idle", "list", "patch"},
               saw    : Roles \cup {"none"},
               target : Roles \cup {"none"}]

RepairIdle == [pc |-> "idle", saw |-> "none", target |-> "none"]

TypeOK ==
  /\ role \in [Roles -> RoleObject] /\ roleCache \in [Roles -> RoleObject]
  /\ ack \in [Roles -> ACKObject]   /\ ackCache \in [Roles -> ACKObject]
  /\ cfg \in ConfigTypes \cup {"none"} /\ cfgCache \in ConfigTypes \cup {"none"}
  /\ sa \in Roles \cup {"none", "absent"}
  /\ saFresh \subseteq Roles \cup {"repair"}
  /\ saQueued \in BOOLEAN
  /\ worker \in [Roles -> Pass]
  /\ repair \in RepairPass
  /\ disturbed \in 0 .. MaxDisturbances

Init ==
  /\ role = [r \in Roles |-> NoRole] /\ roleCache = [r \in Roles |-> NoRole]
  /\ ack = [r \in Roles |-> NoACK]   /\ ackCache = [r \in Roles |-> NoACK]
  /\ cfg \in ConfigTypes /\ cfgCache = cfg
  /\ sa = "none" /\ saFresh = {} /\ saQueued = FALSE
  /\ worker = [r \in Roles |-> Idle]
  /\ repair = RepairIdle
  /\ disturbed = 0

Disturb(kind) ==
  /\ kind \in Disturbances
  /\ disturbed < MaxDisturbances
  /\ disturbed' = disturbed + 1

\* An update or create event of the ServiceAccount wakes the repair controller
\* when the old or the new object carries the role-arn annotation.
annotationRepairPredicate(old, new) == RepairEnabled /\ {old, new} \cap Roles # {}

\* Any write of the ServiceAccount changes its resourceVersion.
WriteSA(value) ==
  /\ sa' = value
  /\ saFresh' = {}
  /\ saQueued' = (saQueued \/ annotationRepairPredicate(sa, value))
--------------------------------------------------------------------------------
(* The role controller: start of a pass.  A pass may start whenever the cache  *)
(* shows the object: every exit of Reconcile leaves a requeue, an error        *)
(* back-off or an object change behind.                                        *)

failReady(s) == [s EXCEPT !.conds = @ \ {"Ready"}]

setReady(s) == [s EXCEPT !.conds = @ \cup {"Ready"}]

Goto(r, pc, new) ==
  worker' = [worker EXCEPT ![r] = [pc |-> pc, copy |-> worker[r].copy, new |-> new]]

EndPass(r) == worker' = [worker EXCEPT ![r] = Idle]

\* Mutant: the status is replaced, not patched.
MergePatch_Replaces(server, before, new) == {new}

\* The status as a JSON merge patch from before to new leaves it: a field that
\* the pass did not change keeps the server's value.  The condition list is one
\* field, and reasons and messages can change it when no status does.
MergePatch(server, before, new) ==
  {[arn   |-> IF before.arn = new.arn THEN server.arn ELSE new.arn,
    dtype |-> IF before.dtype = new.dtype THEN server.dtype ELSE new.dtype,
    conds |-> c] :
     c \in {new.conds} \cup IF before.conds = new.conds THEN {server.conds} ELSE {}}

Present(r) == role[r].st \in {"live", "deleting"}

patchRoleStatus(r, before, new) ==
  IF Present(r)
  THEN \E s \in MergePatch(role[r].status, before, new) :
          role' = [role EXCEPT ![r].status = s]
  ELSE UNCHANGED role

\* A step that writes nothing else and then patches the status is one step: no
\* one but this worker writes the status, and others see it through a cache.
PatchAndEnd(r, before, new) == patchRoleStatus(r, before, new) /\ EndPass(r)

\* Adding the finalizer carries the resourceVersion of the cached object and is
\* an UPDATE that admission allows only while the cache shows a config.
ensureFinalizer(r) ==
  /\ worker[r].pc = "idle"
  /\ roleCache[r].st = "live" /\ ~roleCache[r].fin
  /\ roleCache[r] = role[r]
  /\ cfgCache # "none"
  /\ role' = [role EXCEPT ![r].fin = TRUE]
  /\ UNCHANGED <<roleCache, ack, ackCache, cfg, cfgCache, saVars, worker, repair,
                 disturbed>>

\* Passes start from the cached object; copy keeps it.
StartPass(r, pc, new) ==
  /\ worker[r].pc = "idle"
  /\ worker' = [worker EXCEPT ![r] = [pc |-> pc, copy |-> roleCache[r], new |-> new]]
--------------------------------------------------------------------------------
(* reconcileNormal *)

\* Mutant: only bindings that already have an ARN count.
conflictingServiceAccountBindingNames_WithARN(r) ==
  {q \in Roles : roleCache[q].st = "live" /\ roleCache[q].status.arn} \cup {r}

\* The cached roles without a deletionTimestamp that bind the ServiceAccount;
\* the role itself counts even when the cache no longer lists it.
conflictingServiceAccountBindingNames(r) ==
  {q \in Roles : roleCache[q].st = "live"} \cup {r}

\* The start of a pass over a live role, up to prepareRoleInputs: cached reads
\* only.  Duplicate binding, missing config and any other missing input lead to
\* a status patch; otherwise the delivery type is recorded in memory.
reconcileNormal(r) ==
  /\ roleCache[r].st = "live" /\ roleCache[r].fin
  /\ LET before == roleCache[r].status
         bound  == conflictingServiceAccountBindingNames(r)
     IN \/ /\ worker[r].pc = "idle"
           /\ \/ (bound # {r} \/ cfgCache = "none") /\ UNCHANGED disturbed
              \/ bound = {r} /\ cfgCache # "none" /\ Disturb("error")
           /\ PatchAndEnd(r, before, failReady(before))
        \/ /\ bound = {r} /\ cfgCache # "none"
           /\ StartPass(r, "apply", [before EXCEPT !.dtype = cfgCache])
           /\ UNCHANGED <<role, disturbed>>
  /\ UNCHANGED <<roleCache, ack, ackCache, cfg, cfgCache, saVars, repair>>

\* Mutant: the annotation is patched first and the context recorded afterwards.
PersistContext_Never(before, new) == FALSE

\* Mutant: the comparison with the recorded context is missing.
PersistContext_Always(before, new) == new.dtype \in AnnotationTypes /\ new.arn

shouldPersistAnnotationDeliveryContextBeforeRemotePatch(before, new) ==
  /\ new.dtype \in AnnotationTypes
  /\ new.arn
  /\ before.arn # new.arn \/ before.dtype # new.dtype

\* Where the pass goes once the IAM Role has been applied and its ARN read.  The
\* readiness of an EKS pod identity association is decided elsewhere.
AfterApply(r, new) ==
  IF shouldPersistAnnotationDeliveryContextBeforeRemotePatch(worker[r].copy.status, new)
  THEN Goto(r, "status", failReady(new))
  ELSE IF new.dtype \in AnnotationTypes /\ new.arn
  THEN Goto(r, "getsa", new)
  ELSE \/ Goto(r, "status", failReady(new))
       \/ new.arn /\ Goto(r, "status", setReady(new))

\* createOrUpdate of the ACK IAM Role: a cached Get, then Create or nothing to
\* update.  A Create behind a stale cache fails with AlreadyExists.
reconcileIAMRole(r) ==
  /\ worker[r].pc = "apply"
  /\ LET new == worker[r].new IN
     \/ /\ ackCache[r].st = "none" /\ ack[r].st = "none"
        /\ ack' = [ack EXCEPT ![r] = [st |-> "live", arn |-> FALSE]]
        /\ AfterApply(r, [new EXCEPT !.arn = FALSE])
        /\ UNCHANGED disturbed
     \/ /\ ackCache[r].st = "none" /\ ack[r].st # "none"
        /\ Goto(r, "status", failReady(new))
        /\ UNCHANGED <<ack, disturbed>>
     \/ /\ ackCache[r].st # "none"
        /\ AfterApply(r, [new EXCEPT !.arn = ackCache[r].arn])
        /\ UNCHANGED <<ack, disturbed>>
     \/ /\ Disturb("error")
        /\ Goto(r, "status", failReady(new))
        /\ UNCHANGED ack
  /\ UNCHANGED <<role, roleCache, ackCache, cfg, cfgCache, saVars, repair>>

\* Mutant: a role that is already Ready does not look at the ServiceAccount.
getServiceAccount_TrustsReady(r) ==
  /\ worker[r].pc = "getsa"
  /\ LET before == worker[r].copy.status
         new    == worker[r].new
     IN \/ /\ "Ready" \in before.conds \/ sa = r
           /\ PatchAndEnd(r, before, setReady(new))
           /\ UNCHANGED saFresh
        \/ /\ "Ready" \notin before.conds /\ sa = "absent"
           /\ PatchAndEnd(r, before, failReady(new))
           /\ UNCHANGED saFresh
        \/ /\ "Ready" \notin before.conds /\ sa \notin {"absent", r}
           /\ Goto(r, "patchsa", new)
           /\ saFresh' = saFresh \cup {r}
           /\ UNCHANGED role
  /\ UNCHANGED <<roleCache, ack, ackCache, cfg, cfgCache, sa, saQueued, repair, disturbed>>

\* patchRemoteServiceAccountAnnotations: the live Get.  An unreachable cluster or
\* a missing ServiceAccount leaves the role not Ready; so does a config that is
\* not Ready itself.
getServiceAccount(r) ==
  /\ worker[r].pc = "getsa"
  /\ LET before == worker[r].copy.status
         new    == worker[r].new
     IN \/ /\ \/ sa = "absent" /\ UNCHANGED disturbed
              \/ Disturb("error")
           /\ PatchAndEnd(r, before, failReady(new))
           /\ UNCHANGED saFresh
        \/ /\ sa = r
           /\ PatchAndEnd(r, before, setReady(new))
           /\ UNCHANGED <<saFresh, disturbed>>
        \/ /\ sa \notin {"absent", r}
           /\ Goto(r, "patchsa", new)
           /\ saFresh' = saFresh \cup {r}
           /\ UNCHANGED <<role, disturbed>>
  /\ UNCHANGED <<roleCache, ack, ackCache, cfg, cfgCache, sa, saQueued, repair>>

\* ... and the Patch, which carries the resourceVersion of the Get.
patchServiceAccount(r) ==
  /\ worker[r].pc = "patchsa"
  /\ \/ /\ r \in saFresh
        /\ WriteSA(r)
        /\ \/ Goto(r, "status", setReady(worker[r].new)) /\ UNCHANGED disturbed
           \/ Goto(r, "status", failReady(worker[r].new)) /\ Disturb("error")
     \/ /\ r \notin saFresh
        /\ Goto(r, "status", failReady(worker[r].new))
        /\ UNCHANGED <<saVars, disturbed>>
  /\ UNCHANGED <<hubVars, repair>>

patchStatus(r) ==
  /\ worker[r].pc = "status"
  /\ patchRoleStatus(r, worker[r].copy.status, worker[r].new)
  /\ EndPass(r)
  /\ UNCHANGED <<roleCache, ack, ackCache, cfg, cfgCache, saVars, repair, disturbed>>
--------------------------------------------------------------------------------
(* reconcileDelete *)

\* Mutant: cleanup looks for an annotation only when the role was Ready.
roleARNForDeletion_WhenReady(r) ==
  roleCache[r].status.arn /\ "Ready" \in roleCache[r].status.conds

\* status.roleARN of the cached object, or the ARN of the cached ACK object.
roleARNForDeletion(r) == roleCache[r].status.arn \/ ackCache[r].arn

markRoleDeletionBlocked(r, before) ==
  PatchAndEnd(r, before, [before EXCEPT !.conds = @ \cup {"DeletionBlocked"}])

\* Mutant: cleanup needs the config although the delivery type is recorded.
deliveryTypeForDeletion_FromConfig(r) == cfgCache

deliveryTypeForDeletion(r) ==
  IF roleCache[r].status.dtype = "none" THEN cfgCache ELSE roleCache[r].status.dtype

\* The start of a pass over a role under deletion, up to the remote cleanup that
\* the recorded delivery type, or without one the config, calls for.
cleanupRemoteServiceAccountAnnotations(r) ==
  /\ worker[r].pc = "idle"
  /\ roleCache[r].st = "deleting"
  /\ LET before   == roleCache[r].status
         delivery == deliveryTypeForDeletion(r)
     IN \/ /\ delivery = "none"
           /\ markRoleDeletionBlocked(r, before)
        \/ /\ delivery \in AnnotationTypes /\ roleARNForDeletion(r)
           /\ StartPass(r, "dgetsa", before)
           /\ UNCHANGED role
        \/ /\ \/ delivery = "EKSPodIdentity"
              \/ delivery \in AnnotationTypes /\ ~roleARNForDeletion(r)
           /\ StartPass(r, "dchild", before)
           /\ UNCHANGED role
  /\ UNCHANGED <<roleCache, ack, ackCache, cfg, cfgCache, saVars, repair, disturbed>>

\* Mutant: a cluster that cannot be reached does not hold the deletion up.
getServiceAccountForRemoval_BestEffort(r) ==
  /\ worker[r].pc = "dgetsa"
  /\ \/ sa # r /\ Goto(r, "dchild", worker[r].new) /\ UNCHANGED <<saFresh, disturbed>>
     \/ /\ sa = r /\ Goto(r, "dpatchsa", worker[r].new)
        /\ saFresh' = saFresh \cup {r} /\ UNCHANGED disturbed
     \/ Goto(r, "dchild", worker[r].new) /\ Disturb("error") /\ UNCHANGED saFresh
  /\ UNCHANGED <<hubVars, sa, saQueued, repair>>

\* removeRemoteServiceAccountAnnotations: the live Get and the guard on the ARN.
getServiceAccountForRemoval(r) ==
  /\ worker[r].pc = "dgetsa"
  /\ \/ /\ sa # r
        /\ Goto(r, "dchild", worker[r].new)
        /\ UNCHANGED <<role, saFresh, disturbed>>
     \/ /\ sa = r
        /\ Goto(r, "dpatchsa", worker[r].new)
        /\ saFresh' = saFresh \cup {r}
        /\ UNCHANGED <<role, disturbed>>
     \/ /\ markRoleDeletionBlocked(r, worker[r].copy.status)
        /\ Disturb("error")
        /\ UNCHANGED saFresh
  /\ UNCHANGED <<roleCache, ack, ackCache, cfg, cfgCache, sa, saQueued, repair>>

\* Mutant: the Patch carries no resourceVersion.
removeServiceAccountAnnotations_NoLock(r) ==
  /\ worker[r].pc = "dpatchsa"
  /\ WriteSA("none")
  /\ Goto(r, "dchild", worker[r].new)
  /\ UNCHANGED <<hubVars, repair, disturbed>>

\* ... and the Patch with the resourceVersion of the Get.  A Patch that is applied
\* and whose answer is lost is a write followed by abortPass.
removeServiceAccountAnnotations(r) ==
  /\ worker[r].pc = "dpatchsa"
  /\ \/ /\ r \in saFresh
        /\ WriteSA("none")
        /\ Goto(r, "dchild", worker[r].new)
        /\ UNCHANGED <<role, disturbed>>
     \/ /\ \/ r \notin saFresh /\ UNCHANGED disturbed
           \/ Disturb("error")
        /\ markRoleDeletionBlocked(r, worker[r].copy.status)
        /\ UNCHANGED saVars
  /\ UNCHANGED <<roleCache, ack, ackCache, cfg, cfgCache, repair>>

\* The Delete half of deleteRoleChildIfOwned.  ACK holds a finalizer at least
\* once it has created the AWS resource.
deleteRoleChildIfOwned(r) ==
  /\ worker[r].pc = "dchild"
  /\ \/ /\ ackCache[r].st = "none" \/ ack[r].st = "none"
        /\ Goto(r, "dfinal", worker[r].new)
        /\ UNCHANGED <<role, ack, disturbed>>
     \/ /\ ackCache[r].st # "none" /\ ack[r].st # "none"
        /\ Goto(r, "drecheck", worker[r].new)
        /\ \/ ack' = [ack EXCEPT ![r].st = "deleting"]
           \/ /\ ack[r] = [st |-> "live", arn |-> FALSE]
              /\ ack' = [ack EXCEPT ![r] = NoACK]
        /\ UNCHANGED <<role, disturbed>>
     \/ /\ Disturb("error")
        /\ markRoleDeletionBlocked(r, worker[r].copy.status)
        /\ UNCHANGED ack
  /\ UNCHANGED <<roleCache, ackCache, cfg, cfgCache, saVars, repair>>

\* The cached Get after the Delete: a child still present blocks the deletion.
recheckRoleChild(r) ==
  /\ worker[r].pc = "drecheck"
  /\ \/ /\ ackCache[r].st = "none"
        /\ Goto(r, "dfinal", worker[r].new)
        /\ UNCHANGED role
     \/ /\ ackCache[r].st # "none"
        /\ markRoleDeletionBlocked(r, worker[r].copy.status)
  /\ UNCHANGED <<roleCache, ack, ackCache, cfg, cfgCache, saVars, repair, disturbed>>

\* The patch response replaces the copy of the object.
clearRoleDeletionBlocked(r) ==
  /\ worker[r].pc = "dfinal"
  /\ LET before == worker[r].copy.status
     IN  /\ "DeletionBlocked" \in before.conds
         /\ patchRoleStatus(r, before, [before EXCEPT !.conds = @ \ {"DeletionBlocked"}])
         /\ IF Present(r)
            THEN worker' = [worker EXCEPT ![r].copy = role'[r]]
            ELSE EndPass(r)
  /\ UNCHANGED <<roleCache, ack, ackCache, cfg, cfgCache, saVars, repair, disturbed>>

\* The finalizer patch carries the resourceVersion of the copy.
removeFinalizer(r) ==
  /\ worker[r].pc = "dfinal"
  /\ "DeletionBlocked" \notin worker[r].copy.status.conds
  /\ role' = IF worker[r].copy = role[r]
             THEN [role EXCEPT ![r] = [@ EXCEPT !.st = "gone", !.fin = FALSE]]
             ELSE role
  /\ EndPass(r)
  /\ UNCHANGED <<roleCache, ack, ackCache, cfg, cfgCache, saVars, repair, disturbed>>

\* An API error that ends the pass without a write, or a crash of the process.
abortPass(r) ==
  /\ worker[r].pc # "idle"
  /\ Disturb("error")
  /\ EndPass(r)
  /\ saFresh' = saFresh \ {r}
  /\ UNCHANGED <<hubVars, sa, saQueued, repair>>
--------------------------------------------------------------------------------
(* The remote ServiceAccount controller *)

\* Mutant: a ServiceAccount that is gone is not skipped.
repairGet_NoNotFound ==
  /\ repair.pc = "idle" /\ saQueued
  /\ saQueued' = FALSE
  /\ repair' = [pc |-> "list", saw |-> sa, target |-> "none"]
  /\ saFresh' = saFresh \cup {"repair"}
  /\ UNCHANGED <<hubVars, sa, worker, disturbed>>

\* resolveAnnotationBasedIRSATarget and the live Get.
repairGet ==
  /\ repair.pc = "idle" /\ saQueued
  /\ saQueued' = FALSE
  /\ IF cfgCache \in AnnotationTypes /\ sa # "absent"
     THEN /\ repair' = [pc |-> "list", saw |-> sa, target |-> "none"]
          /\ saFresh' = saFresh \cup {"repair"}
     ELSE UNCHANGED <<repair, saFresh>>
  /\ UNCHANGED <<hubVars, sa, worker, disturbed>>

activeRolesForServiceAccount == {q \in Roles : roleCache[q].st = "live"}

\* Only a sole active role with an observed ARN is repaired to.
repairList ==
  /\ repair.pc = "list"
  /\ \/ \E q \in Roles :
          /\ activeRolesForServiceAccount = {q}
          /\ roleCache[q].status.arn
          /\ repair.saw # q
          /\ repair' = [repair EXCEPT !.pc = "patch", !.target = q]
     \/ /\ \A q \in Roles : \/ activeRolesForServiceAccount # {q}
                            \/ ~roleCache[q].status.arn
                            \/ repair.saw = q
        /\ repair' = RepairIdle
  /\ saFresh' = IF repair'.pc = "idle" THEN saFresh \ {"repair"} ELSE saFresh
  /\ UNCHANGED <<hubVars, sa, saQueued, worker, disturbed>>

repairPatch ==
  /\ repair.pc = "patch"
  /\ IF "repair" \in saFresh
     THEN WriteSA(repair.target)
     ELSE saQueued' = TRUE /\ UNCHANGED <<sa, saFresh>>
  /\ repair' = RepairIdle
  /\ UNCHANGED <<hubVars, worker, disturbed>>

\* An error requeues the ServiceAccount.
abortRepair ==
  /\ repair.pc # "idle"
  /\ Disturb("error")
  /\ repair' = RepairIdle /\ saQueued' = TRUE /\ saFresh' = saFresh \ {"repair"}
  /\ UNCHANGED <<hubVars, sa, worker>>
--------------------------------------------------------------------------------
(* Users, admission, ACK and the caches *)

\* RoleValidator.ValidateCreate reads the caches.
ValidateCreate ==
  /\ cfgCache # "none"
  /\ \A q \in Roles : roleCache[q].st # "live"

CreateRole(r) ==
  /\ role[r].st = "none"
  /\ ValidateCreate
  /\ role' = [role EXCEPT ![r].st = "live"]
  /\ UNCHANGED <<roleCache, ack, ackCache, cfg, cfgCache, saVars, worker, repair,
                 disturbed>>

DeleteRole(r) ==
  /\ r \in Deletable /\ role[r].st = "live"
  /\ role' = [role EXCEPT ![r].st = IF role[r].fin THEN "deleting" ELSE "gone"]
  /\ UNCHANGED <<roleCache, ack, ackCache, cfg, cfgCache, saVars, worker, repair,
                 disturbed>>

\* ACK creates the AWS role and publishes its ARN, or finishes a deletion.
ACKSync(r) ==
  /\ \/ /\ ack[r] = [st |-> "live", arn |-> FALSE]
        /\ ack' = [ack EXCEPT ![r].arn = TRUE]
     \/ /\ ack[r].st = "deleting"
        /\ ack' = [ack EXCEPT ![r] = NoACK]
  /\ UNCHANGED <<role, roleCache, ackCache, cfg, cfgCache, saVars, worker, repair,
                 disturbed>>

\* Someone deletes the ACK object behind the operator's back.
ACKLoss(r) ==
  /\ ack[r].st = "live"
  /\ Disturb("ackloss")
  /\ ack' = [ack EXCEPT ![r].st = "deleting"]
  /\ UNCHANGED <<role, roleCache, ackCache, cfg, cfgCache, saVars, worker, repair>>

\* A forced deletion of the config, and its re-creation with any type.
ConfigChange ==
  /\ \/ cfg # "none" /\ cfg' = "none" /\ Disturb("config")
     \/ cfg = "none" /\ cfg' \in ConfigTypes /\ UNCHANGED disturbed
  /\ UNCHANGED <<role, roleCache, ack, ackCache, cfgCache, saVars, worker, repair>>

\* A user of the workload cluster strips the annotation, touches the
\* ServiceAccount, deletes it, or creates it.
Drift ==
  /\ \/ sa # "absent" /\ Disturb("drift") /\ \E v \in {"none", sa} : WriteSA(v)
     \/ /\ sa # "absent" /\ Disturb("drift")
        /\ sa' = "absent" /\ saFresh' = {} /\ UNCHANGED saQueued
     \/ sa = "absent" /\ WriteSA("none") /\ UNCHANGED disturbed
  /\ UNCHANGED <<hubVars, worker, repair>>

SyncRole(r) ==
  /\ roleCache[r] # role[r]
  /\ roleCache' = [roleCache EXCEPT ![r] = role[r]]
  /\ UNCHANGED <<role, ack, ackCache, cfg, cfgCache, saVars, worker, repair, disturbed>>

SyncACK(r) ==
  /\ ackCache[r] # ack[r]
  /\ ackCache' = [ackCache EXCEPT ![r] = ack[r]]
  /\ UNCHANGED <<role, roleCache, ack, cfg, cfgCache, saVars, worker, repair, disturbed>>

SyncConfig ==
  /\ cfgCache # cfg
  /\ cfgCache' = cfg
  /\ UNCHANGED <<role, roleCache, ack, ackCache, cfg, saVars, worker, repair, disturbed>>
--------------------------------------------------------------------------------
WorkerNormal(r) ==
  \/ ensureFinalizer(r) \/ reconcileNormal(r) \/ reconcileIAMRole(r)
  \/ getServiceAccount(r) \/ patchServiceAccount(r)
  \/ patchStatus(r)

WorkerDelete(r) ==
  \/ cleanupRemoteServiceAccountAnnotations(r) \/ getServiceAccountForRemoval(r)
  \/ removeServiceAccountAnnotations(r) \/ deleteRoleChildIfOwned(r)
  \/ recheckRoleChild(r) \/ clearRoleDeletionBlocked(r) \/ removeFinalizer(r)

RepairStep == repairGet \/ repairList \/ repairPatch

Users(r) == CreateRole(r) \/ DeleteRole(r)

Environment(r) == ACKSync(r) \/ ACKLoss(r) \/ SyncRole(r) \/ SyncACK(r)

Shared == abortRepair \/ ConfigChange \/ Drift \/ SyncConfig

Next ==
  \/ \E r \in Roles : \/ WorkerNormal(r) \/ WorkerDelete(r) \/ abortPass(r)
                      \/ Users(r) \/ Environment(r)
  \/ RepairStep
  \/ Shared

Spec == Init /\ [][Next]_vars

\* controller-runtime runs queued passes, the informers deliver, ACK acts.
\* Users and disturbances owe nothing.
Fairness ==
  /\ \A r \in Roles : /\ WF_vars(WorkerNormal(r) \/ WorkerDelete(r))
                      /\ WF_vars(ACKSync(r))
                      /\ WF_vars(SyncRole(r))
                      /\ WF_vars(SyncACK(r))
  /\ WF_vars(SyncConfig)
  /\ WF_vars(RepairStep)

FairSpec == Spec /\ Fairness
--------------------------------------------------------------------------------
(* Properties *)

Recorded(o) == o.fin /\ o.status.arn /\ o.status.dtype \in AnnotationTypes

\* What the operator promises about the ServiceAccount, AnnotationCustody: the
\* owner is the role the ServiceAccount names, and the custody record of a role
\* is what the API server holds of it.
Custody == INSTANCE AnnotationCustody WITH
  owner  <- IF sa \in Roles THEN sa ELSE "none",
  record <- [r \in Roles |-> IF role[r].st = "gone" THEN "closed"
                             ELSE IF Recorded(role[r]) THEN "recorded" ELSE "blank"]

\* Without the repair controller and with annotation-based configs only, every
\* step of the role controller, its crashes and its stale caches included, keeps
\* the custody promise.
RefinesCustody == Custody!Spec

\* Once a role object is gone, no ServiceAccount carries its ARN: finalization
\* (reconcileDelete) removed the annotation and nothing put it back.
NoLeakedAnnotation == \A r \in Roles : sa = r => Present(r)

\* As long as the ServiceAccount carries the ARN of a role that exists, the API
\* server holds what the role's finalization needs to find and remove it: the
\* finalizer, the ARN and an annotation-based delivery type.  A pass persists
\* them before it touches the ServiceAccount, whatever its cache showed.
RecordedBeforeDelivered ==
  \A r \in Roles : sa = r /\ Present(r) => Recorded(role[r])

\* The operator does not delete the ACK IAM Role of a role while the
\* ServiceAccount carries its ARN: reconcileDelete cleans up before it deletes.
DeliveryRemovedFirst ==
  [][\A r \in Roles :
       ack[r].st = "live" /\ ack'[r].st # "live" => sa # r \/ disturbed' # disturbed]_vars

\* Only the finalization of the role itself, or a user of the workload cluster,
\* strips its ARN from the ServiceAccount: the cleanup of another role that bound
\* it before, however stale the object that cleanup read, does not.
CleanupSparesOthers ==
  [][\A r \in Roles :
       sa = r /\ sa' = "none" => role[r].st = "deleting" \/ disturbed' # disturbed]_vars

\* o may be a later version of the object c: deletion, the finalizer, the ARN and
\* an annotation-based delivery type, once there, stay.
Later(c, o) ==
  /\ c.st = "live" => o.st # "none"
  /\ c.st = "deleting" => o.st \in {"deleting", "gone"}
  /\ c.st = "gone" => o.st = "gone"
  /\ c.fin => o.fin \/ o.st = "gone"
  /\ c.status.arn => o.status.arn
  /\ c.status.dtype \in AnnotationTypes => o.status.dtype \in AnnotationTypes

CacheBehind(r) == Later(roleCache[r], role[r])

\* Until a deletion pass has started, the ACK object and its ARN stay.
Untouched(r) == worker[r].pc \in NormalSteps \/ roleCache[r].st \in {"none", "live"}

ACKKept(r) ==
  Untouched(r) => /\ ack[r].st # "deleting" /\ ackCache[r].st # "deleting"
                  /\ ackCache[r].st = "live" => ack[r].st = "live"
                  /\ ackCache[r].arn => ack[r].arn /\ ackCache[r].st = "live"
                  /\ ack[r].arn => ack[r].st = "live"
                  /\ role[r].status.arn => ackCache[r].arn

\* A pass over a live role holds an object with the finalizer, and when it
\* touches the ServiceAccount, one that has all of the record.
NormalPass(r) ==
  worker[r].pc \in NormalSteps =>
    /\ worker[r].copy.st = "live" /\ worker[r].copy.fin
    /\ Later(worker[r].copy, roleCache[r])
    /\ role[r].st # "gone"
    /\ worker[r].new.dtype \in AnnotationTypes
    /\ worker[r].copy.status.arn => worker[r].new.arn
    /\ worker[r].new.arn => ackCache[r].arn
    /\ worker[r].pc \in {"getsa", "patchsa"} => Recorded(worker[r].copy)

\* A deletion pass past the cleanup has left no annotation of the role behind.
DeletePass(r) ==
  worker[r].pc \in DeleteSteps =>
    /\ worker[r].copy.st = "deleting"
    /\ role[r].st \in {"deleting", "gone"}
    /\ roleCache[r].st \in {"deleting", "gone"}
    /\ worker[r].pc \in {"dchild", "drecheck", "dfinal"} => sa # r
    /\ worker[r].pc = "dpatchsa" /\ r \in saFresh => sa = r

\* The record of the role that the ServiceAccount names has reached the cache.
OwnerRecorded(r) ==
  sa = r => /\ Recorded(roleCache[r])
            /\ roleCache[r].st \in {"live", "deleting"}
            /\ role[r].st # "gone"

GoneForGood(r) ==
  role[r].st = "gone" => ~(roleCache[r].st = "live" /\ roleCache[r].fin)

\* The role controller is the only writer of the ServiceAccount, every config is
\* annotation-based, and no one deletes ACK objects behind its back.
SoleWriter ==
  ~RepairEnabled /\ ConfigTypes \subseteq AnnotationTypes /\ "ackloss" \notin Disturbances

NoRepair == ~saQueued /\ repair.pc = "idle"

RoleInvariant(r) ==
  /\ CacheBehind(r) /\ ACKKept(r) /\ NormalPass(r)
  /\ DeletePass(r) /\ OwnerRecorded(r) /\ GoneForGood(r)

\* The invariant that makes the safety properties inductive: the cache and every
\* pass hold a past version of a record that only grows, so a deletion pass that
\* skips the cleanup, or finds nothing to clean, is right to.
CustodyInvariant ==
  NoRepair /\ \A r \in Roles : RoleInvariant(r)

\* A role under deletion whose delivery type has been recorded goes away,
\* whatever happens to the config and to the other roles.
DeletionCompletes ==
  \A r \in Roles :
    (role[r].st = "deleting" /\ role[r].status.dtype # "none") ~> (role[r].st = "gone")

\* A role that stays the only live binding, with an annotation-based config and
\* the ServiceAccount in place, ends up delivered and Ready for good, also when it
\* takes the ServiceAccount over from a role whose deletion is under way.
SoleBindingDelivered ==
  \A r \in Roles :
    <>[](/\ {q \in Roles : role[q].st = "live"} = {r}
         /\ cfg \in AnnotationTypes
         /\ sa # "absent")
      => <>[](sa = r /\ "Ready" \in role[r].status.conds)

\* Two roles that both got past admission and stay are both reported not Ready.
ConflictSurfaced ==
  \A q, r \in Roles :
    q # r /\ <>[](role[q].st = "live" /\ role[r].st = "live" /\ role[q].fin)
      => <>[]("Ready" \notin role[q].status.conds)
================================================================================
