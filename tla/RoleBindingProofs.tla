--------------------------- MODULE RoleBindingProofs ---------------------------
(***************************************************************************)
(* Proofs about RoleBinding for every set of roles and any number of       *)
(* disturbances.                                                           *)
(***************************************************************************)
EXTENDS RoleBinding, TLAPS

\* The status updates of a pass (failReady, setReady, a merge patch) yield statuses.
LEMMA StatusTypes ==
  /\ NoStatus \in Status
  /\ \A s \in Status : failReady(s) \in Status /\ setReady(s) \in Status
  /\ \A s, b, n \in Status : \A m \in MergePatch(s, b, n) : m \in Status
<1>1. NoStatus \in Status
  BY DEF NoStatus, Status
<1>2. ASSUME NEW s \in Status
      PROVE  failReady(s) \in Status /\ setReady(s) \in Status
  BY DEF failReady, setReady, Status
<1>3. ASSUME NEW s \in Status, NEW b \in Status, NEW n \in Status,
             NEW m \in MergePatch(s, b, n)
      PROVE  m \in Status
  BY DEF MergePatch, Status
<1>4. QED
  BY <1>1, <1>2, <1>3

\* patchRoleStatus keeps the type of the role objects.
LEMMA PatchTypes ==
  ASSUME TypeOK, NEW r \in Roles, NEW before \in Status, NEW new \in Status,
         patchRoleStatus(r, before, new)
  PROVE  role' \in [Roles -> RoleObject]
<1>1. CASE Present(r)
  <2>1. PICK s \in MergePatch(role[r].status, before, new) :
               role' = [role EXCEPT ![r].status = s]
    BY <1>1 DEF patchRoleStatus
  <2>2. role[r].status \in Status
    BY DEF TypeOK, RoleObject
  <2>3. s \in Status
    BY <2>1, <2>2, StatusTypes
  <2>4. QED
    BY <2>1, <2>3, SMTT(30) DEF TypeOK, RoleObject
<1>2. CASE ~Present(r)
  BY <1>2 DEF patchRoleStatus, TypeOK
<1>3. QED
  BY <1>1, <1>2

\* Starting, continuing and ending a pass keeps the type of the workers.
LEMMA PassTypes ==
  ASSUME TypeOK, NEW r \in Roles, NEW pc \in {"idle"} \cup NormalSteps \cup DeleteSteps,
         NEW new \in Status
  PROVE  /\ Goto(r, pc, new) => worker' \in [Roles -> Pass]
         /\ StartPass(r, pc, new) => worker' \in [Roles -> Pass]
         /\ EndPass(r) => worker' \in [Roles -> Pass]
<1>1. Goto(r, pc, new) => worker' \in [Roles -> Pass]
  BY DEF Goto, TypeOK, Pass
<1>2. StartPass(r, pc, new) => worker' \in [Roles -> Pass]
  BY DEF StartPass, TypeOK, Pass
<1>3. Idle \in Pass
  BY StatusTypes DEF Idle, Pass, NoRole, RoleObject
<1>4. EndPass(r) => worker' \in [Roles -> Pass]
  BY <1>3 DEF EndPass, TypeOK
<1>5. QED
  BY <1>1, <1>2, <1>4

\* A disturbance keeps their number within its bound.
LEMMA DisturbTypes ==
  ASSUME TypeOK, NEW kind
  PROVE  /\ Disturb(kind) => disturbed' \in 0 .. MaxDisturbances
         /\ UNCHANGED disturbed => disturbed' \in 0 .. MaxDisturbances
BY SwitchAssumption DEF Disturb, TypeOK

\* A write of the ServiceAccount keeps the types of what it changes.
LEMMA WriteSATypes ==
  ASSUME TypeOK, NEW value \in Roles \cup {"none", "absent"}, WriteSA(value)
  PROVE  /\ sa' \in Roles \cup {"none", "absent"}
         /\ saFresh' \subseteq Roles \cup {"repair"}
         /\ saQueued' \in BOOLEAN
BY SwitchAssumption DEF WriteSA, annotationRepairPredicate, TypeOK

\* Every step of a reconcileNormal pass keeps the types.
LEMMA NormalTypes ==
  ASSUME TypeOK, NEW r \in Roles, WorkerNormal(r)
  PROVE  TypeOK'
<1> USE DEF PatchAndEnd, hubVars, saVars
<1> DEFINE before == worker[r].copy.status
           new    == worker[r].new
<1>0. /\ roleCache[r].status \in Status /\ before \in Status /\ new \in Status
      /\ cfgCache \in DeliveryTypes \cup {"none"}
      /\ ackCache[r].arn \in BOOLEAN
      /\ failReady(new) \in Status /\ setReady(new) \in Status
  <2>1. roleCache[r].status \in Status /\ before \in Status /\ new \in Status
    BY DEF TypeOK, RoleObject, Pass
  <2>2. cfgCache \in DeliveryTypes \cup {"none"} /\ ackCache[r].arn \in BOOLEAN
    BY TypesAssumption DEF TypeOK, ACKObject
  <2>3. QED
    BY <2>1, <2>2, StatusTypes
<1>1. CASE ensureFinalizer(r)
  BY <1>1, ZenonT(30) DEF ensureFinalizer, TypeOK, RoleObject
<1>2. CASE reconcileNormal(r)
  <2> DEFINE cached == roleCache[r].status
  <2>1. /\ failReady(cached) \in Status
        /\ [cached EXCEPT !.dtype = cfgCache] \in Status
    BY <1>0, StatusTypes DEF Status
  <2>2. role' \in [Roles -> RoleObject] /\ worker' \in [Roles -> Pass]
    <3>1. CASE PatchAndEnd(r, cached, failReady(cached))
      BY <3>1, <1>0, <2>1, PatchTypes, PassTypes
    <3>2. CASE StartPass(r, "apply", [cached EXCEPT !.dtype = cfgCache]) /\ UNCHANGED role
      BY <3>2, <2>1, PassTypes, Zenon DEF NormalSteps, TypeOK
    <3>3. QED
      BY <1>2, <3>1, <3>2 DEF reconcileNormal
  <2>3. disturbed' \in 0 .. MaxDisturbances
    BY <1>2, DisturbTypes DEF reconcileNormal
  <2>4. QED
    BY <1>2, <2>2, <2>3 DEF reconcileNormal, TypeOK
<1>3. CASE reconcileIAMRole(r)
  <2>1. \A a \in BOOLEAN : [new EXCEPT !.arn = a] \in Status
    BY <1>0 DEF Status
  <2>2. ASSUME NEW n \in Status, AfterApply(r, n)
        PROVE  worker' \in [Roles -> Pass]
    BY <2>2, StatusTypes, PassTypes DEF AfterApply, NormalSteps
  <2>3. worker' \in [Roles -> Pass]
    BY <1>3, <1>0, <2>1, <2>2, PassTypes, Zenon DEF reconcileIAMRole, NormalSteps
  <2>4. ack' \in [Roles -> ACKObject]
    <3>1. ack' = ack \/ ack' = [ack EXCEPT ![r] = [st |-> "live", arn |-> FALSE]]
      BY <1>3 DEF reconcileIAMRole
    <3>2. [st |-> "live", arn |-> FALSE] \in ACKObject
      BY DEF ACKObject
    <3>3. QED
      BY <3>1, <3>2, Zenon DEF TypeOK
  <2>5. disturbed' \in 0 .. MaxDisturbances
    BY <1>3, DisturbTypes DEF reconcileIAMRole
  <2>6. QED
    BY <1>3, <2>3, <2>4, <2>5 DEF reconcileIAMRole, TypeOK
<1>4. CASE getServiceAccount(r)
  <2>1. role' \in [Roles -> RoleObject] /\ worker' \in [Roles -> Pass]
    BY <1>4, <1>0, PatchTypes, PassTypes DEF getServiceAccount, NormalSteps, TypeOK
  <2>2. saFresh' \subseteq Roles \cup {"repair"}
    BY <1>4 DEF getServiceAccount, TypeOK
  <2>3. disturbed' \in 0 .. MaxDisturbances
    BY <1>4, DisturbTypes DEF getServiceAccount
  <2>4. QED
    BY <1>4, <2>1, <2>2, <2>3 DEF getServiceAccount, TypeOK
<1>5. CASE patchServiceAccount(r)
  <2>1. worker' \in [Roles -> Pass]
    BY <1>5, <1>0, PassTypes DEF patchServiceAccount, NormalSteps
  <2>2. /\ sa' \in Roles \cup {"none", "absent"}
        /\ saFresh' \subseteq Roles \cup {"repair"}
        /\ saQueued' \in BOOLEAN
    BY <1>5, WriteSATypes DEF patchServiceAccount, TypeOK
  <2>3. disturbed' \in 0 .. MaxDisturbances
    BY <1>5, DisturbTypes DEF patchServiceAccount
  <2>4. QED
    BY <1>5, <2>1, <2>2, <2>3 DEF patchServiceAccount, TypeOK
<1>6. CASE patchStatus(r)
  <2>1. role' \in [Roles -> RoleObject] /\ worker' \in [Roles -> Pass]
    BY <1>6, <1>0, PatchTypes, PassTypes DEF patchStatus
  <2>2. QED
    BY <1>6, <2>1 DEF patchStatus, TypeOK
<1>7. QED
  BY <1>1, <1>2, <1>3, <1>4, <1>5, <1>6 DEF WorkerNormal

\* Every step of a reconcileDelete pass keeps the types.
LEMMA DeleteTypes ==
  ASSUME TypeOK, NEW r \in Roles, WorkerDelete(r)
  PROVE  TypeOK'
<1> USE DEF PatchAndEnd, hubVars, saVars, markRoleDeletionBlocked
<1> DEFINE before == worker[r].copy.status
           new    == worker[r].new
           cached == roleCache[r].status
           blocked(s) == [s EXCEPT !.conds = @ \cup {"DeletionBlocked"}]
<1>0. /\ cached \in Status /\ before \in Status /\ new \in Status
      /\ blocked(cached) \in Status /\ blocked(before) \in Status
      /\ [before EXCEPT !.conds = @ \ {"DeletionBlocked"}] \in Status
  <2>1. cached \in Status /\ before \in Status /\ new \in Status
    BY DEF TypeOK, RoleObject, Pass
  <2>2. QED
    BY <2>1 DEF Status
<1>1. CASE cleanupRemoteServiceAccountAnnotations(r)
  <2>1. role' \in [Roles -> RoleObject] /\ worker' \in [Roles -> Pass]
    <3>1. CASE PatchAndEnd(r, cached, blocked(cached))
      BY <3>1, <1>0, PatchTypes, PassTypes
    <3>2. CASE UNCHANGED role /\ \E pc \in {"dgetsa", "dchild"} : StartPass(r, pc, cached)
      BY <3>2, <1>0, PassTypes, Zenon DEF DeleteSteps, TypeOK
    <3>3. QED
      BY <1>1, <3>1, <3>2 DEF cleanupRemoteServiceAccountAnnotations
  <2>2. QED
    BY <1>1, <2>1 DEF cleanupRemoteServiceAccountAnnotations, TypeOK
<1>2. CASE getServiceAccountForRemoval(r)
  <2>1. role' \in [Roles -> RoleObject] /\ worker' \in [Roles -> Pass]
    <3>1. CASE PatchAndEnd(r, before, blocked(before))
      BY <3>1, <1>0, PatchTypes, PassTypes
    <3>2. CASE UNCHANGED role /\ \E pc \in {"dpatchsa", "dchild"} : Goto(r, pc, new)
      BY <3>2, <1>0, PassTypes, Zenon DEF DeleteSteps, TypeOK
    <3>3. QED
      BY <1>2, <3>1, <3>2 DEF getServiceAccountForRemoval
  <2>2. saFresh' \subseteq Roles \cup {"repair"}
    BY <1>2 DEF getServiceAccountForRemoval, TypeOK
  <2>3. disturbed' \in 0 .. MaxDisturbances
    BY <1>2, DisturbTypes DEF getServiceAccountForRemoval
  <2>4. QED
    BY <1>2, <2>1, <2>2, <2>3 DEF getServiceAccountForRemoval, TypeOK
<1>3. CASE removeServiceAccountAnnotations(r)
  <2>1. role' \in [Roles -> RoleObject] /\ worker' \in [Roles -> Pass]
    <3>1. CASE PatchAndEnd(r, before, blocked(before))
      BY <3>1, <1>0, PatchTypes, PassTypes
    <3>2. CASE UNCHANGED role /\ Goto(r, "dchild", new)
      BY <3>2, <1>0, PassTypes, Zenon DEF DeleteSteps, TypeOK
    <3>3. QED
      BY <1>3, <3>1, <3>2 DEF removeServiceAccountAnnotations
  <2>2. /\ sa' \in Roles \cup {"none", "absent"}
        /\ saFresh' \subseteq Roles \cup {"repair"}
        /\ saQueued' \in BOOLEAN
    BY <1>3, WriteSATypes DEF removeServiceAccountAnnotations, TypeOK
  <2>3. disturbed' \in 0 .. MaxDisturbances
    BY <1>3, DisturbTypes DEF removeServiceAccountAnnotations
  <2>4. QED
    BY <1>3, <2>1, <2>2, <2>3 DEF removeServiceAccountAnnotations, TypeOK
<1>4. CASE deleteRoleChildIfOwned(r)
  <2>1. role' \in [Roles -> RoleObject] /\ worker' \in [Roles -> Pass]
    <3>1. CASE PatchAndEnd(r, before, blocked(before))
      BY <3>1, <1>0, PatchTypes, PassTypes
    <3>2. CASE UNCHANGED role /\ \E pc \in {"drecheck", "dfinal"} : Goto(r, pc, new)
      BY <3>2, <1>0, PassTypes, Zenon DEF DeleteSteps, TypeOK
    <3>3. QED
      BY <1>4, <3>1, <3>2 DEF deleteRoleChildIfOwned
  <2>2. ack' \in [Roles -> ACKObject]
    <3>1. \/ ack' = ack
          \/ ack' = [ack EXCEPT ![r].st = "deleting"]
          \/ ack' = [ack EXCEPT ![r] = NoACK]
      BY <1>4 DEF deleteRoleChildIfOwned
    <3>2. NoACK \in ACKObject
      BY DEF ACKObject, NoACK
    <3>3. ack' = [ack EXCEPT ![r].st = "deleting"] => ack' \in [Roles -> ACKObject]
      BY DEF TypeOK, ACKObject
    <3>4. QED
      BY <3>1, <3>2, <3>3 DEF TypeOK
  <2>3. disturbed' \in 0 .. MaxDisturbances
    BY <1>4, DisturbTypes DEF deleteRoleChildIfOwned
  <2>4. QED
    BY <1>4, <2>1, <2>2, <2>3 DEF deleteRoleChildIfOwned, TypeOK
<1>5. CASE recheckRoleChild(r)
  <2>1. role' \in [Roles -> RoleObject] /\ worker' \in [Roles -> Pass]
    <3>1. CASE PatchAndEnd(r, before, blocked(before))
      BY <3>1, <1>0, PatchTypes, PassTypes
    <3>2. CASE UNCHANGED role /\ Goto(r, "dfinal", new)
      BY <3>2, <1>0, PassTypes, Zenon DEF DeleteSteps, TypeOK
    <3>3. QED
      BY <1>5, <3>1, <3>2 DEF recheckRoleChild
  <2>2. QED
    BY <1>5, <2>1 DEF recheckRoleChild, TypeOK
<1>6. CASE clearRoleDeletionBlocked(r)
  <2>1. role' \in [Roles -> RoleObject]
    BY <1>6, <1>0, PatchTypes DEF clearRoleDeletionBlocked
  <2>2. worker' \in [Roles -> Pass]
    <3>1. CASE worker' = [worker EXCEPT ![r].copy = role'[r]]
      BY <3>1, <2>1, ZenonT(30) DEF TypeOK, Pass
    <3>2. CASE EndPass(r)
      BY <3>2, <1>0, PassTypes
    <3>3. QED
      BY <1>6, <3>1, <3>2 DEF clearRoleDeletionBlocked
  <2>3. QED
    BY <1>6, <2>1, <2>2 DEF clearRoleDeletionBlocked, TypeOK
<1>7. CASE removeFinalizer(r)
  <2>1. role' \in [Roles -> RoleObject]
    <3>1. role[r] \in RoleObject /\ role \in [Roles -> RoleObject]
      BY DEF TypeOK
    <3>2. [role[r] EXCEPT !.st = "gone", !.fin = FALSE] \in RoleObject
      BY <3>1, Zenon DEF RoleObject
    <3>3. QED
      BY <1>7, <3>1, <3>2 DEF removeFinalizer
  <2>2. worker' \in [Roles -> Pass]
    BY <1>7, <1>0, PassTypes DEF removeFinalizer
  <2>3. QED
    BY <1>7, <2>1, <2>2 DEF removeFinalizer, TypeOK
<1>8. QED
  BY <1>1, <1>2, <1>3, <1>4, <1>5, <1>6, <1>7 DEF WorkerDelete

\* Every step of the remote ServiceAccount controller keeps the types.
LEMMA RepairTypes ==
  ASSUME TypeOK, RepairStep \/ abortRepair
  PROVE  TypeOK'
<1> USE DEF hubVars
<1>0. RepairIdle \in RepairPass
  BY DEF RepairIdle, RepairPass
<1>1. CASE repairGet
  <2>1. repair' \in RepairPass
    BY <1>1 DEF repairGet, RepairPass, TypeOK
  <2>2. QED
    BY <1>1, <2>1, Zenon DEF repairGet, TypeOK
<1>2. CASE repairList
  <2>1. repair' \in RepairPass
    <3>1. CASE repair' = RepairIdle
      BY <3>1, <1>0
    <3>2. CASE \E q \in Roles : repair' = [repair EXCEPT !.pc = "patch", !.target = q]
      BY <3>2, Zenon DEF RepairPass, TypeOK
    <3>3. QED
      BY <1>2, <3>1, <3>2, Zenon DEF repairList
  <2>2. saFresh' \subseteq Roles \cup {"repair"}
    BY <1>2, Zenon DEF repairList, TypeOK
  <2>3. QED
    BY <1>2, <2>1, <2>2, Zenon DEF repairList, TypeOK
<1>3. CASE repairPatch
  <2>1. repair.target \in Roles \cup {"none", "absent"}
    BY DEF TypeOK, RepairPass
  <2>2. /\ sa' \in Roles \cup {"none", "absent"}
        /\ saFresh' \subseteq Roles \cup {"repair"}
        /\ saQueued' \in BOOLEAN
    BY <1>3, <2>1, WriteSATypes, Zenon DEF repairPatch, TypeOK
  <2>3. QED
    BY <1>3, <1>0, <2>2 DEF repairPatch, TypeOK
<1>4. CASE abortRepair
  BY <1>4, <1>0, DisturbTypes DEF abortRepair, TypeOK
<1>5. QED
  BY <1>1, <1>2, <1>3, <1>4 DEF RepairStep

\* Users, ACK and the caches keep the types.
LEMMA EnvironmentTypes ==
  ASSUME TypeOK, NEW r \in Roles, Users(r) \/ Environment(r) \/ abortPass(r)
  PROVE  TypeOK'
<1> USE DEF hubVars, saVars
<1>1. CASE CreateRole(r)
  BY <1>1 DEF CreateRole, TypeOK, RoleObject
<1>2. CASE DeleteRole(r)
  BY <1>2, SMTT(30) DEF DeleteRole, TypeOK, RoleObject
<1>3. CASE ACKSync(r)
  <2>1. NoACK \in ACKObject
    BY DEF ACKObject, NoACK
  <2>2. ack' \in [Roles -> ACKObject]
    <3>1. CASE ack' = [ack EXCEPT ![r].arn = TRUE]
      BY <3>1, ZenonT(30) DEF TypeOK, ACKObject
    <3>2. CASE ack' = [ack EXCEPT ![r] = NoACK]
      BY <3>2, <2>1 DEF TypeOK
    <3>3. QED
      BY <1>3, <3>1, <3>2 DEF ACKSync
  <2>3. QED
    BY <1>3, <2>2 DEF ACKSync, TypeOK
<1>4. CASE ACKLoss(r)
  <2>1. ack' \in [Roles -> ACKObject]
    BY <1>4 DEF ACKLoss, TypeOK, ACKObject
  <2>2. QED
    BY <1>4, <2>1, DisturbTypes DEF ACKLoss, TypeOK
<1>5. CASE SyncRole(r)
  BY <1>5 DEF SyncRole, TypeOK
<1>6. CASE SyncACK(r)
  BY <1>6 DEF SyncACK, TypeOK
<1>7. CASE abortPass(r)
  <2>1. worker' \in [Roles -> Pass]
    BY <1>7, StatusTypes, PassTypes DEF abortPass
  <2>2. QED
    BY <1>7, <2>1, DisturbTypes DEF abortPass, TypeOK
<1>8. QED
  BY <1>1, <1>2, <1>3, <1>4, <1>5, <1>6, <1>7 DEF Users, Environment

\* Config changes, drift and errors of the repair controller keep the types.
LEMMA SharedTypes ==
  ASSUME TypeOK, ConfigChange \/ Drift \/ SyncConfig
  PROVE  TypeOK'
<1> USE DEF hubVars, saVars
<1>1. CASE ConfigChange
  <2>1. disturbed' \in 0 .. MaxDisturbances
    BY <1>1, DisturbTypes DEF ConfigChange
  <2>2. QED
    BY <1>1, <2>1 DEF ConfigChange, TypeOK
<1>2. CASE Drift
  <2>1. disturbed' \in 0 .. MaxDisturbances
    BY <1>2, DisturbTypes DEF Drift
  <2>2. /\ sa' \in Roles \cup {"none", "absent"}
        /\ saFresh' \subseteq Roles \cup {"repair"}
        /\ saQueued' \in BOOLEAN
    <3>1. CASE \E v \in {"none", sa} : WriteSA(v)
      BY <3>1, WriteSATypes DEF TypeOK
    <3>2. CASE sa' = "absent" /\ saFresh' = {} /\ UNCHANGED saQueued
      BY <3>2 DEF TypeOK
    <3>3. QED
      BY <1>2, <3>1, <3>2 DEF Drift
  <2>3. QED
    BY <1>2, <2>1, <2>2 DEF Drift, TypeOK
<1>3. CASE SyncConfig
  BY <1>3 DEF SyncConfig, TypeOK
<1>4. QED
  BY <1>1, <1>2, <1>3

\* Every variable keeps its type, for any number of roles and disturbances, with
\* or without the repair controller: a pass in flight always has a step of its
\* own, and a repair never remembers a ServiceAccount that was not there.
THEOREM TypeCorrect == Spec => []TypeOK
<1>1. Init => TypeOK
  <2>1. NoStatus \in Status /\ NoRole \in RoleObject /\ NoACK \in ACKObject
    BY StatusTypes DEF NoRole, RoleObject, NoACK, ACKObject
  <2>2. Idle \in Pass /\ RepairIdle \in RepairPass
    BY <2>1 DEF Idle, Pass, RepairIdle, RepairPass
  <2>3. 0 \in 0 .. MaxDisturbances
    BY SwitchAssumption
  <2>4. QED
    BY <2>1, <2>2, <2>3, Zenon DEF Init, TypeOK
<1>2. TypeOK /\ [Next]_vars => TypeOK'
  <2>1. ASSUME TypeOK, UNCHANGED vars
        PROVE  TypeOK'
    BY <2>1 DEF TypeOK, vars
  <2>2. ASSUME TypeOK, Next
        PROVE  TypeOK'
    BY <2>2, NormalTypes, DeleteTypes, RepairTypes, EnvironmentTypes, SharedTypes
       DEF Next, Shared
  <2>3. QED
    BY <2>1, <2>2
<1>3. QED
  BY <1>1, <1>2, PTL DEF Spec

================================================================================
