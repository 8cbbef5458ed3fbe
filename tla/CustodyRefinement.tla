--------------------------- MODULE CustodyRefinement ---------------------------
(***************************************************************************)
(* RoleBinding implements AnnotationCustody, when the role controller is   *)
(* the only writer of the ServiceAccount.                                  *)
(***************************************************************************)
EXTENDS CustodyProofs

\* The step gives role r a later version and leaves the ServiceAccount alone.
RoleMoves(r) ==
  /\ \A q \in Roles \ {r} : role'[q] = role[q]
  /\ Later(role[r], role'[r])
  /\ UNCHANGED sa

\* A status patch that takes nothing from the record gives the role a later version.
LEMMA PatchMoves ==
  ASSUME TypeOK, NEW r \in Roles, NEW before \in Status, NEW new \in Status,
         patchRoleStatus(r, before, new),
         before.arn => new.arn,
         before.dtype # new.dtype => new.dtype \in AnnotationTypes,
         UNCHANGED sa
  PROVE  RoleMoves(r)
BY PatchKeeps DEF RoleMoves

\* What a reconcileNormal pass does to the role and to the ServiceAccount: it
\* delivers only with the record on the API server.
LEMMA NormalMoves ==
  ASSUME TypeOK, CustodyInvariant, NEW r \in Roles, WorkerNormal(r)
  PROVE  \/ UNCHANGED <<role, sa>>
         \/ RoleMoves(r)
         \/ UNCHANGED role /\ sa' = r /\ Recorded(role[r]) /\ role[r].st # "gone"
<1> USE DEF saVars, hubVars, PatchAndEnd
<1> DEFINE new == worker[r].new
           before == worker[r].copy.status
<1>1. CASE ensureFinalizer(r)
  <2>1. /\ \A q \in Roles \ {r} : role'[q] = role[q]
        /\ role'[r] = [role[r] EXCEPT !.fin = TRUE]
    BY <1>1, TypesOf, Zenon DEF ensureFinalizer
  <2>2. Later(role[r], role'[r])
    BY <2>1, TypesOf DEF Later, RoleObject
  <2>3. QED
    BY <1>1, <2>1, <2>2 DEF RoleMoves, ensureFinalizer
<1>2. CASE reconcileNormal(r)
  <2> DEFINE cached == roleCache[r].status
  <2>1. CASE patchRoleStatus(r, cached, failReady(cached)) /\ UNCHANGED sa
    BY <2>1, TypesOf, failReadyKeeps, PatchMoves
  <2>2. QED
    BY <1>2, <2>1 DEF reconcileNormal
<1>3. CASE reconcileIAMRole(r)
  BY <1>3 DEF reconcileIAMRole
<1>4. ASSUME worker[r].pc \in {"getsa", "patchsa", "status"}
      PROVE  /\ before \in Status /\ new \in Status
             /\ new.dtype \in AnnotationTypes
             /\ before.arn => new.arn
             /\ worker[r].pc \in {"getsa", "patchsa"} => Recorded(worker[r].copy)
  BY <1>4, NormalFacts DEF NormalSteps
<1>5. CASE getServiceAccount(r)
  <2>1. CASE /\ \E n \in {failReady(new), setReady(new)} : patchRoleStatus(r, before, n)
             /\ UNCHANGED sa
    BY <1>4, <1>5, <2>1, failReadyKeeps, PatchMoves DEF getServiceAccount
  <2>2. QED
    BY <1>5, <2>1 DEF getServiceAccount
<1>6. CASE patchServiceAccount(r)
  <2>1. UNCHANGED role /\ (sa' = sa \/ sa' = r)
    BY <1>6 DEF patchServiceAccount, WriteSA
  <2>2. /\ Recorded(worker[r].copy) /\ Later(worker[r].copy, roleCache[r])
        /\ Later(roleCache[r], role[r]) /\ role[r].st # "gone"
    BY <1>6 DEF patchServiceAccount, CustodyInvariant, RoleInvariant, NormalPass,
                CacheBehind, NormalSteps
  <2>3. Recorded(role[r])
    BY <2>2 DEF Later, Recorded
  <2>4. QED
    BY <2>1, <2>2, <2>3
<1>7. CASE patchStatus(r)
  <2>1. worker[r].pc = "status" /\ patchRoleStatus(r, before, new) /\ UNCHANGED sa
    BY <1>7 DEF patchStatus
  <2>2. QED
    BY <1>4, <2>1, PatchMoves
<1>8. QED
  BY <1>1, <1>2, <1>3, <1>5, <1>6, <1>7 DEF WorkerNormal

\* What a reconcileDelete pass does to them: it removes only its own annotation.
LEMMA DeleteMoves ==
  ASSUME TypeOK, CustodyInvariant, NEW r \in Roles, WorkerDelete(r)
  PROVE  \/ UNCHANGED <<role, sa>>
         \/ RoleMoves(r)
         \/ UNCHANGED role /\ sa = r /\ sa' = "none" /\ role[r].st = "deleting"
<1> USE DEF saVars, hubVars, PatchAndEnd
<1>1. ASSUME NEW before \in Status, markRoleDeletionBlocked(r, before), UNCHANGED sa
      PROVE  RoleMoves(r)
  <2> DEFINE new == [before EXCEPT !.conds = @ \cup {"DeletionBlocked"}]
  <2>1. new \in Status /\ new.arn = before.arn /\ new.dtype = before.dtype
    BY DEF Status
  <2>2. patchRoleStatus(r, before, new)
    BY <1>1 DEF markRoleDeletionBlocked
  <2> HIDE DEF new
  <2>3. QED
    BY <1>1, <2>1, <2>2, PatchMoves
<1>2. CASE \/ cleanupRemoteServiceAccountAnnotations(r) \/ getServiceAccountForRemoval(r)
           \/ deleteRoleChildIfOwned(r) \/ recheckRoleChild(r)
  BY <1>1, <1>2, TypesOf
     DEF cleanupRemoteServiceAccountAnnotations, getServiceAccountForRemoval,
         deleteRoleChildIfOwned, recheckRoleChild
<1>3. CASE removeServiceAccountAnnotations(r)
  <2>1. CASE r \in saFresh /\ WriteSA("none") /\ UNCHANGED role
    <3>1. sa = r /\ role[r].st \in {"deleting", "gone"}
      BY <1>3, <2>1, DeleteFacts DEF removeServiceAccountAnnotations, DeleteSteps
    <3>2. role[r].st # "gone"
      BY <3>1, OwnerIsRecorded DEF Present
    <3>3. UNCHANGED role /\ sa' = "none"
      BY <2>1 DEF WriteSA
    <3>4. QED
      BY <3>1, <3>2, <3>3
  <2>2. CASE markRoleDeletionBlocked(r, worker[r].copy.status) /\ UNCHANGED sa
    BY <1>1, <2>2, TypesOf
  <2>3. QED
    BY <1>3, <2>1, <2>2 DEF removeServiceAccountAnnotations
<1>4. CASE clearRoleDeletionBlocked(r)
  <2> DEFINE before == worker[r].copy.status
             new == [before EXCEPT !.conds = @ \ {"DeletionBlocked"}]
  <2>0. before \in Status
    BY TypesOf
  <2>1. /\ before \in Status /\ new \in Status
        /\ new.arn = before.arn /\ new.dtype = before.dtype
    BY <2>0 DEF Status
  <2>2. patchRoleStatus(r, before, new) /\ UNCHANGED sa
    BY <1>4 DEF clearRoleDeletionBlocked
  <2> HIDE DEF new
  <2>3. QED
    BY <2>1, <2>2, PatchMoves
<1>5. CASE removeFinalizer(r)
  <2>1. CASE role' = [role EXCEPT ![r] = [@ EXCEPT !.st = "gone", !.fin = FALSE]]
    <3>1. /\ \A q \in Roles \ {r} : role'[q] = role[q]
          /\ role'[r] = [role[r] EXCEPT !.st = "gone", !.fin = FALSE]
      BY <2>1, TypesOf, Zenon
    <3>2. Later(role[r], role'[r])
      BY <3>1, TypesOf DEF Later, RoleObject
    <3>3. QED
      BY <1>5, <3>1, <3>2 DEF RoleMoves, removeFinalizer
  <2>2. QED
    BY <1>5, <2>1 DEF removeFinalizer
<1>6. QED
  BY <1>2, <1>3, <1>4, <1>5 DEF WorkerDelete

\* Steps of the workers' environment: users and passes that end give roles later
\* versions; only Drift, which is a disturbance or a creation, writes the
\* ServiceAccount.
LEMMA OtherMoves ==
  ASSUME TypeOK, CustodyInvariant, NEW r \in Roles,
         abortPass(r) \/ Users(r) \/ Environment(r)
  PROVE  UNCHANGED <<role, sa>> \/ RoleMoves(r)
<1> USE DEF saVars, hubVars
<1>1. CASE abortPass(r) \/ Environment(r)
  BY <1>1 DEF abortPass, Environment, ACKSync, ACKLoss, SyncRole, SyncACK
<1>2. CASE CreateRole(r)
  <2>1. /\ \A q \in Roles \ {r} : role'[q] = role[q]
        /\ role'[r] = [role[r] EXCEPT !.st = "live"]
        /\ role[r].st = "none"
    BY <1>2, TypesOf DEF CreateRole
  <2>2. Later(role[r], role'[r])
    BY <2>1, TypesOf DEF Later, RoleObject
  <2>3. QED
    BY <1>2, <2>1, <2>2 DEF RoleMoves, CreateRole
<1>3. CASE DeleteRole(r)
  <2>1. /\ \A q \in Roles \ {r} : role'[q] = role[q]
        /\ role'[r] = [role[r] EXCEPT !.st = IF role[r].fin THEN "deleting" ELSE "gone"]
        /\ role[r].st = "live"
    BY <1>3, TypesOf DEF DeleteRole
  <2>2. Later(role[r], role'[r])
    BY <2>1, TypesOf DEF Later, RoleObject
  <2>3. QED
    BY <1>3, <2>1, <2>2 DEF RoleMoves, DeleteRole
<1>4. QED
  BY <1>1, <1>2, <1>3 DEF Users

\* Steps that belong to no role: the repair controller is off, and Drift strips
\* the annotation as a disturbance.
LEMMA SharedMoves ==
  ASSUME TypeOK, CustodyInvariant, RepairStep \/ Shared
  PROVE  /\ UNCHANGED role
         /\ sa' \in {sa, "none", "absent"}
         /\ sa \in Roles /\ sa' = "none" => disturbed' # disturbed
<1> USE DEF saVars, hubVars
<1>1. ~RepairStep
  BY DEF CustodyInvariant, NoRepair, RepairStep, repairGet, repairList, repairPatch
<1>2. CASE abortRepair \/ ConfigChange \/ SyncConfig
  <2>1. UNCHANGED <<role, sa>>
    BY <1>2 DEF abortRepair, ConfigChange, SyncConfig
  <2>2. QED
    BY <2>1, RolesAssumption
<1>3. CASE Drift
  <2>1. disturbed \in Nat
    BY SwitchAssumption DEF TypeOK
  <2>2. /\ UNCHANGED role
        /\ sa' \in {sa, "none", "absent"}
        /\ disturbed' = disturbed + 1 \/ sa = "absent"
    BY <1>3 DEF Drift, Disturb, WriteSA
  <2>3. QED
    BY <2>1, <2>2, RolesAssumption
<1>4. QED
  BY <1>1, <1>2, <1>3 DEF Shared

\* Only the finalization of a role, or a user of the workload cluster, strips the
\* role's ARN from the ServiceAccount.
THEOREM SparesOthers ==
  ASSUME SoleWriter
  PROVE  Spec => CleanupSparesOthers
<1> DEFINE Spared(r) ==
      sa = r /\ sa' = "none" => role[r].st = "deleting" \/ disturbed' # disturbed
<1>1. ASSUME TypeOK, CustodyInvariant, Next, NEW r \in Roles
      PROVE  Spared(r)
  <2>1. r # "none"
    BY RolesAssumption
  <2>2. ASSUME NEW q \in Roles, WorkerNormal(q) \/ abortPass(q) \/ Users(q) \/ Environment(q)
        PROVE  sa' = sa \/ sa' = q
    BY <1>1, <2>2, NormalMoves, OtherMoves DEF RoleMoves
  <2>3. ASSUME NEW q \in Roles, WorkerDelete(q)
        PROVE  Spared(r)
    BY <1>1, <2>1, <2>3, DeleteMoves DEF RoleMoves
  <2>4. ASSUME RepairStep \/ Shared
        PROVE  Spared(r)
    BY <1>1, <2>4, SharedMoves
  <2>5. QED
    BY <1>1, <2>1, <2>2, <2>3, <2>4, RolesAssumption DEF Next
<1>2. TypeOK /\ CustodyInvariant /\ [Next]_vars => [\A r \in Roles : Spared(r)]_vars
  BY <1>1
<1>3. QED
  BY <1>2, TypeCorrect, CustodyInvariantHolds, PTL DEF Spec, CleanupSparesOthers

\* Whatever the number of roles and disturbances, every behaviour of the role
\* controller is a behaviour of AnnotationCustody.
THEOREM Refinement ==
  ASSUME SoleWriter
  PROVE  Spec => RefinesCustody
<1> DEFINE owner == IF sa \in Roles THEN sa ELSE "none"
           Rec(o) == IF o.st = "gone" THEN "closed"
                     ELSE IF Recorded(o) THEN "recorded" ELSE "blank"
           record == [r \in Roles |-> Rec(role[r])]
<1> USE DEF Custody!custodyVars
<1>1. Init => Custody!Init
  <2> SUFFICES ASSUME Init
               PROVE  Custody!Init
    OBVIOUS
  <2>1. owner = "none"
    BY RolesAssumption DEF Init
  <2>2. \A r \in Roles : Rec(role[r]) = "blank"
    BY DEF Init, NoRole, NoStatus, Recorded
  <2>3. record = [r \in Roles |-> "blank"]
    BY <2>2
  <2>4. QED
    BY <2>1, <2>3 DEF Custody!Init
<1>2. ASSUME TypeOK, CustodyInvariant, TypeOK', CustodyInvariant', NEW r \in Roles, RoleMoves(r)
      PROVE  [Custody!Next]_(Custody!custodyVars)
  <2>1. /\ owner' = owner
        /\ \A q \in Roles \ {r} : Rec(role'[q]) = Rec(role[q])
    BY <1>2 DEF RoleMoves
  <2>2. record' = [record EXCEPT ![r] = Rec(role'[r])]
    BY <2>1, Zenon
  <2>3. /\ Rec(role[r]) = "closed" => Rec(role'[r]) = "closed"
        /\ Rec(role[r]) = "recorded" => Rec(role'[r]) \in {"recorded", "closed"}
    BY <1>2 DEF RoleMoves, Later, Recorded
  <2>4. CASE Rec(role'[r]) = Rec(role[r])
    BY <2>1, <2>2, <2>4
  <2>5. CASE Rec(role'[r]) = "recorded" /\ Rec(role[r]) = "blank"
    BY <2>1, <2>2, <2>5, Zenon DEF Custody!Next, Custody!Record
  <2>6. CASE Rec(role'[r]) = "closed"
    <3>1. role'[r].st = "gone"
      BY <2>6
    <3>2. sa' # r
      BY <1>2, <3>1 DEF CustodyInvariant, RoleInvariant, OwnerRecorded
    <3>3. owner # r
      BY <1>2, <3>2, RolesAssumption DEF RoleMoves
    <3>4. QED
      BY <2>1, <2>2, <2>6, <3>3, Zenon DEF Custody!Next, Custody!Close
  <2>7. QED
    BY <2>3, <2>4, <2>5, <2>6
<1>3. ASSUME TypeOK, CustodyInvariant, TypeOK', CustodyInvariant', Next
      PROVE  [Custody!Next]_(Custody!custodyVars)
  <2>1. CASE UNCHANGED <<role, sa>>
    BY <2>1
  <2>2. ASSUME NEW r \in Roles, RoleMoves(r)
        PROVE  [Custody!Next]_(Custody!custodyVars)
    BY <1>2, <1>3, <2>2
  <2>3. ASSUME UNCHANGED role, sa' \in {"none", "absent"}
        PROVE  [Custody!Next]_(Custody!custodyVars)
    <3>1. owner' = "none" /\ record' = record
      BY <2>3, RolesAssumption
    <3>2. QED
      BY <3>1 DEF Custody!Next, Custody!Release
  <2>4. ASSUME NEW r \in Roles,
               UNCHANGED role, sa' = r, Recorded(role[r]), role[r].st # "gone"
        PROVE  [Custody!Next]_(Custody!custodyVars)
    <3>1. owner' = r /\ record' = record /\ record[r] = "recorded"
      BY <2>4
    <3>2. QED
      BY <3>1 DEF Custody!Next, Custody!Deliver
  <2>5. ASSUME NEW r \in Roles, WorkerNormal(r)
        PROVE  [Custody!Next]_(Custody!custodyVars)
    BY <1>3, <2>1, <2>2, <2>4, <2>5, NormalMoves
  <2>6. ASSUME NEW r \in Roles, WorkerDelete(r)
        PROVE  [Custody!Next]_(Custody!custodyVars)
    BY <1>3, <2>1, <2>2, <2>3, <2>6, DeleteMoves
  <2>7. ASSUME NEW r \in Roles, abortPass(r) \/ Users(r) \/ Environment(r)
        PROVE  [Custody!Next]_(Custody!custodyVars)
    BY <1>3, <2>1, <2>2, <2>7, OtherMoves
  <2>8. ASSUME RepairStep \/ Shared
        PROVE  [Custody!Next]_(Custody!custodyVars)
    BY <1>3, <2>1, <2>3, <2>8, SharedMoves
  <2>9. QED
    BY <1>3, <2>5, <2>6, <2>7, <2>8 DEF Next
<1>4. TypeOK /\ CustodyInvariant /\ TypeOK' /\ CustodyInvariant' /\ [Next]_vars
        => [Custody!Next]_(Custody!custodyVars)
  BY <1>3 DEF vars
<1>5. QED
  BY <1>1, <1>4, TypeCorrect, CustodyInvariantHolds, PTL
     DEF Spec, RefinesCustody, Custody!Spec

================================================================================
