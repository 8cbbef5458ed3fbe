----------------------------- MODULE CustodyProofs -----------------------------
(***************************************************************************)
(* The safety of RoleBinding for every set of roles and any number of      *)
(* crashes, API errors, forced config deletions and edits of the           *)
(* ServiceAccount, when the role controller is its only writer.            *)
(***************************************************************************)
EXTENDS RoleBindingProofs

\* Being a later version of an object is transitive.
LEMMA LaterTransitive ==
  ASSUME NEW a \in RoleObject, NEW b \in RoleObject, NEW c \in RoleObject,
         Later(a, b), Later(b, c)
  PROVE  Later(a, c)
BY DEF Later, RoleObject, Status

\* Every object is a later version of itself.
LEMMA LaterReflexive ==
  ASSUME NEW a \in RoleObject
  PROVE  Later(a, a)
BY DEF Later, RoleObject

\* A status patch that never takes the ARN or the annotation-based delivery type
\* back leaves a later version of the object.
LEMMA PatchKeeps ==
  ASSUME TypeOK, NEW r \in Roles, NEW before \in Status, NEW new \in Status,
         patchRoleStatus(r, before, new),
         before.arn => new.arn,
         before.dtype # new.dtype => new.dtype \in AnnotationTypes
  PROVE  /\ \A q \in Roles \ {r} : role'[q] = role[q]
         /\ role'[r].st = role[r].st /\ role'[r].fin = role[r].fin
         /\ Later(role[r], role'[r])
         /\ role'[r].status.arn => role[r].status.arn \/ (new.arn /\ ~before.arn)
<1>0. role \in [Roles -> RoleObject] /\ role[r] \in RoleObject /\ role[r].status \in Status
  BY DEF TypeOK, RoleObject
<1>1. CASE Present(r)
  <2>1. PICK m \in MergePatch(role[r].status, before, new) :
               role' = [role EXCEPT ![r].status = m]
    BY <1>1 DEF patchRoleStatus
  <2>2. m \in Status
    BY <2>1, <1>0, StatusTypes
  <2>3. /\ \A q \in Roles \ {r} : role'[q] = role[q]
        /\ role'[r] = [role[r] EXCEPT !.status = m]
    BY <2>1, <1>0
  <2>4. /\ role'[r].st = role[r].st /\ role'[r].fin = role[r].fin
        /\ role'[r].status = m
    BY <2>3, <1>0 DEF RoleObject
  <2>5. /\ m.arn = IF before.arn = new.arn THEN role[r].status.arn ELSE new.arn
        /\ m.dtype = IF before.dtype = new.dtype THEN role[r].status.dtype ELSE new.dtype
    BY <2>1 DEF MergePatch
  <2>6. /\ role[r].status.arn => m.arn
        /\ role[r].status.dtype \in AnnotationTypes => m.dtype \in AnnotationTypes
        /\ m.arn => role[r].status.arn \/ (new.arn /\ ~before.arn)
    BY <2>5, <1>0 DEF Status
  <2>7. QED
    BY <2>3, <2>4, <2>6, <1>0 DEF Later, RoleObject
<1>2. CASE ~Present(r)
  BY <1>2, <1>0, LaterReflexive DEF patchRoleStatus
<1>3. QED
  BY <1>1, <1>2

\* A step that leaves the objects and the pass of r alone, and does not hand it
\* the ServiceAccount, keeps its part of the invariant.
LEMMA Frame ==
  ASSUME NEW r \in Roles, RoleInvariant(r),
         role'[r] = role[r], roleCache'[r] = roleCache[r],
         ack'[r] = ack[r], ackCache'[r] = ackCache[r], worker'[r] = worker[r],
         sa' = r => sa = r,
         r \in saFresh' => r \in saFresh /\ sa' = sa
  PROVE  RoleInvariant(r)'
<1>1. /\ CacheBehind(r)' /\ ACKKept(r)' /\ NormalPass(r)'
      /\ OwnerRecorded(r)' /\ GoneForGood(r)'
  BY DEF RoleInvariant, CacheBehind, ACKKept, Untouched, NormalPass, OwnerRecorded,
         GoneForGood, Later, Recorded
<1>2. DeletePass(r)'
  BY DEF RoleInvariant, DeletePass
<1>3. QED
  BY <1>1, <1>2 DEF RoleInvariant

\* A step of r's worker, or about r's objects, keeps the invariant of the others.
LEMMA OthersKept ==
  ASSUME CustodyInvariant, NEW r \in Roles,
         \A q \in Roles \ {r} : /\ role'[q] = role[q] /\ roleCache'[q] = roleCache[q]
                                /\ ack'[q] = ack[q] /\ ackCache'[q] = ackCache[q]
                                /\ worker'[q] = worker[q],
         sa' \in {sa, r, "none", "absent"},
         saFresh' \subseteq saFresh \cup {r},
         sa' = sa \/ saFresh' = {}
  PROVE  \A q \in Roles \ {r} : RoleInvariant(q)'
<1>1. TAKE q \in Roles \ {r}
<1>2. /\ RoleInvariant(q)
      /\ sa' = q => sa = q
      /\ q \in saFresh' => q \in saFresh /\ sa' = sa
  BY RolesAssumption DEF CustodyInvariant
<1>3. QED
  BY <1>2, Frame

\* TypeOK, for the objects of one role.
LEMMA TypesOf ==
  ASSUME TypeOK, NEW r \in Roles
  PROVE  /\ role \in [Roles -> RoleObject] /\ roleCache \in [Roles -> RoleObject]
         /\ ack \in [Roles -> ACKObject] /\ ackCache \in [Roles -> ACKObject]
         /\ worker \in [Roles -> Pass]
         /\ role[r] \in RoleObject /\ role[r].status \in Status
         /\ roleCache[r] \in RoleObject /\ roleCache[r].status \in Status
         /\ worker[r] \in Pass
         /\ worker[r].copy \in RoleObject /\ worker[r].copy.status \in Status
         /\ worker[r].new \in Status
         /\ ack[r] \in ACKObject /\ ackCache[r] \in ACKObject
BY DEF TypeOK, RoleObject, Pass

\* Adding the finalizer (ensureFinalizer) keeps the invariant of the role.
LEMMA ensureFinalizerKeeps ==
  ASSUME TypeOK, CustodyInvariant, NEW r \in Roles, ensureFinalizer(r)
  PROVE  \A q \in Roles : RoleInvariant(q)'
<1>1. \A q \in Roles \ {r} : RoleInvariant(q)'
  BY OthersKept, TypesOf DEF ensureFinalizer, saVars
<1>2. role'[r] = [role[r] EXCEPT !.fin = TRUE]
  BY TypesOf, Zenon DEF ensureFinalizer
<1>3. RoleInvariant(r)
  BY DEF CustodyInvariant
<1>4. CacheBehind(r)' /\ ACKKept(r)' /\ GoneForGood(r)' /\ OwnerRecorded(r)'
  BY <1>2, <1>3, TypesOf
     DEF ensureFinalizer, saVars, RoleInvariant, CacheBehind, ACKKept, Untouched, GoneForGood,
         OwnerRecorded, Recorded, Later, RoleObject
<1>5. NormalPass(r)' /\ DeletePass(r)'
  BY DEF ensureFinalizer, NormalPass, DeletePass, NormalSteps, DeleteSteps
<1>6. QED
  BY <1>1, <1>4, <1>5 DEF RoleInvariant

\* The end of a pass with a status patch that takes nothing back, and that sets
\* the ARN only when the cache shows it.
LEMMA PatchAndEndKeeps ==
  ASSUME TypeOK, CustodyInvariant, NEW r \in Roles,
         NEW before \in Status, NEW new \in Status,
         PatchAndEnd(r, before, new),
         before.arn => new.arn,
         before.dtype # new.dtype => new.dtype \in AnnotationTypes,
         new.arn /\ ~before.arn => ackCache[r].arn,
         UNCHANGED <<roleCache, ack, ackCache, sa, saFresh>>
  PROVE  \A q \in Roles : RoleInvariant(q)'
<1>0. RoleInvariant(r)
  BY DEF CustodyInvariant
<1>1. /\ \A q \in Roles \ {r} : role'[q] = role[q]
      /\ role'[r].st = role[r].st /\ role'[r].fin = role[r].fin
      /\ Later(role[r], role'[r])
      /\ role'[r].status.arn => role[r].status.arn \/ (new.arn /\ ~before.arn)
      /\ role'[r] \in RoleObject
  BY PatchKeeps, PatchTypes DEF PatchAndEnd
<1>2. /\ \A q \in Roles \ {r} : worker'[q] = worker[q]
      /\ worker'[r].pc = "idle"
  BY TypesOf DEF PatchAndEnd, EndPass, Idle
<1>3. \A q \in Roles \ {r} : RoleInvariant(q)'
  BY <1>1, <1>2, OthersKept
<1>4. CacheBehind(r)'
  BY <1>0, <1>1, TypesOf, LaterTransitive DEF RoleInvariant, CacheBehind
<1>5. ACKKept(r)'
  BY <1>0, <1>1, <1>2 DEF RoleInvariant, ACKKept, Untouched, NormalSteps
<1>6. NormalPass(r)' /\ DeletePass(r)'
  BY <1>2 DEF NormalPass, DeletePass, NormalSteps, DeleteSteps
<1>7. OwnerRecorded(r)' /\ GoneForGood(r)'
  BY <1>0, <1>1 DEF RoleInvariant, OwnerRecorded, GoneForGood, Recorded
<1>8. QED
  BY <1>3, <1>4, <1>5, <1>6, <1>7 DEF RoleInvariant

\* failReady and setReady touch the conditions only.
LEMMA failReadyKeeps ==
  ASSUME NEW s \in Status
  PROVE  /\ failReady(s).arn = s.arn /\ failReady(s).dtype = s.dtype
         /\ setReady(s).arn = s.arn /\ setReady(s).dtype = s.dtype
         /\ failReady(s) \in Status /\ setReady(s) \in Status
BY StatusTypes DEF failReady, setReady, Status

\* The start of a pass over a live role keeps the invariant of the role.
LEMMA reconcileNormalKeeps ==
  ASSUME SoleWriter, TypeOK, CustodyInvariant, NEW r \in Roles, reconcileNormal(r)
  PROVE  \A q \in Roles : RoleInvariant(q)'
<1> DEFINE cached == roleCache[r].status
           start  == [cached EXCEPT !.dtype = cfgCache]
<1> USE DEF saVars
<1>0. RoleInvariant(r) /\ cached \in Status
  BY TypesOf DEF CustodyInvariant
<1>1. CASE PatchAndEnd(r, cached, failReady(cached))
  BY <1>1, <1>0, failReadyKeeps, PatchAndEndKeeps DEF reconcileNormal
<1>2. CASE /\ cfgCache # "none"
           /\ StartPass(r, "apply", start)
           /\ UNCHANGED role
  <2>1. /\ \A q \in Roles \ {r} : worker'[q] = worker[q]
        /\ worker'[r] = [pc |-> "apply", copy |-> roleCache[r], new |-> start]
    BY <1>2, TypesOf DEF StartPass
  <2>2. \A q \in Roles \ {r} : RoleInvariant(q)'
    BY <1>2, <2>1, OthersKept DEF reconcileNormal
  <2>3. start.arn = cached.arn /\ start.dtype \in AnnotationTypes
    BY <1>0, <1>2 DEF Status, SoleWriter, TypeOK
  <2>4. /\ roleCache[r].st = "live" /\ roleCache[r].fin /\ Later(roleCache[r], roleCache[r])
        /\ UNCHANGED <<role, roleCache, ack, ackCache, sa, saFresh>>
    BY <1>2, TypesOf, LaterReflexive DEF reconcileNormal
  <2>5. CacheBehind(r)' /\ OwnerRecorded(r)' /\ GoneForGood(r)'
    BY <1>0, <2>4 DEF RoleInvariant, CacheBehind, OwnerRecorded, GoneForGood, Recorded, Later
  <2>6. ACKKept(r)'
    BY <1>0, <2>4 DEF RoleInvariant, ACKKept, Untouched
  <2>7. NormalPass(r)'
    <3>1. role[r].st # "gone"
      BY <1>0, <2>4 DEF RoleInvariant, GoneForGood
    <3>2. cached.arn => ackCache[r].arn
      BY <1>0, <2>4 DEF RoleInvariant, CacheBehind, Later, ACKKept, Untouched
    <3>3. /\ worker'[r].pc = "apply" /\ worker'[r].copy = roleCache'[r]
          /\ worker'[r].new = start
      BY <2>1, <2>4
    <3>4. Later(worker'[r].copy, roleCache'[r])
      BY <2>4, <3>3
    <3>5. worker'[r].copy.status = cached
      BY <2>4, <3>3
    <3>6. QED
      BY <2>3, <2>4, <3>1, <3>2, <3>3, <3>4, <3>5 DEF NormalPass, NormalSteps
  <2>8. DeletePass(r)'
    BY <2>1 DEF DeletePass, DeleteSteps
  <2>9. QED
    BY <2>2, <2>5, <2>6, <2>7, <2>8 DEF RoleInvariant
<1>3. QED
  BY <1>1, <1>2 DEF reconcileNormal

\* A step inside a pass over a live role.  It may create the ACK object, and may
\* write the ServiceAccount when the object it started from has the record.
LEMMA NormalGotoKeeps ==
  ASSUME TypeOK, CustodyInvariant, NEW r \in Roles,
         worker[r].pc \in NormalSteps,
         NEW pc \in NormalSteps, NEW new \in Status, Goto(r, pc, new),
         new.dtype \in AnnotationTypes,
         worker[r].copy.status.arn => new.arn,
         new.arn => ackCache[r].arn,
         pc \in {"getsa", "patchsa"} => Recorded(worker[r].copy),
         UNCHANGED <<role, roleCache, ackCache>>,
         \/ ack' = ack
         \/ ack[r].st = "none" /\ ack' = [ack EXCEPT ![r] = [st |-> "live", arn |-> FALSE]],
         sa' = sa \/ (sa' = r /\ Recorded(worker[r].copy)),
         saFresh' \subseteq saFresh \cup {r},
         sa' = sa \/ saFresh' = {}
  PROVE  \A q \in Roles : RoleInvariant(q)'
<1>0. RoleInvariant(r)
  BY DEF CustodyInvariant
<1>1. /\ \A q \in Roles \ {r} : worker'[q] = worker[q] /\ ack'[q] = ack[q]
      /\ worker'[r].pc = pc /\ worker'[r].copy = worker[r].copy /\ worker'[r].new = new
      /\ \/ ack'[r] = ack[r]
         \/ ack[r].st = "none" /\ ack'[r].st = "live" /\ ~ack'[r].arn
  BY TypesOf DEF Goto
<1>2. \A q \in Roles \ {r} : RoleInvariant(q)'
  BY <1>1, OthersKept
<1>3. CacheBehind(r)' /\ GoneForGood(r)'
  BY <1>0 DEF RoleInvariant, CacheBehind, GoneForGood, Later
<1>4. ACKKept(r)'
  BY <1>0, <1>1 DEF RoleInvariant, ACKKept, Untouched
<1>5. NormalPass(r)'
  <2>1. /\ worker[r].copy.st = "live" /\ worker[r].copy.fin
        /\ Later(worker[r].copy, roleCache[r]) /\ role[r].st # "gone"
    BY <1>0 DEF RoleInvariant, NormalPass
  <2>2. Later(worker'[r].copy, roleCache'[r])
    BY <1>1, <2>1
  <2>3. pc \in {"getsa", "patchsa"} => Recorded(worker'[r].copy)
    BY <1>1
  <2>4. QED
    BY <1>1, <2>1, <2>2, <2>3 DEF NormalPass
<1>6. DeletePass(r)'
  BY <1>1 DEF DeletePass, NormalSteps, DeleteSteps
<1>7. OwnerRecorded(r)'
  <2>1. CASE sa' = sa
    BY <1>0, <2>1 DEF RoleInvariant, OwnerRecorded, Recorded
  <2>2. CASE sa' = r /\ Recorded(worker[r].copy)
    <3>1. /\ worker[r].copy.st = "live" /\ Later(worker[r].copy, roleCache[r])
          /\ role[r].st # "gone" /\ Later(roleCache[r], role[r])
      BY <1>0 DEF RoleInvariant, NormalPass, CacheBehind
    <3>2. roleCache[r].st \in {"live", "deleting"}
      BY <3>1, TypesOf DEF Later, RoleObject
    <3>3. Recorded(roleCache[r])
      BY <2>2, <3>1, <3>2 DEF Later, Recorded
    <3>4. QED
      BY <3>1, <3>2, <3>3 DEF OwnerRecorded, Recorded
  <2>3. QED
    BY <2>1, <2>2
<1>8. QED
  BY <1>2, <1>3, <1>4, <1>5, <1>6, <1>7 DEF RoleInvariant

\* What a pass over a live role knows of its object and of its new status.
LEMMA NormalFacts ==
  ASSUME TypeOK, CustodyInvariant, NEW r \in Roles, worker[r].pc \in NormalSteps
  PROVE  /\ worker[r].copy \in RoleObject /\ worker[r].copy.status \in Status
         /\ worker[r].new \in Status
         /\ worker[r].new.dtype \in AnnotationTypes
         /\ worker[r].copy.fin
         /\ worker[r].copy.status.arn => worker[r].new.arn
         /\ worker[r].copy.status.arn => ackCache[r].arn
         /\ worker[r].new.arn => ackCache[r].arn
         /\ worker[r].pc \in {"getsa", "patchsa"} => Recorded(worker[r].copy)
BY TypesOf DEF CustodyInvariant, RoleInvariant, NormalPass

\* Applying the ACK IAM Role keeps the invariant of the role.
LEMMA reconcileIAMRoleKeeps ==
  ASSUME TypeOK, CustodyInvariant, NEW r \in Roles, reconcileIAMRole(r)
  PROVE  \A q \in Roles : RoleInvariant(q)'
<1> DEFINE new == worker[r].new
           copy == worker[r].copy
<1> USE DEF saVars
<1>1. worker[r].pc \in NormalSteps /\ RoleInvariant(r)
  BY DEF reconcileIAMRole, NormalSteps, CustodyInvariant
<1>2. /\ copy \in RoleObject /\ copy.status \in Status /\ new \in Status
      /\ new.dtype \in AnnotationTypes /\ copy.fin
      /\ copy.status.arn => new.arn
      /\ new.arn => ackCache[r].arn
  BY <1>1, NormalFacts
<1>3. UNCHANGED <<role, roleCache, ackCache, sa, saFresh>>
  BY DEF reconcileIAMRole
<1>4. \/ ack' = ack
      \/ ack[r].st = "none" /\ ack' = [ack EXCEPT ![r] = [st |-> "live", arn |-> FALSE]]
  BY DEF reconcileIAMRole
<1>5. CASE Goto(r, "status", failReady(new))
  <2>1. "status" \in NormalSteps /\ "status" \notin {"getsa", "patchsa"}
    BY DEF NormalSteps
  <2>2. QED
    BY <1>1, <1>2, <1>3, <1>4, <1>5, <2>1, failReadyKeeps, NormalGotoKeeps
<1>6. ASSUME NEW a \in BOOLEAN, AfterApply(r, [new EXCEPT !.arn = a]),
             a => ackCache[r].arn, copy.status.arn => a
      PROVE  \A q \in Roles : RoleInvariant(q)'
  <2> DEFINE n == [new EXCEPT !.arn = a]
  <2>1. n \in Status /\ n.arn = a /\ n.dtype = new.dtype
    BY <1>2 DEF Status
  <2>2. CASE \/ Goto(r, "status", failReady(n))
             \/ Goto(r, "status", setReady(n))
    <3>1. "status" \in NormalSteps /\ "status" \notin {"getsa", "patchsa"}
      BY DEF NormalSteps
    <3> HIDE DEF n
    <3>2. QED
      BY <1>1, <1>2, <1>3, <1>4, <1>6, <2>1, <2>2, <3>1, failReadyKeeps, NormalGotoKeeps
  <2>3. CASE /\ Goto(r, "getsa", n)
             /\ ~shouldPersistAnnotationDeliveryContextBeforeRemotePatch(copy.status, n)
             /\ n.arn
    <3>1. "getsa" \in NormalSteps
      BY DEF NormalSteps
    <3>2. Recorded(copy)
      BY <1>2, <2>1, <2>3, Zenon
         DEF shouldPersistAnnotationDeliveryContextBeforeRemotePatch, Recorded, Status
    <3> HIDE DEF n
    <3>3. QED
      BY <1>1, <1>2, <1>3, <1>4, <1>6, <2>1, <2>3, <3>1, <3>2, NormalGotoKeeps
  <2>4. QED
    BY <1>6, <2>2, <2>3 DEF AfterApply
<1>7. ackCache[r].st = "none" => ~ackCache[r].arn
  BY <1>1 DEF RoleInvariant, ACKKept, Untouched
<1>8. ackCache[r].arn \in BOOLEAN
  BY TypesOf DEF ACKObject
<1>9. CASE AfterApply(r, [new EXCEPT !.arn = FALSE]) /\ ackCache[r].st = "none"
  BY <1>2, <1>6, <1>7, <1>9, Zenon
<1>10. CASE AfterApply(r, [new EXCEPT !.arn = ackCache[r].arn])
  BY <1>2, <1>6, <1>8, <1>10
<1>11. QED
  BY <1>5, <1>9, <1>10 DEF reconcileIAMRole

\* The Get and the Patch of the ServiceAccount, and the final status patch of a
\* reconcileNormal pass, keep the invariant of the role.
LEMMA DeliveryKeeps ==
  ASSUME TypeOK, CustodyInvariant, NEW r \in Roles,
         getServiceAccount(r) \/ patchServiceAccount(r) \/ patchStatus(r)
  PROVE  \A q \in Roles : RoleInvariant(q)'
<1> DEFINE new == worker[r].new
           copy == worker[r].copy
<1> USE DEF saVars, hubVars
<1>1. worker[r].pc \in NormalSteps
  BY DEF getServiceAccount, patchServiceAccount, patchStatus, NormalSteps
<1>2. /\ copy \in RoleObject /\ copy.status \in Status /\ new \in Status
      /\ new.dtype \in AnnotationTypes
      /\ copy.status.arn => new.arn
      /\ new.arn => ackCache[r].arn
      /\ worker[r].pc \in {"getsa", "patchsa"} => Recorded(copy)
  BY <1>1, NormalFacts
<1>3. "status" \in NormalSteps /\ "status" \notin {"getsa", "patchsa"} /\ "patchsa" \in NormalSteps
  BY DEF NormalSteps
<1>4. CASE getServiceAccount(r)
  <2>1. UNCHANGED <<roleCache, ack, ackCache, sa>> /\ Recorded(copy)
    BY <1>2, <1>4 DEF getServiceAccount
  <2>2. CASE /\ \E n \in {failReady(new), setReady(new)} : PatchAndEnd(r, copy.status, n)
             /\ UNCHANGED saFresh
    BY <1>2, <2>1, <2>2, failReadyKeeps, PatchAndEndKeeps
  <2>3. CASE Goto(r, "patchsa", new) /\ saFresh' = saFresh \cup {r} /\ UNCHANGED role
    BY <1>1, <1>2, <1>3, <2>1, <2>3, NormalGotoKeeps
  <2>4. QED
    BY <1>4, <2>2, <2>3 DEF getServiceAccount
<1>5. CASE patchServiceAccount(r)
  <2>1. /\ UNCHANGED <<role, roleCache, ack, ackCache>> /\ Recorded(copy)
        /\ sa' = sa \/ sa' = r
        /\ saFresh' \subseteq saFresh \cup {r}
        /\ sa' = sa \/ saFresh' = {}
    BY <1>2, <1>5 DEF patchServiceAccount, WriteSA
  <2>2. \E n \in {failReady(new), setReady(new)} : Goto(r, "status", n)
    BY <1>5 DEF patchServiceAccount
  <2>3. QED
    BY <1>1, <1>2, <1>3, <2>1, <2>2, failReadyKeeps, NormalGotoKeeps
<1>6. CASE patchStatus(r)
  <2>1. /\ UNCHANGED <<roleCache, ack, ackCache, sa, saFresh>>
        /\ PatchAndEnd(r, copy.status, new)
    BY <1>6 DEF patchStatus, PatchAndEnd
  <2>2. QED
    BY <1>2, <2>1, PatchAndEndKeeps
<1>7. QED
  BY <1>4, <1>5, <1>6

\* Blocking a deletion changes the conditions only.
LEMMA BlockKeeps ==
  ASSUME TypeOK, CustodyInvariant, NEW r \in Roles, NEW before \in Status,
         markRoleDeletionBlocked(r, before),
         UNCHANGED <<roleCache, ack, ackCache, sa, saFresh>>
  PROVE  \A q \in Roles : RoleInvariant(q)'
<1> DEFINE new == [before EXCEPT !.conds = @ \cup {"DeletionBlocked"}]
<1>1. new \in Status /\ new.arn = before.arn /\ new.dtype = before.dtype
  BY DEF Status
<1>2. PatchAndEnd(r, before, new)
  BY DEF markRoleDeletionBlocked
<1> HIDE DEF new
<1>3. QED
  BY <1>1, <1>2, PatchAndEndKeeps

\* A step inside a deletion pass, or its start.
LEMMA DeleteGotoKeeps ==
  ASSUME TypeOK, CustodyInvariant, NEW r \in Roles,
         roleCache[r].st \in {"deleting", "gone"},
         worker[r].pc \notin NormalSteps,
         UNCHANGED <<role, roleCache, ackCache>>,
         \A q \in Roles \ {r} : worker'[q] = worker[q] /\ ack'[q] = ack[q],
         worker'[r].pc \in DeleteSteps, worker'[r].copy.st = "deleting",
         sa' = sa \/ sa' = "none",
         saFresh' \subseteq saFresh \cup {r},
         sa' = sa \/ saFresh' = {},
         worker'[r].pc \in {"dchild", "drecheck", "dfinal"} => sa' # r,
         worker'[r].pc = "dpatchsa" => sa' = r
  PROVE  \A q \in Roles : RoleInvariant(q)'
<1>0. RoleInvariant(r)
  BY DEF CustodyInvariant
<1>1. \A q \in Roles \ {r} : RoleInvariant(q)'
  BY OthersKept
<1>2. role[r].st \in {"deleting", "gone"}
  BY <1>0 DEF RoleInvariant, CacheBehind, Later
<1>3. CacheBehind(r)' /\ GoneForGood(r)'
  BY <1>0 DEF RoleInvariant, CacheBehind, GoneForGood, Later
<1>4. ACKKept(r)' /\ NormalPass(r)'
  BY DEF ACKKept, NormalPass, Untouched, NormalSteps, DeleteSteps
<1>5. DeletePass(r)'
  BY <1>2 DEF DeletePass
<1>6. OwnerRecorded(r)'
  BY <1>0, RolesAssumption DEF RoleInvariant, OwnerRecorded, Recorded
<1>7. QED
  BY <1>1, <1>3, <1>4, <1>5, <1>6 DEF RoleInvariant

\* What the invariant says of a deletion pass.
LEMMA DeleteFacts ==
  ASSUME TypeOK, CustodyInvariant, NEW r \in Roles, worker[r].pc \in DeleteSteps
  PROVE  /\ worker[r].pc \notin NormalSteps
         /\ worker[r].copy \in RoleObject /\ worker[r].copy.status \in Status
         /\ worker[r].copy.st = "deleting"
         /\ role[r].st \in {"deleting", "gone"}
         /\ roleCache[r].st \in {"deleting", "gone"}
         /\ worker[r].pc \in {"dchild", "drecheck", "dfinal"} => sa # r
         /\ worker[r].pc = "dpatchsa" /\ r \in saFresh => sa = r
BY TypesOf DEF CustodyInvariant, RoleInvariant, DeletePass, NormalSteps, DeleteSteps

\* The cleanup: skipped only when the ServiceAccount does not carry the ARN.
LEMMA CleanupKeeps ==
  ASSUME TypeOK, CustodyInvariant, NEW r \in Roles,
         cleanupRemoteServiceAccountAnnotations(r)
  PROVE  \A q \in Roles : RoleInvariant(q)'
<1> DEFINE cached == roleCache[r].status
<1> USE DEF saVars
<1>1. /\ roleCache[r].st = "deleting" /\ worker[r].pc = "idle"
      /\ UNCHANGED <<roleCache, ack, ackCache, sa, saFresh>>
      /\ cached \in Status
  BY TypesOf DEF cleanupRemoteServiceAccountAnnotations
<1>2. CASE markRoleDeletionBlocked(r, cached)
  BY <1>1, <1>2, BlockKeeps
<1>3. ASSUME NEW pc \in {"dgetsa", "dchild"}, StartPass(r, pc, cached), UNCHANGED role,
             pc = "dchild" => sa # r
      PROVE  \A q \in Roles : RoleInvariant(q)'
  <2>1. /\ \A q \in Roles \ {r} : worker'[q] = worker[q]
        /\ worker'[r].pc = pc /\ worker'[r].copy = roleCache[r]
    BY <1>3, TypesOf DEF StartPass
  <2>2. pc \in DeleteSteps /\ "idle" \notin NormalSteps
    BY DEF DeleteSteps, NormalSteps
  <2>3. QED
    BY <1>1, <1>3, <2>1, <2>2, DeleteGotoKeeps
<1>4. sa = r => cached.arn /\ cached.dtype \in AnnotationTypes
  BY DEF CustodyInvariant, RoleInvariant, OwnerRecorded, Recorded
<1>5. sa = r => roleARNForDeletion(r) /\ deliveryTypeForDeletion(r) \in AnnotationTypes
  BY <1>4 DEF roleARNForDeletion, deliveryTypeForDeletion, AnnotationTypes
<1>6. CASE StartPass(r, "dgetsa", cached) /\ UNCHANGED role
  BY <1>3, <1>6
<1>7. CASE /\ StartPass(r, "dchild", cached) /\ UNCHANGED role
           /\ \/ deliveryTypeForDeletion(r) = "EKSPodIdentity"
              \/ ~roleARNForDeletion(r)
  <2>1. sa # r
    BY <1>5, <1>7 DEF AnnotationTypes
  <2>2. QED
    BY <1>3, <1>7, <2>1
<1>8. QED
  BY <1>2, <1>6, <1>7 DEF cleanupRemoteServiceAccountAnnotations

\* The Get and the Patch that remove the annotation keep the invariant of the role.
LEMMA RemovalKeeps ==
  ASSUME TypeOK, CustodyInvariant, NEW r \in Roles,
         getServiceAccountForRemoval(r) \/ removeServiceAccountAnnotations(r)
  PROVE  \A q \in Roles : RoleInvariant(q)'
<1> USE DEF saVars
<1>1. worker[r].pc \in DeleteSteps
  BY DEF getServiceAccountForRemoval, removeServiceAccountAnnotations, DeleteSteps
<1>2. /\ worker[r].pc \notin NormalSteps
      /\ worker[r].copy.status \in Status /\ worker[r].copy.st = "deleting"
      /\ roleCache[r].st \in {"deleting", "gone"}
      /\ UNCHANGED <<roleCache, ack, ackCache>>
  BY <1>1, DeleteFacts DEF getServiceAccountForRemoval, removeServiceAccountAnnotations
<1>3. CASE markRoleDeletionBlocked(r, worker[r].copy.status) /\ UNCHANGED <<sa, saFresh>>
  BY <1>2, <1>3, BlockKeeps
<1>4. ASSUME NEW pc \in {"dchild", "dpatchsa"}, Goto(r, pc, worker[r].new), UNCHANGED role,
             sa' = sa \/ sa' = "none", saFresh' \subseteq saFresh \cup {r},
             sa' = sa \/ saFresh' = {},
             pc = "dchild" => sa' # r, pc = "dpatchsa" => sa' = r
      PROVE  \A q \in Roles : RoleInvariant(q)'
  <2>1. /\ \A q \in Roles \ {r} : worker'[q] = worker[q]
        /\ worker'[r].pc = pc /\ worker'[r].copy = worker[r].copy
    BY <1>4, TypesOf DEF Goto
  <2>2. pc \in DeleteSteps
    BY DEF DeleteSteps
  <2>3. QED
    BY <1>2, <1>4, <2>1, <2>2, DeleteGotoKeeps
<1>5. CASE sa # r /\ Goto(r, "dchild", worker[r].new) /\ UNCHANGED <<role, sa, saFresh>>
  BY <1>4, <1>5
<1>6. CASE /\ sa = r /\ Goto(r, "dpatchsa", worker[r].new)
           /\ saFresh' = saFresh \cup {r} /\ UNCHANGED <<role, sa>>
  BY <1>4, <1>6
<1>7. CASE WriteSA("none") /\ Goto(r, "dchild", worker[r].new) /\ UNCHANGED role
  BY <1>4, <1>7, RolesAssumption DEF WriteSA
<1>8. QED
  BY <1>3, <1>5, <1>6, <1>7
     DEF getServiceAccountForRemoval, removeServiceAccountAnnotations

\* Deleting the ACK IAM Role keeps the invariant of the role.
LEMMA ChildrenKeep ==
  ASSUME TypeOK, CustodyInvariant, NEW r \in Roles,
         deleteRoleChildIfOwned(r) \/ recheckRoleChild(r)
  PROVE  \A q \in Roles : RoleInvariant(q)'
<1> USE DEF saVars
<1>1. worker[r].pc \in DeleteSteps /\ worker[r].pc \in {"dchild", "drecheck", "dfinal"}
  BY DEF deleteRoleChildIfOwned, recheckRoleChild, DeleteSteps
<1>2. /\ worker[r].pc \notin NormalSteps
      /\ worker[r].copy.status \in Status /\ worker[r].copy.st = "deleting"
      /\ roleCache[r].st \in {"deleting", "gone"}
      /\ sa # r
      /\ UNCHANGED <<roleCache, ackCache, sa, saFresh>>
  BY <1>1, DeleteFacts DEF deleteRoleChildIfOwned, recheckRoleChild
<1>3. CASE markRoleDeletionBlocked(r, worker[r].copy.status) /\ UNCHANGED ack
  BY <1>2, <1>3, BlockKeeps
<1>4. CASE /\ \E pc \in {"drecheck", "dfinal"} : Goto(r, pc, worker[r].new)
           /\ UNCHANGED role
           /\ \A q \in Roles \ {r} : ack'[q] = ack[q]
  <2>1. PICK pc \in {"drecheck", "dfinal"} : Goto(r, pc, worker[r].new)
    BY <1>4
  <2>2. /\ \A q \in Roles \ {r} : worker'[q] = worker[q]
        /\ worker'[r].pc = pc /\ worker'[r].copy = worker[r].copy
    BY <2>1, TypesOf DEF Goto
  <2>3. pc \in DeleteSteps
    BY DEF DeleteSteps
  <2>4. QED
    BY <1>2, <1>4, <2>2, <2>3, DeleteGotoKeeps
<1>5. CASE deleteRoleChildIfOwned(r)
  <2>1. \A q \in Roles \ {r} : ack'[q] = ack[q]
    BY <1>5, TypesOf DEF deleteRoleChildIfOwned
  <2>2. QED
    BY <1>3, <1>4, <1>5, <2>1 DEF deleteRoleChildIfOwned
<1>6. CASE recheckRoleChild(r)
  BY <1>3, <1>4, <1>6 DEF recheckRoleChild
<1>7. QED
  BY <1>5, <1>6

\* Clearing DeletionBlocked and removing the finalizer keep the invariant of the role.
LEMMA FinalizerKeeps ==
  ASSUME TypeOK, CustodyInvariant, NEW r \in Roles,
         clearRoleDeletionBlocked(r) \/ removeFinalizer(r)
  PROVE  \A q \in Roles : RoleInvariant(q)'
<1> DEFINE before == worker[r].copy.status
           new    == [before EXCEPT !.conds = @ \ {"DeletionBlocked"}]
<1> USE DEF saVars
<1>1. worker[r].pc = "dfinal" /\ worker[r].pc \in DeleteSteps /\ RoleInvariant(r)
  BY DEF clearRoleDeletionBlocked, removeFinalizer, DeleteSteps, CustodyInvariant
<1>2. /\ worker[r].copy.st = "deleting" /\ before \in Status
      /\ role[r].st \in {"deleting", "gone"}
      /\ roleCache[r].st \in {"deleting", "gone"}
      /\ sa # r
      /\ UNCHANGED <<roleCache, ack, ackCache, sa, saFresh>>
  BY <1>1, DeleteFacts DEF clearRoleDeletionBlocked, removeFinalizer
<1>3. /\ \A q \in Roles \ {r} : role'[q] = role[q] /\ worker'[q] = worker[q]
      /\ role'[r] \in RoleObject
      /\ Later(role[r], role'[r])
      /\ \/ worker'[r].pc = "idle"
         \/ worker'[r].pc = "dfinal" /\ worker'[r].copy.st = "deleting"
  <2>1. CASE clearRoleDeletionBlocked(r)
    <3>1. new \in Status /\ new.arn = before.arn /\ new.dtype = before.dtype
      BY <1>2 DEF Status
    <3>2. patchRoleStatus(r, before, new)
      BY <2>1 DEF clearRoleDeletionBlocked
    <3> HIDE DEF new
    <3>3. /\ \A q \in Roles \ {r} : role'[q] = role[q]
          /\ role'[r].st = role[r].st /\ Later(role[r], role'[r])
          /\ role' \in [Roles -> RoleObject]
      BY <1>2, <3>1, <3>2, PatchKeeps, PatchTypes
    <3>4. CASE Present(r) /\ worker' = [worker EXCEPT ![r].copy = role'[r]]
      <4>1. /\ \A q \in Roles \ {r} : worker'[q] = worker[q]
            /\ worker'[r] = [worker[r] EXCEPT !.copy = role'[r]]
        BY <3>4, TypesOf
      <4>2. worker'[r].pc = "dfinal" /\ worker'[r].copy = role'[r]
        BY <4>1, <1>1, TypesOf DEF Pass
      <4>3. QED
        BY <1>2, <3>3, <3>4, <4>1, <4>2 DEF Present
    <3>5. CASE EndPass(r)
      <4>1. /\ \A q \in Roles \ {r} : worker'[q] = worker[q]
            /\ worker'[r].pc = "idle"
        BY <3>5, TypesOf DEF EndPass, Idle
      <4>2. QED
        BY <3>3, <4>1
    <3>6. QED
      BY <2>1, <3>4, <3>5 DEF clearRoleDeletionBlocked
  <2>2. CASE removeFinalizer(r)
    <3>1. /\ \A q \in Roles \ {r} : worker'[q] = worker[q]
          /\ worker'[r].pc = "idle"
      BY <2>2, TypesOf DEF removeFinalizer, EndPass, Idle
    <3>2. CASE role' = role
      BY <3>1, <3>2, TypesOf, LaterReflexive
    <3>3. CASE role' = [role EXCEPT ![r] = [@ EXCEPT !.st = "gone", !.fin = FALSE]]
      <4>1. /\ \A q \in Roles \ {r} : role'[q] = role[q]
            /\ role'[r] = [role[r] EXCEPT !.st = "gone", !.fin = FALSE]
        BY <3>3, TypesOf, Zenon
      <4>2. role'[r] \in RoleObject /\ Later(role[r], role'[r])
        BY <4>1, TypesOf, ZenonT(30) DEF RoleObject, Later
      <4>3. QED
        BY <3>1, <4>1, <4>2
    <3>4. QED
      BY <2>2, <3>2, <3>3 DEF removeFinalizer
  <2>3. QED
    BY <2>1, <2>2
<1>4. \A q \in Roles \ {r} : RoleInvariant(q)'
  BY <1>2, <1>3, OthersKept, SMTT(30)
<1>5. CacheBehind(r)'
  BY <1>1, <1>2, <1>3, TypesOf, LaterTransitive, SMTT(30) DEF RoleInvariant, CacheBehind
<1>6. role'[r].st \in {"deleting", "gone"}
  BY <1>2, <1>3 DEF Later
<1>7. ACKKept(r)' /\ NormalPass(r)' /\ GoneForGood(r)' /\ OwnerRecorded(r)'
  BY <1>2, <1>3
     DEF ACKKept, Untouched, NormalPass, GoneForGood, OwnerRecorded, NormalSteps
<1>8. DeletePass(r)'
  BY <1>2, <1>3, <1>6 DEF DeletePass, DeleteSteps
<1>9. QED
  BY <1>4, <1>5, <1>7, <1>8 DEF RoleInvariant

\* A pass that ends early keeps the invariant of the role.
LEMMA AbortKeeps ==
  ASSUME TypeOK, CustodyInvariant, NEW r \in Roles, abortPass(r)
  PROVE  \A q \in Roles : RoleInvariant(q)'
<1> USE DEF hubVars
<1>1. /\ \A q \in Roles \ {r} : worker'[q] = worker[q]
      /\ worker'[r].pc = "idle"
  BY TypesOf DEF abortPass, EndPass, Idle
<1>2. \A q \in Roles \ {r} : RoleInvariant(q)'
  BY <1>1, OthersKept, SMTT(30) DEF abortPass
<1>3. CacheBehind(r)' /\ ACKKept(r)' /\ OwnerRecorded(r)' /\ GoneForGood(r)'
  BY <1>1, SMTT(30) DEF abortPass, CustodyInvariant, RoleInvariant, CacheBehind, ACKKept, Untouched,
              OwnerRecorded, Recorded, GoneForGood, Later, NormalSteps
<1>4. NormalPass(r)' /\ DeletePass(r)'
  BY <1>1 DEF NormalPass, DeletePass, NormalSteps, DeleteSteps
<1>5. QED
  BY <1>2, <1>3, <1>4 DEF RoleInvariant

\* Creating and deleting a role keeps its invariant.
LEMMA UsersKeep ==
  ASSUME TypeOK, CustodyInvariant, NEW r \in Roles, Users(r)
  PROVE  \A q \in Roles : RoleInvariant(q)'
<1> USE DEF saVars
<1>0. RoleInvariant(r) /\ Later(roleCache[r], role[r])
  BY DEF CustodyInvariant, RoleInvariant, CacheBehind
<1>1. /\ UNCHANGED <<roleCache, ack, ackCache, worker, sa, saFresh>>
      /\ \A q \in Roles \ {r} : role'[q] = role[q]
      /\ role'[r].fin = role[r].fin /\ role'[r].status = role[r].status
      /\ \/ role[r].st = "none" /\ role'[r].st = "live"
         \/ role[r].st = "live" /\ role'[r].st = "deleting"
         \/ role[r].st = "live" /\ role'[r].st = "gone" /\ ~role[r].fin
  BY TypesOf DEF Users, CreateRole, DeleteRole, RoleObject
<1>2. \A q \in Roles \ {r} : RoleInvariant(q)'
  BY <1>1, OthersKept, SMTT(30)
<1>3. CacheBehind(r)'
  BY <1>0, <1>1, TypesOf DEF CacheBehind, Later, RoleObject
<1>4. ~role[r].fin /\ role[r].st # "gone" => ~roleCache[r].fin
  BY <1>0, Zenon DEF Later
<1>5. ACKKept(r)' /\ OwnerRecorded(r)' /\ GoneForGood(r)' /\ DeletePass(r)'
  BY <1>0, <1>1, <1>4, Zenon
     DEF RoleInvariant, ACKKept, Untouched, OwnerRecorded, Recorded, GoneForGood, DeletePass
<1>6. NormalPass(r)'
  <2>1. worker[r].pc \in NormalSteps => /\ worker[r].copy.fin
                                        /\ Later(worker[r].copy, roleCache[r])
                                        /\ role[r].st # "gone"
    BY <1>0 DEF RoleInvariant, NormalPass
  <2>2. worker[r].pc \in NormalSteps => roleCache[r].fin
    BY <1>0, <2>1 DEF Later
  <2>3. worker[r].pc \in NormalSteps => role'[r].st # "gone"
    BY <1>1, <1>4, <2>2
  <2>4. QED
    BY <1>0, <1>1, <2>3, ZenonT(30) DEF RoleInvariant, NormalPass, Later, Recorded
<1>7. QED
  BY <1>2, <1>3, <1>5, <1>6 DEF RoleInvariant

\* ACK and the caches keep the invariant of the role.
LEMMA EnvironmentKeeps ==
  ASSUME SoleWriter, TypeOK, CustodyInvariant, NEW r \in Roles, Environment(r)
  PROVE  \A q \in Roles : RoleInvariant(q)'
<1> USE DEF saVars
<1>0. /\ RoleInvariant(r) /\ Later(roleCache[r], role[r])
      /\ UNCHANGED <<role, worker, sa, saFresh>>
  BY DEF CustodyInvariant, RoleInvariant, CacheBehind, Environment, ACKSync, ACKLoss,
         SyncRole, SyncACK
<1>1. CASE SyncRole(r)
  <2>1. /\ UNCHANGED <<ack, ackCache>>
        /\ \A q \in Roles \ {r} : roleCache'[q] = roleCache[q]
        /\ roleCache'[r] = role[r]
    BY <1>1, TypesOf, SMTT(30) DEF SyncRole
  <2>2. \A q \in Roles \ {r} : RoleInvariant(q)'
    BY <1>0, <2>1, OthersKept
  <2>3. CacheBehind(r)' /\ GoneForGood(r)'
    BY <1>0, <2>1, TypesOf, LaterReflexive, SMTT(30) DEF CacheBehind, GoneForGood
  <2>4. ACKKept(r)'
    <3>1. roleCache[r].st \in {"none", "live", "deleting", "gone"}
      BY TypesOf DEF RoleObject
    <3>2. role[r].st \in {"none", "live"} => roleCache[r].st \in {"none", "live"}
      BY <1>0, <3>1 DEF Later
    <3>3. Untouched(r)' => Untouched(r)
      BY <1>0, <2>1, <3>2 DEF Untouched
    <3>4. ACKKept(r)
      BY <1>0 DEF RoleInvariant
    <3>5. ack'[r] = ack[r] /\ ackCache'[r] = ackCache[r] /\ role'[r] = role[r]
      BY <1>0, <2>1
    <3>6. QED
      BY <3>3, <3>4, <3>5, Zenon DEF ACKKept
  <2>5. NormalPass(r)'
    <3>1. worker[r].pc \in NormalSteps => Later(worker[r].copy, role[r])
      BY <1>0, TypesOf, LaterTransitive DEF RoleInvariant, NormalPass
    <3>2. worker'[r].pc \in NormalSteps => Later(worker'[r].copy, roleCache'[r])
      BY <1>0, <2>1, <3>1
    <3>3. QED
      BY <1>0, <2>1, <3>2, ZenonT(30) DEF RoleInvariant, NormalPass, Recorded
  <2>6. DeletePass(r)'
    BY <1>0, <2>1, SMTT(30) DEF RoleInvariant, DeletePass
  <2>7. OwnerRecorded(r)'
    BY <1>0, <2>1, TypesOf DEF RoleInvariant, OwnerRecorded, Recorded, Later, RoleObject
  <2>8. QED
    BY <2>2, <2>3, <2>4, <2>5, <2>6, <2>7 DEF RoleInvariant
<1>2. CASE SyncACK(r) \/ ACKSync(r)
  <2>1. /\ UNCHANGED roleCache
        /\ \A q \in Roles \ {r} : ack'[q] = ack[q] /\ ackCache'[q] = ackCache[q]
        /\ \/ ack'[r] = ack[r] /\ ackCache'[r] = ack[r]
           \/ /\ ackCache'[r] = ackCache[r]
              /\ \/ ack[r].st = "live" /\ ack'[r].st = "live" /\ ack'[r].arn
                 \/ ack[r].st = "deleting" /\ ack'[r] = NoACK
    BY <1>2, TypesOf DEF SyncACK, ACKSync, ACKObject
  <2>2. \A q \in Roles \ {r} : RoleInvariant(q)'
    BY <1>0, <2>1, OthersKept, SMTT(30)
  <2>3. CacheBehind(r)' /\ GoneForGood(r)' /\ DeletePass(r)' /\ OwnerRecorded(r)'
    BY <1>0, <2>1, ZenonT(30)
       DEF RoleInvariant, CacheBehind, GoneForGood, DeletePass, OwnerRecorded, Recorded, Later
  <2>4. ACKKept(r)'
    BY <1>0, <2>1, ZenonT(30) DEF RoleInvariant, ACKKept, Untouched
  <2>5. NormalPass(r)'
    <3>1. worker[r].pc \in NormalSteps /\ ackCache[r].arn => ackCache'[r].arn
      BY <1>0, <2>1 DEF RoleInvariant, ACKKept, Untouched
    <3>2. QED
      BY <1>0, <2>1, <3>1, ZenonT(30) DEF RoleInvariant, NormalPass, Recorded, Later
  <2>6. QED
    BY <2>2, <2>3, <2>4, <2>5 DEF RoleInvariant
<1>3. ~ACKLoss(r)
  BY DEF SoleWriter, ACKLoss, Disturb
<1>4. QED
  BY <1>1, <1>2, <1>3 DEF Environment

\* Config changes and drift keep the invariant of every role.
LEMMA SharedKeeps ==
  ASSUME CustodyInvariant, ConfigChange \/ Drift \/ SyncConfig
  PROVE  \A q \in Roles : RoleInvariant(q)'
<1> USE DEF saVars, hubVars
<1>1. TAKE r \in Roles
<1>2. RoleInvariant(r)
  BY DEF CustodyInvariant
<1>3. /\ UNCHANGED <<role, roleCache, ack, ackCache, worker>>
      /\ \/ UNCHANGED <<sa, saFresh>>
         \/ sa' \in {sa, "none", "absent"} /\ saFresh' = {}
  BY DEF ConfigChange, Drift, SyncConfig, WriteSA
<1>4. QED
  BY <1>2, <1>3, Frame, RolesAssumption

\* A repair controller that is off stays idle.
LEMMA NoRepairKept ==
  ASSUME SoleWriter, NoRepair, Next
  PROVE  NoRepair'
<1> USE DEF NoRepair, SoleWriter, saVars, hubVars
<1>1. \A value : WriteSA(value) => ~saQueued'
  BY Zenon DEF WriteSA, annotationRepairPredicate
<1>2. ~RepairStep /\ ~abortRepair
  BY DEF RepairStep, repairGet, repairList, repairPatch, abortRepair
<1>3. ASSUME NEW r \in Roles, WorkerNormal(r)
      PROVE  NoRepair'
  BY <1>1, <1>3 DEF WorkerNormal, ensureFinalizer, reconcileNormal, reconcileIAMRole,
                    getServiceAccount, patchServiceAccount, patchStatus
<1>4. ASSUME NEW r \in Roles, WorkerDelete(r)
      PROVE  NoRepair'
  BY <1>1, <1>4
     DEF WorkerDelete, cleanupRemoteServiceAccountAnnotations, getServiceAccountForRemoval,
         removeServiceAccountAnnotations, deleteRoleChildIfOwned, recheckRoleChild,
         clearRoleDeletionBlocked, removeFinalizer
<1>5. ASSUME NEW r \in Roles, abortPass(r) \/ Users(r) \/ Environment(r)
      PROVE  NoRepair'
  BY <1>5 DEF abortPass, Users, CreateRole, DeleteRole, Environment, ACKSync, ACKLoss,
              SyncRole, SyncACK
<1>6. ASSUME ConfigChange \/ Drift \/ SyncConfig
      PROVE  NoRepair'
  BY <1>1, <1>6 DEF ConfigChange, Drift, SyncConfig
<1>7. QED
  BY <1>2, <1>3, <1>4, <1>5, <1>6 DEF Next, Shared

\* The inductive invariant, for every set of roles and any number of crashes,
\* errors, forced config deletions and edits of the ServiceAccount: whatever the
\* cache or a pass holds of a role is a past version of a record that only grows.
THEOREM CustodyInvariantHolds ==
  ASSUME SoleWriter
  PROVE  Spec => []CustodyInvariant
<1>1. Init => CustodyInvariant
  <2>1. SUFFICES ASSUME Init PROVE CustodyInvariant
    OBVIOUS
  <2>2. NoRepair
    BY <2>1 DEF Init, NoRepair, RepairIdle
  <2>3. ASSUME NEW r \in Roles
        PROVE  RoleInvariant(r)
    <3>1. /\ role[r] = NoRole /\ roleCache[r] = NoRole /\ ack[r] = NoACK
          /\ ackCache[r] = NoACK /\ worker[r].pc = "idle" /\ sa # r
      BY <2>1, RolesAssumption DEF Init, Idle
    <3>2. CacheBehind(r)
      BY <3>1, SMTT(30) DEF CacheBehind, Later, NoRole, NoStatus
    <3>3. ACKKept(r)
      BY <3>1 DEF ACKKept, NoRole, NoStatus, NoACK
    <3>4. NormalPass(r)
      BY <3>1 DEF NormalPass, NormalSteps
    <3>5. DeletePass(r)
      BY <3>1 DEF DeletePass, DeleteSteps
    <3>6. OwnerRecorded(r) /\ GoneForGood(r)
      BY <3>1 DEF OwnerRecorded, GoneForGood, NoRole
    <3>7. QED
      BY <3>2, <3>3, <3>4, <3>5, <3>6 DEF RoleInvariant
  <2>4. QED
    BY <2>2, <2>3 DEF CustodyInvariant
<1>2. TypeOK /\ CustodyInvariant /\ [Next]_vars => CustodyInvariant'
  <2>1. ASSUME CustodyInvariant, UNCHANGED vars
        PROVE  CustodyInvariant'
    <3>1. \A r \in Roles : RoleInvariant(r)'
      BY <2>1, Frame DEF CustodyInvariant, vars
    <3>2. QED
      BY <2>1, <3>1 DEF CustodyInvariant, NoRepair, vars
  <2>2. ASSUME TypeOK, CustodyInvariant, Next
        PROVE  CustodyInvariant'
    <3>1. NoRepair'
      BY <2>2, NoRepairKept DEF CustodyInvariant
    <3>2. ~RepairStep /\ ~abortRepair
      BY <2>2 DEF CustodyInvariant, NoRepair, RepairStep, repairGet, repairList,
                  repairPatch, abortRepair
    <3>3. ASSUME NEW r \in Roles, WorkerNormal(r)
          PROVE  \A q \in Roles : RoleInvariant(q)'
      BY <2>2, <3>3, ensureFinalizerKeeps, reconcileNormalKeeps, reconcileIAMRoleKeeps,
         DeliveryKeeps DEF WorkerNormal
    <3>4. ASSUME NEW r \in Roles, WorkerDelete(r)
          PROVE  \A q \in Roles : RoleInvariant(q)'
      BY <2>2, <3>4, CleanupKeeps, RemovalKeeps, ChildrenKeep, FinalizerKeeps
         DEF WorkerDelete
    <3>5. \A q \in Roles : RoleInvariant(q)'
      BY <2>2, <3>2, <3>3, <3>4, AbortKeeps, UsersKeep, EnvironmentKeeps, SharedKeeps
         DEF Next, Shared
    <3>6. QED
      BY <3>1, <3>5 DEF CustodyInvariant
  <2>3. QED
    BY <2>1, <2>2
<1>3. QED
  BY <1>1, <1>2, TypeCorrect, PTL DEF Spec

\* What the invariant says of the role the ServiceAccount names.
LEMMA OwnerIsRecorded ==
  ASSUME TypeOK, CustodyInvariant, NEW r \in Roles, sa = r
  PROVE  Present(r) /\ Recorded(role[r])
<1>1. /\ Recorded(roleCache[r]) /\ roleCache[r].st \in {"live", "deleting"}
      /\ role[r].st # "gone" /\ Later(roleCache[r], role[r])
  BY DEF CustodyInvariant, RoleInvariant, OwnerRecorded, CacheBehind
<1>2. Present(r)
  BY <1>1, TypesOf DEF Later, Present, RoleObject
<1>3. QED
  BY <1>1, <1>2 DEF Later, Recorded

\* No ServiceAccount carries the ARN of a role that is gone, for every number of
\* roles and disturbances.
THEOREM NoLeak ==
  ASSUME SoleWriter
  PROVE  Spec => []NoLeakedAnnotation
<1>1. TypeOK /\ CustodyInvariant => NoLeakedAnnotation
  BY OwnerIsRecorded DEF NoLeakedAnnotation
<1>2. QED
  BY <1>1, TypeCorrect, CustodyInvariantHolds, PTL

\* The record that finalization needs is on the API server before and as long as
\* the annotation is on the ServiceAccount.
THEOREM RecordFirst ==
  ASSUME SoleWriter
  PROVE  Spec => []RecordedBeforeDelivered
<1>1. TypeOK /\ CustodyInvariant => RecordedBeforeDelivered
  BY OwnerIsRecorded DEF RecordedBeforeDelivered
<1>2. QED
  BY <1>1, TypeCorrect, CustodyInvariantHolds, PTL

\* The role controller never deletes the ACK IAM Role of a role while the
\* ServiceAccount carries its ARN.
THEOREM DeliveryFirst ==
  ASSUME SoleWriter
  PROVE  Spec => DeliveryRemovedFirst
<1> DEFINE Kept(r) ==
      ack[r].st = "live" /\ ack'[r].st # "live" => sa # r \/ disturbed' # disturbed
<1> USE DEF saVars, hubVars
<1>1. ASSUME TypeOK, CustodyInvariant, Next, NEW r \in Roles
      PROVE  Kept(r)
  <2>1. CASE UNCHANGED ack
    BY <2>1
  <2>2. ASSUME NEW q \in Roles, deleteRoleChildIfOwned(q)
        PROVE  Kept(r)
    <3>1. sa # q
      BY <1>1, <2>2, DeleteFacts DEF deleteRoleChildIfOwned, DeleteSteps
    <3>2. r # q => ack'[r] = ack[r]
      BY <1>1, <2>2, TypesOf DEF deleteRoleChildIfOwned
    <3>3. QED
      BY <3>1, <3>2
  <2>3. ASSUME NEW q \in Roles, reconcileIAMRole(q)
        PROVE  Kept(r)
    <3>1. \/ ack' = ack
          \/ ack[q].st = "none" /\ ack' = [ack EXCEPT ![q] = [st |-> "live", arn |-> FALSE]]
      BY <2>3 DEF reconcileIAMRole
    <3>2. QED
      BY <1>1, <3>1, TypesOf
  <2>4. ASSUME NEW q \in Roles, ACKSync(q)
        PROVE  Kept(r)
    <3>1. \/ ack' = [ack EXCEPT ![q].arn = TRUE]
          \/ ack[q].st = "deleting" /\ ack' = [ack EXCEPT ![q] = NoACK]
      BY <2>4 DEF ACKSync
    <3>2. CASE ack' = [ack EXCEPT ![q].arn = TRUE]
      BY <1>1, <3>2, TypesOf DEF ACKObject
    <3>3. CASE ack[q].st = "deleting" /\ ack' = [ack EXCEPT ![q] = NoACK]
      BY <1>1, <3>3, TypesOf
    <3>4. QED
      BY <3>1, <3>2, <3>3
  <2>5. ASSUME NEW q \in Roles, ACKLoss(q)
        PROVE  Kept(r)
    BY <1>1, <2>5 DEF SoleWriter, ACKLoss, Disturb
  <2>6. \/ UNCHANGED ack
        \/ \E q \in Roles : \/ deleteRoleChildIfOwned(q) \/ reconcileIAMRole(q)
                            \/ ACKSync(q) \/ ACKLoss(q)
    <3>1. ASSUME NEW q \in Roles, WorkerNormal(q)
          PROVE  UNCHANGED ack \/ reconcileIAMRole(q)
      BY <3>1 DEF WorkerNormal, ensureFinalizer, reconcileNormal, getServiceAccount,
                  patchServiceAccount, patchStatus
    <3>2. ASSUME NEW q \in Roles, WorkerDelete(q)
          PROVE  UNCHANGED ack \/ deleteRoleChildIfOwned(q)
      BY <3>2 DEF WorkerDelete, cleanupRemoteServiceAccountAnnotations,
                  getServiceAccountForRemoval, removeServiceAccountAnnotations,
                  recheckRoleChild, clearRoleDeletionBlocked, removeFinalizer
    <3>3. ASSUME NEW q \in Roles, abortPass(q) \/ Users(q) \/ Environment(q)
          PROVE  UNCHANGED ack \/ ACKSync(q) \/ ACKLoss(q)
      BY <3>3 DEF abortPass, Users, CreateRole, DeleteRole, Environment, SyncRole, SyncACK
    <3>4. ASSUME RepairStep \/ Shared
          PROVE  UNCHANGED ack
      BY <3>4, Zenon DEF RepairStep, repairGet, repairList, repairPatch, Shared, abortRepair,
                  ConfigChange, Drift, SyncConfig
    <3>5. QED
      BY <1>1, <3>1, <3>2, <3>3, <3>4 DEF Next
  <2>7. QED
    BY <2>1, <2>2, <2>3, <2>4, <2>5, <2>6
<1>2. TypeOK /\ CustodyInvariant /\ [Next]_vars => [\A r \in Roles : Kept(r)]_vars
  BY <1>1
<1>3. QED
  BY <1>2, TypeCorrect, CustodyInvariantHolds, PTL DEF Spec, DeliveryRemovedFirst

================================================================================
