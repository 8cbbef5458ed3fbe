-------------------------- MODULE ConfigIssuerProofs ---------------------------
(***************************************************************************)
(* Proofs about the config controller and its issuer, for any number of    *)
(* configs, keys and disturbances: the signing key is never replaced,      *)
(* objects of other controllers are left alone, the IAM provider comes     *)
(* after both documents, and the documents go before the finalizer.        *)
(***************************************************************************)
EXTENDS ConfigIssuer, TLAPS

----------------------------------------------------------------------------
(* The inductive invariant.                                                *)

\* The cache, and the copy a pass works on, show an object of the namespace that
\* exists or existed; the type of one object never changes.
Shows(c) ==
  /\ c.uid <= config.uid
  /\ c.st # "none" => c.uid > 0 /\ c.type \in ConfigTypes
  /\ c.st # "none" /\ config.st # "none" /\ c.uid = config.uid => c.type = config.type

ConfigInv == Shows(config) /\ Shows(configCache)

\* A pass has a config; the issuer path has its key, and the documents it is done with
\* are rendered from that key.
PassInv ==
  /\ worker.pc # "idle" => worker.copy.st # "none" /\ Shows(worker.copy)
  /\ worker.pc \in {"secret", "bucket", "publish"} => worker.copy.type = "SelfHostedIRSA"
  /\ worker.pc \in {"bucket", "publish"} => worker.key # 0
  /\ worker.pc = "publish" => \A d \in Documents \ worker.todo : s3.doc[d] = worker.key
  /\ worker.pc = "provider" /\ worker.copy.type = "SelfHostedIRSA" =>
       worker.key # 0 /\ \A d \in Documents : s3.doc[d] = worker.key

\* What belongs to another controller is as it was from the start, and the cache
\* knows; what does not is owned by a config that has existed.
OwnedBy(obj) ==
  obj.owner # Foreign => obj.owner <= config.uid /\ (obj.st # "none" => obj.owner > 0)

OwnerInv ==
  /\ bucket.owner = Foreign => bucket = ForeignObject /\ worker.pc # "publish"
  /\ bucket.owner = Foreign <=> bucketCache.owner = Foreign
  /\ bucketCache.owner = Foreign => bucketCache = ForeignObject
  /\ provider.owner = Foreign => provider = ForeignObject
  /\ provider.owner = Foreign <=> providerCache.owner = Foreign
  /\ providerCache.owner = Foreign => providerCache = ForeignObject
  /\ OwnedBy(bucket) /\ OwnedBy(bucketCache)

\* The S3 bucket is there as long as ACK's object says so.
BucketInv ==
  /\ bucket.st = "none" => bucket = NoObject
  /\ bucketCache.st = "none" => bucketCache = NoObject
  /\ bucket.owner # Foreign => (s3.exists <=> bucket.synced)

\* The namespace has its first config, and no other controller's bucket.
First == config.uid = 1 /\ config.st # "none" /\ bucket.owner # Foreign

\* As long as there are documents of the first config, the cache shows the Bucket that
\* witnesses its ownership, and a deletion that is past the documents left none.
DocumentInv ==
  /\ config.uid = 0 /\ bucket.owner # Foreign => s3.doc = Withdrawn
  /\ First /\ s3.doc # Withdrawn => bucketCache.st # "none" /\ config.type = "SelfHostedIRSA"
  /\ First /\ worker.pc = "publish" => bucketCache.st # "none" \/ bucket.st = "none"
  /\ First /\ worker.pc = "delete" /\ "objects" \notin worker.todo /\ ~worker.failed =>
       s3.doc = Withdrawn
  /\ First /\ worker.pc = "final" => s3.doc = Withdrawn

IInv == TypeOK /\ ConfigInv /\ PassInv /\ OwnerInv /\ BucketInv /\ DocumentInv

----------------------------------------------------------------------------
(* Type correctness.                                                       *)

\* The constants are types.
LEMMA Constants ==
  /\ NoStatus \in Status /\ Idle \in Pass /\ NoSecret \in Secret /\ NoObject \in ACKObject
  /\ ForeignObject \in ACKObject
  /\ Withdrawn \in [Documents -> Keys] /\ Published(MaxKeys) \in [Documents -> Keys]
  /\ \A u \in UIDs : NoConfig(u) \in Config
  /\ 0 \in UIDs /\ 0 \in Keys /\ Foreign \notin UIDs
<1>1. 0 \in UIDs /\ 0 \in Keys /\ MaxKeys \in Keys /\ Foreign \notin UIDs
  BY ConfigAssumption DEF UIDs, Keys, Foreign
<1>2. NoStatus \in Status
  BY <1>1 DEF NoStatus, Status, Issuers, Conditions
<1>3. \A u \in UIDs : NoConfig(u) \in Config
  BY <1>2 DEF NoConfig, Config
<1>4. Idle \in Pass
  BY <1>1, <1>2, <1>3 DEF Idle, Pass, Remotes
<1>5. NoSecret \in Secret /\ NoObject \in ACKObject
  BY <1>1 DEF NoSecret, Secret, NoObject, ACKObject, Issuers
<1>6. ForeignObject \in ACKObject
  BY <1>5, Zenon DEF ForeignObject, ACKObject
<1>7. Withdrawn \in [Documents -> Keys] /\ Published(MaxKeys) \in [Documents -> Keys]
  BY <1>1 DEF Withdrawn, Published
<1>. QED
  BY <1>1, <1>2, <1>3, <1>4, <1>5, <1>6, <1>7

\* The types of uids and owners.
LEMMA NumberTypes ==
  ASSUME TypeOK
  PROVE  /\ config.uid \in Nat /\ configCache.uid \in Nat
         /\ worker.copy.uid \in Nat /\ worker.copy.uid # Foreign
         /\ bucket.owner \in Nat /\ bucketCache.owner \in Nat /\ 0 # Foreign
<1>1. UIDs \subseteq Nat /\ Foreign \in Nat /\ Foreign \notin UIDs /\ 0 \in UIDs
  BY ConfigAssumption DEF UIDs, Foreign
<1>2. config.uid \in UIDs /\ configCache.uid \in UIDs
  BY DEF TypeOK, Config
<1>3. worker.copy.uid \in UIDs
  BY DEF TypeOK, Pass, Config
<1>4. bucket.owner \in UIDs \cup {Foreign} /\ bucketCache.owner \in UIDs \cup {Foreign}
  BY DEF TypeOK, ACKObject
<1>. QED
  BY <1>1, <1>2, <1>3, <1>4, Zenon

\* A status patch changes nothing but the status of a config that exists.
LEMMA PatchType ==
  ASSUME config \in Config, NEW after \in Status, patchConfigStatus(after)
  PROVE  /\ config' \in Config
         /\ config'.uid = config.uid /\ config'.st = config.st /\ config'.type = config.type
<1>1. CASE config.st = "none"
  BY <1>1 DEF patchConfigStatus
<1>2. CASE config.st # "none"
  <2>1. PICK sent \in {TRUE, after.conds # worker.copy.status.conds} :
          config' = [config EXCEPT
            !.status = MergePatch(config.status, worker.copy.status, after, sent)]
    BY <1>2, Zenon DEF patchConfigStatus
  <2>2. MergePatch(config.status, worker.copy.status, after, sent) \in Status
    BY DEF MergePatch, Status, Config
  <2>. QED
    BY <2>1, <2>2 DEF Config
<1>. QED
  BY <1>1, <1>2

\* What the conditions and the report of a pass are made of.
LEMMA StatusType ==
  ASSUME NEW s \in Status, NEW b \in BOOLEAN
  PROVE  /\ [s EXCEPT !.conds.ready = b] \in Status
         /\ [s EXCEPT !.conds.issuer = b] \in Status
         /\ [s EXCEPT !.conds.blocked = b] \in Status
         /\ \A a \in Issuers : [s EXCEPT !.arn = a, !.conds.issuer = b] \in Status
         /\ \A k \in Keys : [s EXCEPT !.pub = k] \in Status
         /\ \A k \in Keys : [s EXCEPT !.pub = k, !.conds.issuer = b] \in Status
         /\ \A k \in Keys, a \in Issuers : [s EXCEPT !.pub = k, !.arn = a] \in Status
         /\ \A k \in Keys, a \in Issuers :
              [s EXCEPT !.pub = k, !.arn = a, !.conds.issuer = b] \in Status
<1>1. [s.conds EXCEPT !.ready = b] \in Conditions
  BY DEF Status, Conditions
<1>2. [s.conds EXCEPT !.issuer = b] \in Conditions
  BY DEF Status, Conditions
<1>3. [s.conds EXCEPT !.blocked = b] \in Conditions
  BY DEF Status, Conditions
<1>. QED
  BY <1>1, <1>2, <1>3, Zenon DEF Status

\* createOrUpdate makes an ACK object of an ACK object.
LEMMA MutatedType ==
  ASSUME worker \in Pass, NEW cached \in ACKObject, NEW url \in Issuers
  PROVE  /\ Mutated(cached, url) \in ACKObject
         /\ Mutated(cached, url).owner = worker.copy.uid
         /\ Mutated(cached, url).url = url
         /\ Mutated(cached, url).st # "none"
         /\ cached.st # "none" => Mutated(cached, url).synced = cached.synced
         /\ cached.st = "none" => ~Mutated(cached, url).synced
<1>1. worker.copy.uid \in UIDs
  BY DEF Pass, Config
<1>2. NoObject \in ACKObject
  BY Constants
<1>3. Mutated(cached, url) \in ACKObject
  BY <1>1, <1>2, Zenon DEF Mutated, ACKObject
<1>4. /\ Mutated(cached, url).owner = worker.copy.uid
      /\ Mutated(cached, url).url = url
      /\ Mutated(cached, url).st # "none"
  BY <1>1, <1>2 DEF Mutated, ACKObject
<1>5. /\ cached.st # "none" => Mutated(cached, url).synced = cached.synced
      /\ cached.st = "none" => ~Mutated(cached, url).synced
  BY Zenon DEF Mutated, ACKObject, NoObject
<1>. QED
  BY <1>3, <1>4, <1>5

\* So does Delete.
LEMMA DeletedType ==
  ASSUME NEW obj \in ACKObject, NEW new \in Deleted(obj)
  PROVE  /\ new \in ACKObject
         /\ \/ new = obj
            \/ new = NoObject /\ ~obj.synced
            \/ /\ new.st # "none" /\ new.owner = obj.owner /\ new.synced = obj.synced
               /\ obj.st # "none"
<1>1. NoObject \in ACKObject
  BY Constants
<1>. QED
  BY <1>1 DEF Deleted, ACKObject

\* A write stores what the mutation made, or nothing.
LEMMA WrittenType ==
  ASSUME NEW server, NEW cached, NEW new
  PROVE  Written(server, cached, new) \in {server, new}
BY DEF Written

\* A pass that fails stays a pass.
LEMMA FailsType ==
  ASSUME worker \in Pass, issuerFails
  PROVE  worker' \in Pass /\ worker'.pc = "status" /\ worker'.copy = worker.copy
<1>1. Failure \in Status
  <2>1. worker.status \in Status
    BY DEF Pass
  <2>2. [worker.status EXCEPT !.arn = "none", !.conds.issuer = FALSE] \in Status
    BY <2>1, StatusType, Zenon DEF Issuers
  <2>3. [worker.status EXCEPT !.conds.issuer = FALSE] \in Status
    BY <2>1, StatusType, Zenon
  <2>. QED
    BY <2>1, <2>2, <2>3 DEF Failure, setSelfHostedIssuerFailureCondition
<1>. QED
  BY <1>1, Zenon DEF issuerFails, Pass

\* Disturbances are counted up to the bound.
LEMMA DisturbType ==
  ASSUME TypeOK, NEW kind, Disturb(kind)
  PROVE  changes' \in 0 .. MaxChanges
BY ConfigAssumption DEF TypeOK, Disturb

----------------------------------------------------------------------------
(* What the larger actions do.                                             *)

\* Which actions write a variable.
LEMMA Frame ==
  ASSUME [Next]_vars
  PROVE  /\ \/ config' = config \/ ensureFinalizer \/ finishNormal \/ failReady
            \/ markDeletionBlocked \/ clearDeletionBlocked \/ removeFinalizer \/ User
         /\ \/ secret' = secret \/ reconcileSigningSecret \/ deleteSigningSecret
            \/ CollectGarbage \/ ChangeSecret
         /\ \/ bucket' = bucket \/ reconcileSelfHostedBucket \/ deleteBucket
            \/ CollectGarbage \/ ACKBucket
         /\ \/ provider' = provider \/ reconcileOIDCProvider \/ deleteOIDCProvider
            \/ CollectGarbage \/ ACKProvider
         /\ \/ s3' = s3 \/ ensureOIDCObjectsPublished \/ deleteSelfHostedOIDCObjects \/ ACKBucket
         /\ \/ UNCHANGED worker /\ (s3' = s3 \/ ACKBucket)
            \/ Reconcile \/ reconcileNormalFails \/ apiError \/ crash
<1>1. CASE Reconcile \/ reconcileNormalFails \/ apiError \/ crash
  <2>. USE <1>1 DEF Reconcile, reconcileNormalFails, apiError, crash, ensureFinalizer,
       reconcileNormal, reconcileSigningSecret, reconcileSelfHostedBucket,
       ensureOIDCObjectsPublished, reconcileOIDCProvider, finishNormal, failReady,
       reconcileDelete, markDeletionBlocked, deleteOIDCProvider, deleteSigningSecret,
       deleteSelfHostedOIDCObjects, deleteBucket, deleteConfigChildrenFailed,
       clearDeletionBlocked, removeFinalizer
  <2>1. \/ config' = config \/ ensureFinalizer \/ finishNormal \/ failReady
        \/ markDeletionBlocked \/ clearDeletionBlocked \/ removeFinalizer
    BY Zenon
  <2>2. secret' = secret \/ reconcileSigningSecret \/ deleteSigningSecret
    BY Zenon
  <2>3. bucket' = bucket \/ reconcileSelfHostedBucket \/ deleteBucket
    BY Zenon
  <2>4. provider' = provider \/ reconcileOIDCProvider \/ deleteOIDCProvider
    BY Zenon
  <2>5. s3' = s3 \/ ensureOIDCObjectsPublished \/ deleteSelfHostedOIDCObjects
    BY Zenon
  <2>. QED
    BY <2>1, <2>2, <2>3, <2>4, <2>5, Zenon
<1>2. CASE User
  BY <1>2, Zenon DEF User, CreateConfig, DeleteConfig, ForceDelete, ChangeRoles, ChangeRemote,
     ChangeSecret, userVars
<1>3. CASE \/ ACKBucket \/ ACKProvider \/ CollectGarbage \/ SyncConfig \/ SyncSecret
           \/ SyncBucket \/ SyncProvider \/ SyncRoles \/ UNCHANGED vars
  BY <1>3, Zenon DEF ACKBucket, ACKProvider, ackVars, CollectGarbage, SyncConfig, SyncSecret,
     SyncBucket, SyncProvider, SyncRoles, serverVars, vars
<1>. QED
  BY <1>1, <1>2, <1>3, Zenon DEF Next

\* A pass takes the path of the type of the cached config.
LEMMA NormalEffect ==
  ASSUME TypeOK, ConfigInv, reconcileNormal
  PROVE  /\ worker' \in Pass /\ worker'.copy = configCache
         /\ configCache.st # "none" /\ config' = config
         /\ \/ worker'.pc = "secret" /\ configCache.type = "SelfHostedIRSA"
            \/ worker'.pc = "provider" /\ configCache.type # "SelfHostedIRSA"
            \/ worker'.pc = "status"
<1>. DEFINE next == reconcileConfigComponents(configCache.type, configCache.status)
<1>1. configCache \in Config /\ configCache.st # "none" /\ config' = config
  BY DEF TypeOK, reconcileNormal
<1>2. configCache.type \in ConfigTypes /\ configCache.status \in Status
  BY <1>1 DEF ConfigInv, Shows, Config
<1>3. next[2] \in Status
  BY <1>2, StatusType, Constants, Zenon DEF reconcileConfigComponents, ConfigTypes, Issuers
<1>4. \/ next[1] = "secret" /\ configCache.type = "SelfHostedIRSA"
      \/ next[1] = "provider" /\ configCache.type # "SelfHostedIRSA"
      \/ next[1] = "status"
  BY <1>2 DEF reconcileConfigComponents, ConfigTypes
<1>5. /\ worker' = [pc |-> next[1], copy |-> configCache, status |-> next[2], key |-> 0,
                    todo |-> {}, remote |-> remote, failed |-> FALSE]
      /\ remote \in Remotes /\ 0 \in Keys
  BY Constants DEF reconcileNormal, TypeOK
<1>. HIDE DEF next
<1>. QED
  BY <1>1, <1>3, <1>4, <1>5 DEF Pass

\* reconcileSigningSecret fails, or goes on with a key, which is the one in the
\* Secret if there is one.
LEMMA SecretEffect ==
  ASSUME TypeOK, reconcileSigningSecret
  PROVE  \/ issuerFails /\ UNCHANGED <<secret, keys>>
         \/ /\ secret' \in Secret /\ keys' \in Keys
            /\ secret.key # 0 => secret'.key = secret.key
            /\ \E key \in Keys \ {0} : worker' = [worker EXCEPT !.pc = "bucket", !.key = key]
<1>. DEFINE fresh == restoreSigningSecretData = 0
            key   == IF fresh THEN keys + 1 ELSE restoreSigningSecretData
            seen  == [secretCache EXCEPT !.key = CachedKey]
            new   == [owner |-> worker.copy.uid, key |-> key, labelled |-> TRUE]
<1>1. CASE new # seen /\ secret # secretCache /\ issuerFails /\ UNCHANGED <<secret, keys>>
  BY <1>1
<1>2. CASE /\ new = seen \/ secret = secretCache
           /\ key \in Keys
           /\ secret' = IF new = seen THEN secret ELSE new
           /\ keys' = IF fresh THEN keys + 1 ELSE keys
           /\ worker' = [worker EXCEPT !.pc = "bucket", !.key = key]
  <2>1. key # 0 /\ keys' \in Keys
    BY <1>2 DEF TypeOK, Keys
  <2>2. new \in Secret
    BY <1>2 DEF Secret, TypeOK, Pass, Config
  <2>3. secret = secretCache /\ secret.key # 0 => key = secret.key
    BY DEF restoreSigningSecretData, CachedKey
  <2>. HIDE DEF key, fresh, seen
  <2>. QED
    BY <1>2, <2>1, <2>2, <2>3, Zenon DEF TypeOK
<1>. QED
  BY <1>1, <1>2, Zenon DEF reconcileSigningSecret

\* The ends of a pass that report a status.
LEMMA ReportEffect ==
  ASSUME TypeOK, finishNormal \/ failReady \/ markDeletionBlocked
  PROVE  /\ config' \in Config /\ worker' = Idle
         /\ config'.uid = config.uid /\ config'.st = config.st /\ config'.type = config.type
<1>1. worker.status \in Status
  BY DEF TypeOK, Pass
<1>2. /\ [worker.status EXCEPT !.conds.ready = FALSE] \in Status
      /\ [worker.status EXCEPT !.conds.blocked = TRUE] \in Status
      /\ setConfigReadyCondition(worker.status) \in Status
  BY <1>1, StatusType, Zenon DEF setConfigReadyCondition
<1>. QED
  BY <1>2, PatchType DEF TypeOK, finishNormal, failReady, markDeletionBlocked, EndPass

\* clearDeletionBlocked changes no more than the status, and goes on with a config
\* that exists.
LEMMA ClearEffect ==
  ASSUME TypeOK, clearDeletionBlocked
  PROVE  /\ config' \in Config
         /\ config'.uid = config.uid /\ config'.st = config.st /\ config'.type = config.type
         /\ worker.pc = "delete" /\ worker.todo = {} /\ ~worker.failed
         /\ worker' \in Pass
         /\ \/ worker'.pc = "idle"
            \/ worker'.pc = "final" /\ worker'.copy = worker.copy
            \/ worker'.pc = "final" /\ worker'.copy = config' /\ config'.st # "none"
<1>1. [worker.status EXCEPT !.conds.blocked = FALSE] \in Status
  BY StatusType, Zenon DEF TypeOK, Pass
<1>2. /\ config' \in Config
      /\ config'.uid = config.uid /\ config'.st = config.st /\ config'.type = config.type
  BY <1>1, PatchType DEF TypeOK, clearDeletionBlocked
<1>3. worker.pc = "delete" /\ worker.todo = {} /\ ~worker.failed /\ worker \in Pass
  BY DEF clearDeletionBlocked, TypeOK
<1>4. CASE EndPass
  BY <1>2, <1>3, <1>4, Constants DEF EndPass, Idle
<1>5. CASE worker' = [worker EXCEPT !.pc = "final"]
  BY <1>2, <1>3, <1>5 DEF Pass
<1>6. CASE config.st # "none" /\ worker' = [worker EXCEPT !.pc = "final", !.copy = config']
  BY <1>2, <1>3, <1>6, Zenon DEF Pass
<1>. QED
  BY <1>4, <1>5, <1>6 DEF clearDeletionBlocked, Goto

\* A deletion publishes nothing, whichever documents it gets to.
LEMMA WithdrawEffect ==
  ASSUME TypeOK, deleteSelfHostedOIDCObjects
  PROVE  /\ s3' \in S3 /\ (~s3'.exists => s3'.doc = Withdrawn)
         /\ s3'.exists = s3.exists
         /\ s3.doc = Withdrawn => s3'.doc = Withdrawn
<1>1. ASSUME NEW docs, DeleteOIDCIssuer(docs)
      PROVE  /\ s3' \in S3 /\ (~s3'.exists => s3'.doc = Withdrawn)
             /\ s3'.exists = s3.exists
             /\ s3.doc = Withdrawn => s3'.doc = Withdrawn
  BY <1>1, Constants DEF DeleteOIDCIssuer, TypeOK, S3, Withdrawn, Published
<1>. QED
  BY <1>1, Zenon DEF deleteSelfHostedOIDCObjects, TypeOK

\* A user creates the next config, deletes one or changes its annotation.
LEMMA UserEffect ==
  ASSUME TypeOK, User
  PROVE  /\ config' \in Config
         /\ \/ /\ config'.uid = config.uid /\ config'.st # "none" /\ config.st # "none"
               /\ config'.type = config.type
            \/ config' = config
            \/ config'.uid = config.uid /\ config'.st = "none"
            \/ /\ config.st = "none" /\ config'.uid = config.uid + 1
               /\ config'.st = "live" /\ config'.type \in ConfigTypes
               /\ UNCHANGED userVars
<1>1. ASSUME NEW type \in ConfigTypes, CreateConfig(type)
      PROVE  /\ config' \in Config /\ config.st = "none" /\ config'.uid = config.uid + 1
             /\ config'.st = "live" /\ config'.type \in ConfigTypes
             /\ UNCHANGED userVars
  <2>1. config.uid + 1 \in UIDs
    BY <1>1, ConfigAssumption DEF CreateConfig, TypeOK, Config, UIDs
  <2>2. NoConfig(config.uid + 1) \in Config /\ NoConfig(config.uid + 1).uid = config.uid + 1
    BY <2>1, Constants DEF NoConfig
  <2>. QED
    BY <1>1, <2>2, Zenon DEF CreateConfig, Config
<1>2. CASE DeleteConfig
  <2>1. NoConfig(config.uid) \in Config /\ NoConfig(config.uid).uid = config.uid
        /\ NoConfig(config.uid).st = "none"
    BY Constants DEF NoConfig, TypeOK, Config
  <2>. QED
    BY <1>2, <2>1 DEF DeleteConfig, TypeOK, Config
<1>3. CASE ForceDelete
  BY <1>3, Zenon DEF ForceDelete, TypeOK, Config
<1>4. CASE ChangeRoles \/ ChangeRemote \/ ChangeSecret
  BY <1>4 DEF ChangeRoles, ChangeRemote, ChangeSecret, TypeOK
<1>. QED
  BY <1>1, <1>2, <1>3, <1>4 DEF User

\* A pass that starts with a deletion, or with an error, works on the cached config.
LEMMA StartEffect ==
  ASSUME reconcileNormalFails \/ reconcileDelete
  PROVE  /\ configCache.st # "none" /\ config' = config
         /\ worker.pc = "idle" /\ worker'.copy = configCache
         /\ worker'.pc \in {"unready", "blocked", "delete"}
         /\ worker'.pc = "delete" => worker'.todo = ConfigChildren(configCache.type)
<1>1. ASSUME NEW pc, NEW todo, StartPass(pc, todo)
      PROVE  /\ worker.pc = "idle" /\ worker'.copy = configCache
             /\ worker'.pc = pc /\ worker'.todo = todo
  BY <1>1 DEF StartPass
<1>2. CASE reconcileNormalFails
  <2>1. configCache.st # "none" /\ config' = config /\ StartPass("unready", {})
    BY <1>2 DEF reconcileNormalFails
  <2>. QED
    BY <1>1, <2>1
<1>3. CASE reconcileDelete
  <2>1. configCache.st # "none" /\ config' = config
    BY <1>3 DEF reconcileDelete
  <2>2. StartPass("blocked", {}) \/ StartPass("delete", ConfigChildren(configCache.type))
    BY <1>3 DEF reconcileDelete
  <2>. QED
    BY <1>1, <2>1, <2>2
<1>. QED
  BY <1>2, <1>3

\* The deletion of a child leaves the rest of the pass as it is.
LEMMA DeleteEffect ==
  ASSUME TypeOK, deleteOIDCProvider \/ deleteSigningSecret \/ deleteBucket
  PROVE  /\ worker.pc = "delete" /\ worker'.pc = "delete" /\ worker'.copy = worker.copy
         /\ worker'.failed = worker.failed
         /\ "objects" \in worker.todo => "objects" \in worker'.todo
<1>1. worker.pc = "delete"
  BY DEF deleteOIDCProvider, deleteSigningSecret, deleteBucket, Turn
<1>2. PICK child \in Children \ {"objects"} : worker' = [worker EXCEPT !.todo = @ \ {child}]
  BY DEF deleteOIDCProvider, deleteSigningSecret, deleteBucket, Done, Children
<1>3. worker \in Pass
  BY DEF TypeOK
<1>. QED
  BY <1>1, <1>2, <1>3 DEF Pass

\* The documents go when the cache shows the Bucket as owned; without an error the
\* pass goes on.
LEMMA DeleteObjectsEffect ==
  ASSUME TypeOK, deleteSelfHostedOIDCObjects
  PROVE  /\ worker.pc = "delete"
         /\ \/ worker'.pc = "idle"
            \/ /\ worker'.pc = "delete" /\ worker'.copy = worker.copy
               /\ worker'.failed = worker.failed
               /\ bucketCache.st # "none" /\ bucketCache.owner = worker.copy.uid =>
                    s3'.doc = Withdrawn
<1>1. worker.pc = "delete"
  BY DEF deleteSelfHostedOIDCObjects, Turn
<1>2. CASE EndPass
  BY <1>1, <1>2 DEF EndPass, Idle
<1>3. CASE Done("objects")
  <2>1. worker' = [worker EXCEPT !.todo = @ \ {"objects"}] /\ worker \in Pass
    BY <1>3 DEF Done, TypeOK
  <2>2. worker'.pc = "delete" /\ worker'.copy = worker.copy /\ worker'.failed = worker.failed
    BY <1>1, <2>1 DEF Pass
  <2>3. \/ DeleteOIDCIssuer(Documents) \/ EndPass
        \/ bucketCache.st = "none" \/ bucketCache.owner # worker.copy.uid
    BY Zenon DEF deleteSelfHostedOIDCObjects, isConfigChildOwnedBy
  <2>4. DeleteOIDCIssuer(Documents) => s3'.doc = Withdrawn
    <3>1. s3 \in S3
      BY DEF TypeOK
    <3>2. DeleteOIDCIssuer(Documents) => s3'.doc = [d \in Documents |-> 0]
      BY <3>1, SMTT(30) DEF DeleteOIDCIssuer, S3
    <3>. QED
      BY <3>2 DEF Withdrawn, Published
  <2>. QED
    BY <1>1, <1>2, <2>2, <2>3, <2>4
<1>. QED
  BY <1>2, <1>3, Zenon DEF deleteSelfHostedOIDCObjects

\* Every step preserves the types.
LEMMA TypeStep ==
  ASSUME TypeOK, ConfigInv, [Next]_vars
  PROVE  TypeOK'
<1>. USE DEF TypeOK
<1>1. CASE ensureFinalizer
  <2>1. config' \in Config
    BY <1>1, Zenon DEF ensureFinalizer, Config
  <2>. QED
    BY <1>1, <2>1 DEF ensureFinalizer, hubVars, cacheVars
<1>2. CASE reconcileNormal
  BY <1>2, NormalEffect DEF reconcileNormal, hubVars, cacheVars
<1>3. CASE reconcileSigningSecret
  <2>1. secret' \in Secret /\ keys' \in Keys /\ worker' \in Pass
    BY <1>3, SecretEffect, FailsType, Zenon DEF Pass
  <2>. QED
    BY <1>3, <2>1 DEF reconcileSigningSecret, hubVars, cacheVars
<1>4. CASE reconcileSelfHostedBucket
  <2>. DEFINE new == Mutated(bucketCache, "none")
  <2>1. new \in ACKObject
    BY MutatedType DEF Issuers
  <2>2. bucket' \in ACKObject
    BY <1>4, <2>1, WrittenType DEF reconcileSelfHostedBucket
  <2>3. worker' \in Pass
    <3>1. CASE issuerFails
      BY <3>1, FailsType
    <3>2. CASE worker' = [worker EXCEPT !.pc = "publish", !.todo = Documents]
      BY <3>2, Zenon DEF Pass
    <3>3. CASE worker' = [worker EXCEPT !.pc = "status", !.status.pub = 0,
                                        !.status.conds.issuer = FALSE]
      <4>1. [worker.status EXCEPT !.pub = 0, !.conds.issuer = FALSE] \in Status
        BY StatusType, Constants, Zenon DEF Pass
      <4>. QED
        BY <3>3, <4>1, Zenon DEF Pass
    <3>. QED
      BY <1>4, <3>1, <3>2, <3>3 DEF reconcileSelfHostedBucket
  <2>. QED
    BY <1>4, <2>2, <2>3 DEF reconcileSelfHostedBucket, hubVars, cacheVars
<1>5. CASE ensureOIDCObjectsPublished
  <2>1. s3' \in S3 /\ (~s3'.exists => s3'.doc = Withdrawn)
    BY <1>5 DEF ensureOIDCObjectsPublished, EnsureOIDCIssuer, S3, Pass
  <2>2. worker' \in Pass
    <3>1. CASE issuerFails
      BY <3>1, FailsType
    <3>2. CASE worker' = [worker EXCEPT !.pc = "provider", !.todo = {},
                                        !.status.pub = worker.key]
      <4>1. [worker.status EXCEPT !.pub = worker.key] \in Status
        BY StatusType, Zenon DEF Pass
      <4>. QED
        BY <3>2, <4>1, Zenon DEF Pass
    <3>3. ASSUME NEW d, worker' = [worker EXCEPT !.todo = @ \ {d}]
          PROVE  worker' \in Pass
      BY <3>3 DEF Pass
    <3>. QED
      BY <1>5, <3>1, <3>2, <3>3 DEF ensureOIDCObjectsPublished
  <2>. QED
    BY <1>5, <2>1, <2>2 DEF ensureOIDCObjectsPublished, hubVars, cacheVars
<1>6. CASE reconcileOIDCProvider
  <2>. DEFINE new == Mutated(providerCache, IssuerURL(worker.copy.type))
  <2>1. new \in ACKObject
    BY MutatedType DEF Issuers, IssuerURL
  <2>2. provider' \in ACKObject
    BY <1>6, <2>1, WrittenType DEF reconcileOIDCProvider
  <2>3. worker' \in Pass
    <3>1. CASE issuerFails
      BY <3>1, FailsType
    <3>2. CASE worker' = [worker EXCEPT
                !.pc = "status", !.status.arn = new.arn,
                !.status.conds.issuer = new.synced /\ new.arn # "none"]
      <4>1. new.arn \in Issuers
        BY <2>1 DEF ACKObject
      <4>2. [worker.status EXCEPT !.arn = new.arn,
                                  !.conds.issuer = new.synced /\ new.arn # "none"] \in Status
        BY <4>1, StatusType, Zenon DEF Pass
      <4>. QED
        BY <3>2, <4>2, Zenon DEF Pass
    <3>. QED
      BY <1>6, <3>1, <3>2 DEF reconcileOIDCProvider
  <2>. QED
    BY <1>6, <2>2, <2>3 DEF reconcileOIDCProvider, hubVars, cacheVars
<1>7. CASE finishNormal \/ failReady \/ markDeletionBlocked
  <2>1. config' \in Config /\ worker' = Idle
    BY <1>7, ReportEffect
  <2>. QED
    BY <1>7, <2>1, Constants
       DEF finishNormal, failReady, markDeletionBlocked, hubVars, cacheVars
<1>8. CASE reconcileDelete \/ reconcileNormalFails
  <2>1. PICK pc \in {"blocked", "delete", "unready"}, todo \in SUBSET Children :
          StartPass(pc, todo)
    BY <1>8 DEF reconcileDelete, reconcileNormalFails, ConfigChildren, Children
  <2>2. worker' \in Pass
    BY <2>1, Constants DEF StartPass, Pass, Config
  <2>3. changes' \in 0 .. MaxChanges
    BY <1>8, DisturbType DEF reconcileDelete, reconcileNormalFails
  <2>. QED
    BY <1>8, <2>2, <2>3 DEF reconcileDelete, reconcileNormalFails, hubVars, cacheVars
<1>9. CASE deleteOIDCProvider
  <2>1. provider' \in ACKObject
    BY <1>9, DeletedType DEF deleteOIDCProvider
  <2>2. worker' \in Pass
    BY <1>9 DEF deleteOIDCProvider, Done, Pass
  <2>. QED
    BY <1>9, <2>1, <2>2 DEF deleteOIDCProvider, hubVars, cacheVars
<1>10. CASE deleteSigningSecret
  <2>1. worker' \in Pass
    BY <1>10 DEF deleteSigningSecret, Done, Pass
  <2>. QED
    BY <1>10, <2>1, Constants DEF deleteSigningSecret, hubVars, cacheVars
<1>11. CASE deleteSelfHostedOIDCObjects
  <2>1. s3' \in S3 /\ (~s3'.exists => s3'.doc = Withdrawn)
    BY <1>11, WithdrawEffect
  <2>2. worker' \in Pass
    <3>1. CASE Done("objects")
      BY <3>1 DEF Done, Pass
    <3>2. CASE EndPass
      BY <3>2, Constants DEF EndPass
    <3>. QED
      BY <1>11, <3>1, <3>2, Zenon DEF deleteSelfHostedOIDCObjects
  <2>3. changes' \in 0 .. MaxChanges
    BY <1>11, DisturbType, Zenon DEF deleteSelfHostedOIDCObjects
  <2>. QED
    BY <1>11, <2>1, <2>2, <2>3 DEF deleteSelfHostedOIDCObjects, hubVars, cacheVars
<1>12. CASE deleteBucket
  <2>1. bucket' \in ACKObject
    BY <1>12, DeletedType DEF deleteBucket
  <2>2. worker' \in Pass
    BY <1>12, SMTT(30) DEF deleteBucket, Done, Pass
  <2>. QED
    BY <1>12, <2>1, <2>2 DEF deleteBucket, hubVars, cacheVars
<1>13. CASE deleteConfigChildrenFailed \/ crash
  BY <1>13, Constants, DisturbType
     DEF deleteConfigChildrenFailed, crash, EndPass, hubVars, cacheVars
<1>14. CASE clearDeletionBlocked
  BY <1>14, ClearEffect DEF clearDeletionBlocked, hubVars, cacheVars
<1>15. CASE removeFinalizer
  <2>1. config' \in Config
    BY <1>15, Constants, Zenon DEF removeFinalizer, Config
  <2>. QED
    BY <1>15, <2>1, Constants DEF removeFinalizer, EndPass, hubVars, cacheVars
<1>16. CASE apiError
  <2>1. worker' \in Pass
    <3>1. CASE issuerFails
      BY <3>1, FailsType
    <3>2. CASE EndPass
      BY <3>2, Constants DEF EndPass
    <3>3. ASSUME NEW rest \in SUBSET worker.todo,
                 worker' = [worker EXCEPT !.todo = rest, !.failed = TRUE]
          PROVE  worker' \in Pass
      BY <3>3, Zenon DEF Pass
    <3>. QED
      BY <1>16, <3>1, <3>2, <3>3, Zenon DEF apiError
  <2>2. changes' \in 0 .. MaxChanges
    BY <1>16, DisturbType, Zenon DEF apiError
  <2>. QED
    BY <1>16, <2>1, <2>2, Zenon DEF apiError, hubVars, cacheVars
<1>17. CASE User
  <2>1. config' \in Config
    BY <1>17, UserEffect
  <2>2. secret' \in Secret /\ roles' \in BOOLEAN /\ remote' \in Remotes
    BY <1>17, Constants, Zenon DEF User, CreateConfig, DeleteConfig, ForceDelete, ChangeRoles,
       ChangeRemote, ChangeSecret, Secret
  <2>3. changes' \in 0 .. MaxChanges
    BY <1>17, DisturbType, Zenon DEF User, CreateConfig, DeleteConfig, ForceDelete, ChangeRoles,
       ChangeRemote, ChangeSecret
  <2>4. UNCHANGED userVars
    BY <1>17, Zenon DEF User, CreateConfig, DeleteConfig, ForceDelete, ChangeRoles, ChangeRemote,
       ChangeSecret
  <2>. QED
    BY <2>1, <2>2, <2>3, <2>4 DEF userVars, cacheVars
<1>18. CASE ACKBucket
  <2>1. bucket' \in ACKObject /\ s3' \in S3 /\ (~s3'.exists => s3'.doc = Withdrawn)
    <3>1. bucket \in ACKObject /\ s3 \in S3 /\ NoObject \in ACKObject
      BY Constants
    <3>2. /\ [bucket EXCEPT !.synced = TRUE] \in ACKObject
          /\ [s3 EXCEPT !.exists = TRUE] \in S3 /\ [s3 EXCEPT !.exists = TRUE].exists
          /\ [s3 EXCEPT !.exists = FALSE] \in S3
          /\ [s3 EXCEPT !.exists = FALSE].doc = s3.doc
      BY <3>1, Zenon DEF ACKObject, S3
    <3>. QED
      BY <1>18, <3>1, <3>2, Zenon DEF ACKBucket
  <2>. QED
    BY <1>18, <2>1 DEF ACKBucket, ackVars, hubVars, cacheVars
<1>19. CASE ACKProvider
  <2>1. provider' \in ACKObject
    <3>1. provider \in ACKObject /\ NoObject \in ACKObject
      BY Constants
    <3>2. /\ [provider EXCEPT !.synced = TRUE, !.arn = provider.url] \in ACKObject
          /\ [provider EXCEPT !.synced = FALSE] \in ACKObject
      BY <3>1, Zenon DEF ACKObject
    <3>. QED
      BY <1>19, <3>1, <3>2, Zenon DEF ACKProvider
  <2>. QED
    BY <1>19, <2>1 DEF ACKProvider, ackVars, hubVars, cacheVars
<1>20. CASE CollectGarbage
  <2>1. secret' \in Secret /\ bucket' \in ACKObject /\ provider' \in ACKObject
    BY <1>20, DeletedType, Constants DEF CollectGarbage
  <2>. QED
    BY <1>20, <2>1 DEF CollectGarbage, hubVars, cacheVars
<1>21. CASE SyncConfig \/ SyncSecret \/ SyncBucket \/ SyncProvider \/ SyncRoles
  BY <1>21 DEF SyncConfig, SyncSecret, SyncBucket, SyncProvider, SyncRoles, serverVars
<1>22. CASE UNCHANGED vars
  BY <1>22 DEF vars
<1>. QED
  BY <1>1, <1>2, <1>3, <1>4, <1>5, <1>6, <1>7, <1>8, <1>9, <1>10, <1>11, <1>12, <1>13, <1>14,
     <1>15, <1>16, <1>17, <1>18, <1>19, <1>20, <1>21, <1>22 DEF Next, Reconcile

----------------------------------------------------------------------------
(* Configs and their copies.                                               *)

\* What a step may do to the config.
ConfigStep ==
  \/ config' = config
  \/ /\ config.st # "none" /\ config'.st # "none"
     /\ config'.uid = config.uid /\ config'.type = config.type
  \/ config'.uid = config.uid /\ config'.st = "none"
  \/ /\ config.st = "none" /\ config'.uid = config.uid + 1
     /\ config'.st = "live" /\ config'.type \in ConfigTypes
     /\ UNCHANGED userVars

\* A config is created with the next uid; until it is gone it keeps uid and type.
LEMMA ConfigEffect ==
  ASSUME TypeOK, [Next]_vars
  PROVE  ConfigStep
<1>1. CASE ensureFinalizer
  BY <1>1 DEF ensureFinalizer, ConfigStep, TypeOK, Config
<1>2. CASE finishNormal \/ failReady \/ markDeletionBlocked
  BY <1>2, ReportEffect DEF ConfigStep
<1>3. CASE clearDeletionBlocked
  BY <1>3, ClearEffect DEF ConfigStep
<1>4. CASE removeFinalizer
  BY <1>4 DEF removeFinalizer, NoConfig, ConfigStep
<1>5. CASE User
  BY <1>5, UserEffect DEF ConfigStep
<1>6. CASE config' = config
  BY <1>6 DEF ConfigStep
<1>. QED
  BY <1>1, <1>2, <1>3, <1>4, <1>5, <1>6, Frame

\* Caches change only by delivery of what the server has.
LEMMA CacheEffect ==
  ASSUME [Next]_vars
  PROVE  \/ UNCHANGED cacheVars
         \/ /\ UNCHANGED serverVars
            /\ configCache' \in {config, configCache}
            /\ secretCache' \in {secret, secretCache}
            /\ bucketCache' \in {bucket, bucketCache}
            /\ providerCache' \in {provider, providerCache}
<1>1. CASE SyncConfig \/ SyncSecret \/ SyncBucket \/ SyncProvider \/ SyncRoles
  BY <1>1 DEF SyncConfig, SyncSecret, SyncBucket, SyncProvider, SyncRoles
<1>2. CASE User \/ ACKBucket \/ ACKProvider \/ CollectGarbage \/ UNCHANGED vars
  BY <1>2, Zenon DEF User, CreateConfig, DeleteConfig, ForceDelete, ChangeRoles, ChangeRemote,
     ChangeSecret, userVars, ACKBucket, ACKProvider, ackVars, CollectGarbage, hubVars, vars,
     cacheVars
<1>3. CASE Reconcile \/ reconcileNormalFails \/ apiError \/ crash
  BY <1>3, Zenon DEF Reconcile, reconcileNormalFails, apiError, crash, ensureFinalizer,
     reconcileNormal, reconcileSigningSecret, reconcileSelfHostedBucket,
     ensureOIDCObjectsPublished, reconcileOIDCProvider, finishNormal, failReady, reconcileDelete,
     markDeletionBlocked, deleteOIDCProvider, deleteSigningSecret, deleteSelfHostedOIDCObjects,
     deleteBucket, deleteConfigChildrenFailed, clearDeletionBlocked, removeFinalizer, hubVars
<1>. QED
  BY <1>1, <1>2, <1>3 DEF Next

\* A copy shows a config that exists or existed, also after a step.
LEMMA ShowsStep ==
  ASSUME TypeOK, TypeOK', ConfigStep, NEW c \in Config, Shows(c)
  PROVE  /\ c.uid <= config'.uid
         /\ c.st # "none" => c.uid > 0 /\ c.type \in ConfigTypes
         /\ c.st # "none" /\ config'.st # "none" /\ c.uid = config'.uid => c.type = config'.type
<1>1. c.uid \in Nat /\ config.uid \in Nat /\ config'.uid \in Nat
  BY ConfigAssumption DEF TypeOK, Config, UIDs
<1>. QED
  BY <1>1 DEF ConfigStep, Shows

\* Every step preserves ConfigInv.
LEMMA ConfigInvStep ==
  ASSUME TypeOK, TypeOK', ConfigInv, [Next]_vars
  PROVE  ConfigInv'
<1>1. ConfigStep
  BY ConfigEffect
<1>2. config \in Config /\ configCache \in Config
  BY DEF TypeOK
<1>3. config'.uid \in Nat /\ config.uid \in Nat
  BY ConfigAssumption DEF TypeOK, Config, UIDs
<1>4. Shows(config)'
  BY <1>1, <1>3 DEF ConfigStep, ConfigInv, Shows
<1>5. Shows(configCache)'
  <2>1. CASE configCache' = configCache
    BY <1>1, <1>2, <2>1, ShowsStep DEF ConfigInv, Shows
  <2>2. CASE configCache' = config /\ config' = config
    BY <2>2 DEF ConfigInv, Shows
  <2>. QED
    BY <2>1, <2>2, CacheEffect DEF cacheVars, serverVars
<1>. QED
  BY <1>4, <1>5 DEF ConfigInv

----------------------------------------------------------------------------
(* Passes.                                                                 *)

\* What a step may do to the pass.
PassStep ==
  \/ UNCHANGED worker /\ (s3' = s3 \/ ACKBucket)
  \/ worker'.pc = "idle"
  \/ reconcileNormal \/ reconcileNormalFails \/ reconcileDelete
  \/ worker.pc # "idle" /\ worker'.pc = "status" /\ worker'.copy = worker.copy
  \/ /\ worker.pc = "secret" /\ worker'.pc = "bucket"
     /\ worker'.copy = worker.copy /\ worker'.key # 0
  \/ /\ worker.pc = "bucket" /\ worker'.pc = "publish"
     /\ worker'.copy = worker.copy /\ worker'.key = worker.key /\ worker'.todo = Documents
     /\ bucketCache.st # "none" /\ bucketCache.owner # Foreign /\ UNCHANGED bucketCache
  \/ \E d \in worker.todo :
       /\ EnsureOIDCIssuer(d) /\ worker.pc = "publish" /\ bucket' = bucket
       /\ worker'.copy = worker.copy /\ worker'.key = worker.key
       /\ \/ worker.todo = {d} /\ worker'.pc = "provider"
          \/ worker'.pc = "publish" /\ worker'.todo = worker.todo \ {d}
  \/ deleteOIDCProvider \/ deleteSigningSecret \/ deleteBucket
  \/ deleteSelfHostedOIDCObjects
  \/ clearDeletionBlocked
  \/ /\ worker.pc = "delete" /\ worker'.pc = "delete" /\ worker'.failed
     /\ worker'.copy = worker.copy

\* Where a pass goes from where it is.
LEMMA PassEffect ==
  ASSUME TypeOK, [Next]_vars
  PROVE  PassStep
<1>. USE DEF PassStep
<1>1. worker \in Pass
  BY DEF TypeOK
<1>2. CASE worker.pc # "idle" /\ issuerFails
  BY <1>1, <1>2, FailsType, Zenon
<1>3. CASE EndPass
  <2>1. worker'.pc = "idle"
    BY <1>3 DEF EndPass, Idle
  <2>. QED
    BY <2>1, Zenon
<1>4. CASE reconcileSigningSecret
  <2>1. worker.pc = "secret"
    BY <1>4 DEF reconcileSigningSecret
  <2>2. ASSUME NEW key \in Keys \ {0}, worker' = [worker EXCEPT !.pc = "bucket", !.key = key]
        PROVE  worker'.pc = "bucket" /\ worker'.copy = worker.copy /\ worker'.key # 0
    BY <1>1, <2>2 DEF Pass
  <2>. QED
    BY <1>2, <1>4, <2>1, <2>2, SecretEffect, Zenon
<1>5. CASE reconcileSelfHostedBucket
  <2>. DEFINE new == Mutated(bucketCache, "none")
  <2>1. worker.pc = "bucket" /\ UNCHANGED bucketCache
    BY <1>5 DEF reconcileSelfHostedBucket, hubVars, cacheVars
  <2>2. CASE worker' = [worker EXCEPT !.pc = "status", !.status.pub = 0,
                                      !.status.conds.issuer = FALSE]
    <3>1. worker'.pc = "status" /\ worker'.copy = worker.copy
      BY <1>1, <2>2 DEF Pass
    <3>. QED
      BY <2>1, <3>1, Zenon
  <2>3. CASE /\ new.synced /\ Writable(bucket, bucketCache, new)
             /\ worker' = [worker EXCEPT !.pc = "publish", !.todo = Documents]
    <3>1. bucketCache.st # "none" /\ bucketCache.owner # Foreign
      BY <1>1, <2>3, MutatedType DEF Writable, TypeOK, Issuers
    <3>2. /\ worker'.pc = "publish" /\ worker'.copy = worker.copy
          /\ worker'.key = worker.key /\ worker'.todo = Documents
      BY <1>1, <2>3 DEF Pass
    <3>. QED
      BY <2>1, <3>1, <3>2, Zenon
  <2>. QED
    BY <1>2, <1>5, <2>1, <2>2, <2>3, Zenon DEF reconcileSelfHostedBucket
<1>6. CASE ensureOIDCObjectsPublished
  <2>1. worker.pc = "publish" /\ bucket' = bucket
    BY <1>6 DEF ensureOIDCObjectsPublished
  <2>2. ASSUME NEW d \in worker.todo, EnsureOIDCIssuer(d),
               worker' = IF worker.todo = {d}
                         THEN [worker EXCEPT !.pc = "provider", !.todo = {},
                                             !.status.pub = worker.key]
                         ELSE [worker EXCEPT !.todo = @ \ {d}]
        PROVE  /\ worker'.copy = worker.copy /\ worker'.key = worker.key
               /\ \/ worker.todo = {d} /\ worker'.pc = "provider"
                  \/ worker'.pc = "publish" /\ worker'.todo = worker.todo \ {d}
    BY <1>1, <2>1, <2>2 DEF Pass
  <2>. QED
    BY <1>2, <1>6, <2>1, <2>2, Zenon DEF ensureOIDCObjectsPublished
<1>7. CASE reconcileOIDCProvider
  <2>. DEFINE new == Mutated(providerCache, IssuerURL(worker.copy.type))
  <2>1. worker.pc = "provider"
    BY <1>7 DEF reconcileOIDCProvider
  <2>2. CASE worker' = [worker EXCEPT !.pc = "status", !.status.arn = new.arn,
                          !.status.conds.issuer = new.synced /\ new.arn # "none"]
    <3>1. worker'.pc = "status" /\ worker'.copy = worker.copy
      BY <1>1, <2>2 DEF Pass
    <3>. QED
      BY <2>1, <3>1, Zenon
  <2>. QED
    BY <1>2, <1>7, <2>1, <2>2, Zenon DEF reconcileOIDCProvider
<1>8. CASE apiError
  <2>1. ASSUME NEW rest, worker.pc = "delete",
               worker' = [worker EXCEPT !.todo = rest, !.failed = TRUE]
        PROVE  worker'.pc = "delete" /\ worker'.failed /\ worker'.copy = worker.copy
    BY <1>1, <2>1 DEF Pass
  <2>2. worker.pc \in {"secret", "bucket", "publish", "provider"} => worker.pc # "idle"
    OBVIOUS
  <2>. QED
    BY <1>2, <1>3, <1>8, <2>1, <2>2, Zenon DEF apiError
<1>9. CASE \/ finishNormal \/ failReady \/ markDeletionBlocked \/ removeFinalizer
           \/ deleteConfigChildrenFailed \/ crash
  BY <1>3, <1>9, Zenon DEF finishNormal, failReady, markDeletionBlocked, removeFinalizer,
     deleteConfigChildrenFailed, crash
<1>10. CASE ensureFinalizer
  BY <1>10, Zenon DEF ensureFinalizer
<1>. QED
  BY <1>4, <1>5, <1>6, <1>7, <1>8, <1>9, <1>10, Frame, Zenon DEF Reconcile

\* Every step preserves PassInv.
LEMMA PassInvStep ==
  ASSUME TypeOK, TypeOK', ConfigInv, ConfigInv', PassInv, [Next]_vars
  PROVE  PassInv'
<1>1. PassStep /\ ConfigStep /\ worker.copy \in Config
  BY PassEffect, ConfigEffect DEF TypeOK, Pass
<1>2. worker'.pc # "idle" => worker'.copy.st # "none" /\ Shows(worker.copy)'
  <2>1. CASE worker.pc # "idle" /\ worker'.copy = worker.copy
    BY <1>1, <2>1, ShowsStep DEF PassInv, Shows
  <2>2. CASE worker'.copy = configCache /\ configCache.st # "none" /\ config' = config
    BY <2>2 DEF ConfigInv, Shows
  <2>3. CASE worker'.copy = config' /\ config'.st # "none"
    BY <2>3 DEF ConfigInv, Shows
  <2>4. \/ worker'.pc = "idle" \/ worker' = worker
        \/ worker.pc # "idle" /\ worker'.copy = worker.copy
        \/ worker'.copy = configCache /\ configCache.st # "none" /\ config' = config
        \/ worker'.copy = config' /\ config'.st # "none"
    BY <1>1, NormalEffect, StartEffect, DeleteEffect, DeleteObjectsEffect, ClearEffect, SMTT(30)
       DEF PassStep
  <2>. QED
    BY <2>1, <2>2, <2>3, <2>4
<1>3. CASE worker'.pc \notin {"secret", "bucket", "publish", "provider"}
  BY <1>2, <1>3 DEF PassInv
<1>4. CASE reconcileNormal
  BY <1>2, <1>4, NormalEffect DEF PassInv
<1>5. CASE /\ worker.pc = "secret" /\ worker'.pc = "bucket"
           /\ worker'.copy = worker.copy /\ worker'.key # 0
  BY <1>2, <1>5 DEF PassInv
<1>6. CASE /\ worker.pc = "bucket" /\ worker'.pc = "publish"
           /\ worker'.copy = worker.copy /\ worker'.key = worker.key /\ worker'.todo = Documents
  BY <1>2, <1>6 DEF PassInv
<1>7. ASSUME NEW d \in worker.todo, EnsureOIDCIssuer(d), worker.pc = "publish",
             worker'.copy = worker.copy, worker'.key = worker.key,
             \/ worker.todo = {d} /\ worker'.pc = "provider"
             \/ worker'.pc = "publish" /\ worker'.todo = worker.todo \ {d}
      PROVE  PassInv'
  <2>1. worker.copy.type = "SelfHostedIRSA" /\ worker.key # 0
    BY <1>7 DEF PassInv
  <2>2. \A e \in Documents : s3'.doc[e] = IF e = d THEN worker.key ELSE s3.doc[e]
    BY <1>7, SMTT(30) DEF EnsureOIDCIssuer, TypeOK, S3
  <2>3. \A e \in Documents \ (worker.todo \ {d}) : s3'.doc[e] = worker.key
    BY <1>7, <2>2, SMTT(30) DEF PassInv
  <2>. QED
    BY <1>2, <1>7, <2>1, <2>3 DEF PassInv
<1>8. CASE UNCHANGED worker /\ (s3' = s3 \/ ACKBucket)
  <2>1. s3'.doc = s3.doc
    BY <1>8 DEF ACKBucket, TypeOK, S3
  <2>. QED
    BY <1>2, <1>8, <2>1 DEF PassInv
<1>9. CASE \/ reconcileNormalFails \/ reconcileDelete
           \/ deleteOIDCProvider \/ deleteSigningSecret \/ deleteBucket
           \/ deleteSelfHostedOIDCObjects \/ clearDeletionBlocked
  BY <1>3, <1>9, StartEffect, DeleteEffect, DeleteObjectsEffect, ClearEffect
<1>. QED
  BY <1>1, <1>3, <1>4, <1>5, <1>6, <1>7, <1>8, <1>9 DEF PassStep

----------------------------------------------------------------------------
(* Owners, and the S3 bucket.                                              *)

\* What a step may do to the Bucket: create it or take it over, delete it, or let
\* ACK act on it.
BucketStep ==
  \/ bucket' = bucket
  \/ /\ bucket.owner # Foreign /\ worker.pc = "bucket" /\ bucketCache = bucket /\ s3' = s3
     /\ bucket' \in ACKObject /\ bucket'.owner = worker.copy.uid /\ bucket'.st # "none"
     /\ bucket.st # "none" => bucket'.synced = bucket.synced
     /\ bucket.st = "none" => ~bucket'.synced
  \/ bucket.owner # Foreign /\ s3' = s3 /\ bucket' \in Deleted(bucket)
  \/ ACKBucket

\* Only a Bucket that is not another controller's is written or deleted.
LEMMA BucketEffect ==
  ASSUME TypeOK, OwnerInv, [Next]_vars
  PROVE  BucketStep
<1>. USE DEF BucketStep
<1>1. CASE reconcileSelfHostedBucket
  <2>. DEFINE new == Mutated(bucketCache, "none")
  <2>1. CASE UNCHANGED bucket
    BY <2>1, SMTT(30)
  <2>2. CASE Writable(bucket, bucketCache, new) /\ bucket' = Written(bucket, bucketCache, new)
    <3>1. CASE new = bucketCache
      BY <2>2, <3>1 DEF Written
    <3>2. CASE new # bucketCache
      <4>1. bucket' = new /\ bucket = bucketCache /\ bucketCache.owner # Foreign
        BY <2>2, <3>2 DEF Written, Writable
      <4>2. worker.pc = "bucket" /\ s3' = s3
        BY <1>1 DEF reconcileSelfHostedBucket
      <4>3. /\ new \in ACKObject /\ new.owner = worker.copy.uid /\ new.st # "none"
            /\ bucketCache.st # "none" => new.synced = bucketCache.synced
            /\ bucketCache.st = "none" => ~new.synced
        BY MutatedType DEF TypeOK, Issuers
      <4>. HIDE DEF new
      <4>. QED
        BY <4>1, <4>2, <4>3
    <3>. QED
      BY <3>1, <3>2
  <2>. QED
    BY <1>1, <2>1, <2>2 DEF reconcileSelfHostedBucket
<1>2. CASE deleteBucket
  <2>1. CASE UNCHANGED bucket
    BY <2>1
  <2>2. CASE /\ bucketCache.st # "none" /\ isConfigChildOwnedBy(bucketCache.owner)
             /\ bucket' \in Deleted(bucket)
    <3>1. bucketCache.owner # Foreign
      BY <2>2, Constants, SMTT(30) DEF isConfigChildOwnedBy, TypeOK, Pass, Config
    <3>2. worker'.pc = worker.pc /\ s3' = s3
      BY <1>2, DeleteEffect DEF deleteBucket
    <3>. QED
      BY <2>2, <3>1, <3>2, SMTT(30) DEF OwnerInv
  <2>. QED
    BY <1>2, <2>1, <2>2, SMTT(30) DEF deleteBucket
<1>3. CASE CollectGarbage
  BY <1>3 DEF CollectGarbage, Orphan
<1>. QED
  BY <1>1, <1>2, <1>3, Frame

\* The provider of another controller is left alone, and no step gives one away.
LEMMA ProviderEffect ==
  ASSUME TypeOK, OwnerInv, [Next]_vars
  PROVE  \/ provider' = provider
         \/ provider.owner # Foreign /\ provider'.owner # Foreign
<1>1. 0 # Foreign /\ worker.copy.uid # Foreign
  BY Constants DEF TypeOK, Pass, Config
<1>2. ASSUME provider' \in Deleted(provider), provider.owner # Foreign
      PROVE  provider'.owner # Foreign
  BY <1>1, <1>2, DeletedType DEF TypeOK, NoObject
<1>3. CASE reconcileOIDCProvider
  <2>. DEFINE new == Mutated(providerCache, IssuerURL(worker.copy.type))
  <2>1. CASE UNCHANGED provider
    BY <2>1
  <2>2. CASE /\ Writable(provider, providerCache, new)
             /\ provider' = Written(provider, providerCache, new)
    <3>1. new.owner = worker.copy.uid
      BY MutatedType DEF TypeOK, Issuers, IssuerURL
    <3>2. providerCache.owner # Foreign
      BY <2>2 DEF Writable
    <3>. HIDE DEF new
    <3>. QED
      BY <1>1, <2>2, <3>1, <3>2 DEF Written, OwnerInv
  <2>. QED
    BY <1>3, <2>1, <2>2 DEF reconcileOIDCProvider
<1>4. CASE deleteOIDCProvider
  <2>1. CASE UNCHANGED provider
    BY <2>1
  <2>2. CASE /\ providerCache.st # "none" /\ isConfigChildOwnedBy(providerCache.owner)
             /\ provider' \in Deleted(provider)
    BY <1>1, <1>2, <2>2 DEF isConfigChildOwnedBy, OwnerInv
  <2>. QED
    BY <1>4, <2>1, <2>2 DEF deleteOIDCProvider
<1>5. CASE CollectGarbage
  BY <1>2, <1>5 DEF CollectGarbage, Orphan
<1>6. CASE ACKProvider
  <2>1. CASE provider.owner = Foreign
    <3>1. provider.st = "live" /\ provider.synced /\ provider.arn = "none"
      BY <2>1, Zenon DEF OwnerInv, ForeignObject, NoObject
    <3>. QED
      BY <1>6, <3>1 DEF ACKProvider
  <2>2. CASE provider.owner # Foreign
    <3>1. provider \in ACKObject /\ NoObject.owner # Foreign
      BY <1>1 DEF TypeOK, NoObject
    <3>2. /\ [provider EXCEPT !.synced = TRUE, !.arn = provider.url].owner = provider.owner
          /\ [provider EXCEPT !.synced = FALSE].owner = provider.owner
      BY <3>1 DEF ACKObject
    <3>. QED
      BY <1>6, <2>2, <3>1, <3>2, Zenon DEF ACKProvider
  <2>. QED
    BY <2>1, <2>2
<1>. QED
  BY <1>3, <1>4, <1>5, <1>6, Frame

\* Owners after a step.
LEMMA OwnerInvStep ==
  ASSUME TypeOK, TypeOK', ConfigInv, ConfigInv', PassInv, OwnerInv, BucketInv, [Next]_vars
  PROVE  OwnerInv'
<1>1. 0 # Foreign /\ config.uid \in Nat /\ config'.uid \in Nat /\ config.uid <= config'.uid
  <2>1. 0 # Foreign /\ config.uid \in Nat /\ config'.uid \in Nat
    BY Constants, ConfigAssumption DEF TypeOK, Config, UIDs
  <2>. QED
    BY <2>1, ConfigEffect DEF ConfigStep
<1>2. /\ bucket \in ACKObject /\ bucketCache \in ACKObject
      /\ bucket'.owner \in Nat /\ bucketCache'.owner \in Nat
      /\ bucket.owner \in Nat /\ bucketCache.owner \in Nat
  BY ConfigAssumption DEF TypeOK, ACKObject, UIDs, Foreign
<1>3. /\ bucket.owner = Foreign => bucket' = bucket
      /\ bucket.owner # Foreign => bucket'.owner # Foreign
      /\ OwnedBy(bucket)'
  <2>1. CASE bucket' = bucket
    BY <1>1, <1>2, <2>1 DEF OwnerInv, OwnedBy
  <2>2. CASE /\ bucket.owner # Foreign /\ worker.pc = "bucket"
             /\ bucket'.owner = worker.copy.uid /\ bucket'.st # "none"
    <3>1. worker.copy.uid > 0 /\ worker.copy.uid <= config.uid /\ worker.copy.uid # Foreign
      BY <2>2, Constants DEF PassInv, Shows, TypeOK, Pass, Config
    <3>. QED
      BY <1>1, <1>2, <2>2, <3>1, SMTT(30) DEF OwnedBy
  <2>3. CASE bucket.owner # Foreign /\ bucket' \in Deleted(bucket)
    <3>1. \/ bucket' = bucket
          \/ bucket' = NoObject
          \/ bucket'.st # "none" /\ bucket'.owner = bucket.owner /\ bucket.st # "none"
      BY <1>2, <2>3, DeletedType
    <3>2. NoObject.owner = 0 /\ NoObject.st = "none"
      BY DEF NoObject
    <3>. QED
      BY <1>1, <1>2, <2>1, <2>3, <3>1, <3>2 DEF OwnerInv, OwnedBy
  <2>4. CASE ACKBucket
    <3>1. CASE bucket.owner = Foreign
      <4>1. bucket.st = "live" /\ bucket.synced
        BY <3>1, Zenon DEF OwnerInv, ForeignObject, NoObject
      <4>. QED
        BY <2>4, <4>1 DEF ACKBucket
    <3>2. CASE bucket.owner # Foreign /\ bucket' = NoObject
      <4>1. NoObject.owner = 0 /\ NoObject.st = "none"
        BY DEF NoObject
      <4>. QED
        BY <1>1, <3>2, <4>1 DEF OwnedBy
    <3>3. CASE /\ bucket.owner # Foreign /\ bucket.st = "live"
               /\ bucket' = [bucket EXCEPT !.synced = TRUE]
      <4>1. bucket'.owner = bucket.owner
        BY <1>2, <3>3 DEF ACKObject
      <4>. QED
        BY <1>1, <1>2, <3>3, <4>1 DEF OwnerInv, OwnedBy
    <3>. QED
      BY <2>4, <3>1, <3>2, <3>3 DEF ACKBucket
  <2>. QED
    BY <2>1, <2>2, <2>3, <2>4, BucketEffect DEF BucketStep
<1>4. OwnedBy(bucketCache)'
  <2>1. CASE bucketCache' = bucketCache
    BY <1>1, <1>2, <2>1 DEF OwnerInv, OwnedBy
  <2>2. CASE bucketCache' = bucket /\ bucket' = bucket
    BY <1>3, <2>2 DEF OwnedBy
  <2>. QED
    BY <2>1, <2>2, CacheEffect DEF cacheVars, serverVars
<1>5. /\ bucket'.owner = Foreign => bucket' = ForeignObject
      /\ bucket'.owner = Foreign <=> bucketCache'.owner = Foreign
      /\ bucketCache'.owner = Foreign => bucketCache' = ForeignObject
  BY <1>3, CacheEffect DEF OwnerInv, cacheVars, serverVars
<1>6. bucket'.owner = Foreign => worker'.pc # "publish"
  <2>1. worker'.pc = "publish" => worker.pc = "publish" \/ bucketCache.owner # Foreign
    BY PassEffect, NormalEffect, StartEffect, DeleteEffect, DeleteObjectsEffect, ClearEffect
       DEF PassStep
  <2>. QED
    BY <1>3, <2>1 DEF OwnerInv
<1>7. /\ provider'.owner = Foreign => provider' = ForeignObject
      /\ provider'.owner = Foreign <=> providerCache'.owner = Foreign
      /\ providerCache'.owner = Foreign => providerCache' = ForeignObject
  BY ProviderEffect, CacheEffect DEF OwnerInv, cacheVars, serverVars
<1>. QED
  BY <1>3, <1>4, <1>5, <1>6, <1>7 DEF OwnerInv

\* The S3 bucket and ACK's object after a step.
LEMMA BucketInvStep ==
  ASSUME TypeOK, TypeOK', OwnerInv, BucketInv, [Next]_vars
  PROVE  BucketInv'
<1>1. NoObject.st = "none" /\ ~NoObject.synced /\ NoObject.owner # Foreign
  BY Constants DEF NoObject
<1>2. bucket \in ACKObject /\ s3 \in S3
  BY DEF TypeOK
<1>3. CASE ACKBucket
  <2>1. bucketCache' = bucketCache
    BY <1>3 DEF ACKBucket, ackVars, hubVars, cacheVars
  <2>2. CASE bucket' = NoObject /\ s3' = [s3 EXCEPT !.exists = FALSE]
    BY <1>1, <1>2, <2>1, <2>2 DEF BucketInv, S3
  <2>3. CASE /\ bucket.st = "live" /\ bucket' = [bucket EXCEPT !.synced = TRUE]
             /\ s3' = [s3 EXCEPT !.exists = TRUE]
    <3>1. bucket'.st = "live" /\ bucket'.synced
      BY <1>2, <2>3 DEF ACKObject
    <3>2. s3'.exists
      BY <1>2, <2>3 DEF S3
    <3>. QED
      BY <2>1, <3>1, <3>2 DEF BucketInv
  <2>. QED
    BY <1>3, <2>2, <2>3 DEF ACKBucket
<1>4. CASE ~ACKBucket
  <2>1. s3'.exists = s3.exists
    <3>1. CASE ensureOIDCObjectsPublished
      BY <1>2, <3>1 DEF ensureOIDCObjectsPublished, EnsureOIDCIssuer, S3
    <3>2. CASE deleteSelfHostedOIDCObjects
      BY <3>2, WithdrawEffect
    <3>. QED
      BY <1>4, <3>1, <3>2, Frame
  <2>2. CASE bucket' = bucket
    BY <2>1, <2>2, CacheEffect DEF BucketInv, cacheVars, serverVars
  <2>3. CASE /\ bucket'.st # "none"
             /\ bucket.owner # Foreign /\ bucket'.owner # Foreign
             /\ bucket'.synced = bucket.synced /\ bucket' # bucket
    BY <2>1, <2>3, CacheEffect DEF BucketInv, cacheVars, serverVars
  <2>4. CASE bucket' = NoObject /\ ~bucket.synced /\ bucket' # bucket /\ bucket.owner # Foreign
    BY <1>1, <2>1, <2>4, CacheEffect DEF BucketInv, cacheVars, serverVars
  <2>5. CASE bucket.owner # Foreign /\ bucket' \in Deleted(bucket)
    <3>1. \/ bucket' = bucket
          \/ bucket' = NoObject /\ ~bucket.synced
          \/ /\ bucket'.st # "none" /\ bucket'.owner = bucket.owner
             /\ bucket'.synced = bucket.synced
      BY <1>2, <2>5, DeletedType
    <3>. QED
      BY <2>2, <2>3, <2>4, <2>5, <3>1
  <2>6. CASE /\ bucket.owner # Foreign
             /\ bucket'.owner = worker.copy.uid /\ bucket'.st # "none"
             /\ bucket' \in ACKObject
             /\ bucket.st # "none" => bucket'.synced = bucket.synced
             /\ bucket.st = "none" => ~bucket'.synced
    <3>1. bucket'.owner # Foreign
      BY <2>6, NumberTypes
    <3>2. bucket'.synced = bucket.synced
      BY <1>1, <1>2, <2>6 DEF BucketInv, ACKObject
    <3>. QED
      BY <2>2, <2>3, <2>6, <3>1, <3>2
  <2>. QED
    BY <1>4, <2>2, <2>5, <2>6, BucketEffect DEF BucketStep
<1>. QED
  BY <1>3, <1>4

----------------------------------------------------------------------------
(* Documents.                                                              *)

\* The documents of the first config after a step that does not create it.
LEMMA DocumentInvStep ==
  ASSUME IInv, TypeOK', ConfigInv', OwnerInv', BucketInv', [Next]_vars
  PROVE  DocumentInv'
<1>. USE DEF IInv
<1>1. ConfigStep
  BY ConfigEffect
<1>2. config.uid \in Nat /\ config'.uid \in Nat /\ worker.copy.uid \in Nat
  <2>1. config'.uid \in Nat
    BY ConfigAssumption DEF TypeOK, Config, UIDs
  <2>. QED
    BY <2>1, NumberTypes
<1>3. bucket'.owner # Foreign => bucket.owner # Foreign
  <2>1. CASE ACKBucket
    <3>1. bucket.owner = Foreign => bucket.st = "live" /\ bucket.synced
      BY Zenon DEF OwnerInv, ForeignObject, NoObject
    <3>. QED
      BY <2>1, <3>1 DEF ACKBucket
  <2>. QED
    BY <2>1, BucketEffect DEF BucketStep
<1>4. s3 \in S3 /\ (~s3.exists => s3.doc = Withdrawn)
  BY DEF TypeOK
<1>5. worker.pc # "idle" => worker.copy.uid > 0 /\ worker.copy.uid <= config.uid
  BY DEF PassInv, Shows
<1>6. s3.exists /\ bucket.owner # Foreign => bucket.st # "none"
  BY DEF BucketInv, NoObject
<1>7. CASE config'.uid = config.uid + 1 /\ UNCHANGED userVars
  \* CreateConfig: the first config finds no documents and no pass.
  <2>1. /\ s3' = s3 /\ worker' = worker /\ bucket' = bucket
    BY <1>7 DEF userVars
  <2>2. config'.uid = 0 \/ First' => config.uid = 0
    BY <1>2, <1>7 DEF First
  <2>3. config.uid = 0 => worker.pc = "idle"
    BY <1>2, <1>5
  <2>4. config.uid = 0 /\ bucket.owner # Foreign => s3.doc = Withdrawn
    BY DEF DocumentInv
  <2>. QED
    BY <2>1, <2>2, <2>3, <2>4 DEF DocumentInv, First
<1>8. CASE config'.uid = config.uid
  <2>1. First' => First /\ config'.type = config.type
    <3>1. config.uid + 1 # config.uid
      BY <1>2
    <3>2. config'.st # "none" => config.st # "none" /\ config'.type = config.type
      BY <1>1, <1>8, <3>1 DEF ConfigStep
    <3>. QED
      BY <1>3, <1>8, <3>2 DEF First
  <2>2. First /\ worker.pc # "idle" =>
          worker.copy.uid = config.uid /\ worker.copy.type = config.type
    <3>1. config.uid = 1 /\ worker.pc # "idle" => worker.copy.uid = config.uid
      BY <1>2, <1>5
    <3>. QED
      BY <3>1 DEF First, PassInv, Shows
  <2>3. /\ s3.doc = Withdrawn /\ s3'.doc # Withdrawn => worker.pc = "publish" /\ s3.exists
        /\ worker.pc # "publish" /\ s3.doc = Withdrawn => s3'.doc = Withdrawn
    <3>1. CASE s3' = s3
      BY <3>1
    <3>2. CASE ensureOIDCObjectsPublished
      BY <3>2 DEF ensureOIDCObjectsPublished, EnsureOIDCIssuer
    <3>3. CASE deleteSelfHostedOIDCObjects
      BY <3>3, WithdrawEffect
    <3>4. CASE ACKBucket
      BY <1>4, <3>4 DEF ACKBucket, S3
    <3>. QED
      BY <3>1, <3>2, <3>3, <3>4, Frame
  <2>4. config'.uid = 0 /\ bucket'.owner # Foreign => s3'.doc = Withdrawn
    BY <1>2, <1>3, <1>5, <1>8, <2>3 DEF DocumentInv
  <2>5. First' /\ s3'.doc # Withdrawn =>
          bucketCache'.st # "none" /\ config'.type = "SelfHostedIRSA"
    <3>. SUFFICES ASSUME First', s3'.doc # Withdrawn
                  PROVE  bucketCache'.st # "none" /\ config'.type = "SelfHostedIRSA"
      OBVIOUS
    <3>1. First /\ config'.type = config.type /\ bucket.owner # Foreign
      BY <2>1 DEF First
    <3>2. bucketCache.st # "none" /\ bucket.st # "none" /\ config.type = "SelfHostedIRSA"
      <4>1. CASE s3.doc # Withdrawn
        BY <1>4, <1>6, <3>1, <4>1 DEF DocumentInv
      <4>2. CASE s3.doc = Withdrawn
        BY <1>6, <2>2, <2>3, <3>1, <4>2 DEF DocumentInv, PassInv
      <4>. QED
        BY <4>1, <4>2
    <3>. QED
      BY <3>1, <3>2, CacheEffect DEF cacheVars, serverVars
  <2>6. First' /\ worker'.pc = "publish" => bucketCache'.st # "none" \/ bucket'.st = "none"
    <3>. SUFFICES ASSUME First', worker'.pc = "publish", bucket'.st # "none"
                  PROVE  bucketCache'.st # "none"
      OBVIOUS
    <3>1. First
      BY <2>1
    <3>2. CASE worker.pc = "publish"
      <4>1. bucket.st # "none"
        BY <3>2, BucketEffect DEF BucketStep, Deleted, ACKBucket
      <4>2. bucketCache.st # "none"
        BY <3>1, <3>2, <4>1 DEF DocumentInv
      <4>. QED
        BY <4>1, <4>2, CacheEffect DEF cacheVars, serverVars
    <3>3. CASE bucketCache.st # "none" /\ UNCHANGED bucketCache
      BY <3>3
    <3>. QED
      BY <3>2, <3>3, PassEffect, NormalEffect, StartEffect, DeleteEffect, DeleteObjectsEffect,
         ClearEffect, Zenon DEF PassStep
  <2>7. ASSUME First', worker'.pc \in {"delete", "final"},
               worker'.pc = "delete" => "objects" \notin worker'.todo /\ ~worker'.failed
        PROVE  s3'.doc = Withdrawn
    <3>1. First /\ bucket.owner # Foreign
      BY <2>1, <2>7 DEF First
    <3>2. CASE UNCHANGED worker
      BY <2>3, <2>7, <3>1, <3>2 DEF DocumentInv
    <3>3. CASE reconcileNormalFails \/ reconcileDelete
      <4>1. /\ configCache.st # "none" /\ worker.pc = "idle" /\ worker'.pc # "final"
            /\ worker'.pc = "delete" => worker'.todo = ConfigChildren(configCache.type)
        BY <3>3, StartEffect
      <4>2. configCache.type # "SelfHostedIRSA"
        BY <2>7, <4>1 DEF ConfigChildren, Children
      <4>3. configCache.uid = config.uid
        <5>1. config.uid = 1 /\ configCache.uid > 0 /\ configCache.uid <= config.uid
          BY <3>1, <4>1 DEF First, ConfigInv, Shows
        <5>. QED
          BY <5>1, NumberTypes
      <4>4. config.type # "SelfHostedIRSA"
        BY <3>1, <4>1, <4>2, <4>3 DEF First, ConfigInv, Shows
      <4>. QED
        BY <2>3, <3>1, <4>1, <4>4 DEF DocumentInv
    <3>4. CASE deleteOIDCProvider \/ deleteSigningSecret \/ deleteBucket
      BY <2>3, <2>7, <3>1, <3>4, DeleteEffect DEF DocumentInv
    <3>5. CASE deleteSelfHostedOIDCObjects
      <4>1. CASE bucketCache.st # "none" /\ bucketCache.owner = worker.copy.uid
        BY <2>7, <3>5, <4>1, DeleteObjectsEffect
      <4>2. CASE bucketCache.st = "none"
        BY <2>3, <3>1, <3>5, <4>2, DeleteObjectsEffect DEF DocumentInv
      <4>3. CASE bucketCache.st # "none" /\ bucketCache.owner # worker.copy.uid
        <5>1. /\ bucketCache.owner > 0 /\ bucketCache.owner <= config.uid
              /\ bucketCache.owner \in Nat
          BY <3>1, <4>3, NumberTypes, SMTT(30) DEF OwnerInv, OwnedBy
        <5>2. worker.copy.uid = config.uid /\ config.uid = 1
          BY <2>2, <3>1, <3>5, DeleteObjectsEffect DEF First
        <5>. QED
          BY <4>3, <5>1, <5>2
      <4>. QED
        BY <4>1, <4>2, <4>3
    <3>6. CASE clearDeletionBlocked
      BY <2>3, <3>1, <3>6, ClearEffect DEF DocumentInv
    <3>. QED
      BY <2>7, <3>2, <3>3, <3>4, <3>5, <3>6, PassEffect, NormalEffect DEF PassStep
  <2>. QED
    BY <2>4, <2>5, <2>6, <2>7 DEF DocumentInv
<1>9. config'.uid = config.uid \/ (config'.uid = config.uid + 1 /\ UNCHANGED userVars)
  BY <1>1 DEF ConfigStep
<1>. QED
  BY <1>7, <1>8, <1>9

----------------------------------------------------------------------------
(* The theorems.                                                           *)

\* The invariant holds at the start.
LEMMA InitInv == Init => IInv
<1>. SUFFICES ASSUME Init PROVE IInv
  OBVIOUS
<1>1. PICK stranger \in Strangers \cup {"none"} :
        /\ bucket = IF stranger = "bucket" THEN ForeignObject ELSE NoObject
        /\ provider = IF stranger = "provider" THEN ForeignObject ELSE NoObject
        /\ s3 = [exists |-> stranger = "bucket",
                 doc    |-> IF stranger = "bucket" THEN Published(MaxKeys) ELSE Withdrawn]
  BY DEF Init
<1>2. /\ config = NoConfig(0) /\ configCache = NoConfig(0)
      /\ secret = NoSecret /\ secretCache = NoSecret
      /\ bucketCache = bucket /\ providerCache = provider
      /\ keys = 0 /\ roles = FALSE /\ rolesCache = FALSE
      /\ remote = "ready" /\ worker = Idle /\ changes = 0
  BY DEF Init
<1>3. /\ NoConfig(0).uid = 0 /\ NoConfig(0).st = "none" /\ Idle.pc = "idle"
      /\ NoObject.owner = 0 /\ NoObject.st = "none" /\ ~NoObject.synced
      /\ ForeignObject.owner = Foreign /\ ForeignObject.st = "live" /\ ForeignObject.synced
      /\ 0 # Foreign
  BY Constants DEF NoConfig, Idle, NoObject, ForeignObject
<1>4. s3 \in S3 /\ s3.exists = (stranger = "bucket") /\ (~s3.exists => s3.doc = Withdrawn)
  BY <1>1, Constants, Zenon DEF S3
<1>5. TypeOK
  <2>1. NoConfig(0) \in Config /\ 0 \in Keys /\ 0 \in 0 .. MaxChanges /\ "ready" \in Remotes
    BY Constants, ConfigAssumption DEF Remotes
  <2>2. bucket \in ACKObject /\ provider \in ACKObject
    BY <1>1, Constants
  <2>3. NoSecret \in Secret /\ Idle \in Pass
    BY Constants
  <2>. QED
    BY <1>2, <1>4, <2>1, <2>2, <2>3, Zenon DEF TypeOK
<1>6. ConfigInv /\ PassInv
  <2>1. config.uid = 0 /\ config.st = "none" /\ configCache = config /\ worker.pc = "idle"
    BY <1>2, <1>3
  <2>2. ConfigInv
    BY <2>1 DEF ConfigInv, Shows
  <2>3. PassInv
    BY <2>1 DEF PassInv
  <2>. QED
    BY <2>2, <2>3
<1>7. OwnerInv
  <2>1. /\ bucket \in {NoObject, ForeignObject} /\ bucketCache = bucket
        /\ provider \in {NoObject, ForeignObject} /\ providerCache = provider
        /\ worker.pc # "publish" /\ config.uid = 0
    BY <1>1, <1>2, <1>3
  <2>2. OwnedBy(bucket) /\ OwnedBy(bucketCache)
    BY <1>3, <2>1 DEF OwnedBy
  <2>. QED
    BY <1>3, <2>1, <2>2 DEF OwnerInv
<1>8. BucketInv
  BY <1>1, <1>2, <1>3, <1>4, ZenonT(30) DEF BucketInv
<1>9. DocumentInv
  BY <1>1, <1>2, <1>3, <1>4 DEF DocumentInv, First
<1>. QED
  BY <1>5, <1>6, <1>7, <1>8, <1>9 DEF IInv

\* Every step preserves the invariant.
LEMMA NextInv == IInv /\ [Next]_vars => IInv'
<1>. SUFFICES ASSUME IInv, [Next]_vars PROVE IInv'
  OBVIOUS
<1>1. TypeOK /\ ConfigInv /\ PassInv /\ OwnerInv /\ BucketInv
  BY DEF IInv
<1>2. TypeOK'
  BY <1>1, TypeStep
<1>3. ConfigInv'
  BY <1>1, <1>2, ConfigInvStep
<1>4. PassInv'
  BY <1>1, <1>2, <1>3, PassInvStep
<1>5. OwnerInv'
  BY <1>1, <1>2, <1>3, OwnerInvStep
<1>6. BucketInv'
  BY <1>1, <1>2, BucketInvStep
<1>7. DocumentInv'
  BY <1>2, <1>3, <1>5, <1>6, DocumentInvStep
<1>. QED
  BY <1>2, <1>3, <1>4, <1>5, <1>6, <1>7 DEF IInv

\* The invariant of the config controller, for every value of the constants.
THEOREM IssuerInvariantThm == Spec => []IInv
BY InitInv, NextInv, PTL DEF Spec

\* Type correctness of the config controller; in particular a bucket that does not
\* exist holds no documents.
THEOREM IssuerTypeThm == Spec => []TypeOK
<1>1. IInv => TypeOK
  BY DEF IInv
<1>. QED
  BY <1>1, IssuerInvariantThm, PTL

\* The signing key is never replaced (reconcileSigningSecret, restoreSigningSecretData).
THEOREM KeyKeptThm == Spec => KeyKept
<1>. DEFINE Kept == secret.key # 0 => secret'.key \in {secret.key, 0}
<1>1. IInv /\ [Next]_vars => [Kept]_vars
  <2>. SUFFICES ASSUME IInv, [Next]_vars PROVE Kept
    OBVIOUS
  <2>1. TypeOK /\ secret \in Secret
    BY DEF IInv, TypeOK
  <2>2. NoSecret.key = 0
    BY DEF NoSecret
  <2>3. CASE reconcileSigningSecret
    BY <2>1, <2>3, SecretEffect, Zenon
  <2>4. CASE deleteSigningSecret \/ CollectGarbage
    BY <2>2, <2>4 DEF deleteSigningSecret, CollectGarbage
  <2>5. CASE ChangeSecret
    <3>1. [secret EXCEPT !.labelled = FALSE].key = secret.key
      BY <2>1 DEF Secret
    <3>. QED
      BY <2>2, <2>5, <3>1, Zenon DEF ChangeSecret
  <2>. QED
    BY <2>3, <2>4, <2>5, Frame
<1>. QED
  BY <1>1, IssuerInvariantThm, PTL DEF Spec, KeyKept

\* Objects of other controllers, and the documents in their bucket, are left alone
\* (deleteConfigChildIfOwned, deleteSelfHostedOIDCObjects, createOrUpdate).
THEOREM ForeignKeptThm == Spec => ForeignKept
<1>. DEFINE Kept == /\ bucket.owner = Foreign => bucket' = bucket /\ s3' = s3
                    /\ provider.owner = Foreign => provider' = provider
<1>1. IInv /\ [Next]_vars => [Kept]_vars
  <2>. SUFFICES ASSUME IInv, [Next]_vars PROVE Kept
    OBVIOUS
  <2>1. TypeOK /\ OwnerInv
    BY DEF IInv
  <2>2. provider.owner = Foreign => provider' = provider
    BY <2>1, ProviderEffect
  <2>3. ASSUME bucket.owner = Foreign
        PROVE  bucket' = bucket /\ s3' = s3
    <3>1. /\ bucket.st = "live" /\ bucket.synced /\ worker.pc # "publish"
          /\ bucketCache.owner = Foreign
      BY <2>1, <2>3, Zenon DEF OwnerInv, ForeignObject, NoObject
    <3>2. ~ACKBucket
      BY <3>1 DEF ACKBucket
    <3>3. ~ensureOIDCObjectsPublished
      BY <3>1 DEF ensureOIDCObjectsPublished
    <3>4. CASE deleteSelfHostedOIDCObjects
      <4>1. ~isConfigChildOwnedBy(bucketCache.owner)
        BY <2>1, <3>1, Constants DEF isConfigChildOwnedBy, TypeOK, Pass, Config
      <4>. QED
        BY <3>4, <4>1, SMTT(30) DEF deleteSelfHostedOIDCObjects
    <3>. QED
      BY <2>1, <2>3, <3>2, <3>3, <3>4, BucketEffect, Frame DEF BucketStep
  <2>. QED
    BY <2>2, <2>3
<1>. QED
  BY <1>1, IssuerInvariantThm, PTL DEF Spec, ForeignKept

\* The IAM provider of the self-hosted issuer is created after both documents, which
\* were rendered from one key (reconcileSelfHostedIssuer).
THEOREM ProviderAfterDocumentsThm == Spec => ProviderAfterDocuments
<1>. DEFINE After ==
       provider.st = "none" /\ provider'.st = "live" /\ provider'.url = "selfhosted"
       => \E k \in Keys \ {0} : \A d \in Documents : s3.doc[d] = k
<1>1. IInv /\ [Next]_vars => [After]_vars
  <2>. SUFFICES ASSUME IInv, [Next]_vars,
                       provider.st = "none", provider'.st = "live", provider'.url = "selfhosted"
                PROVE  \E k \in Keys \ {0} : \A d \in Documents : s3.doc[d] = k
    OBVIOUS
  <2>1. TypeOK /\ PassInv
    BY DEF IInv
  <2>2. ~ACKProvider
    BY DEF ACKProvider
  <2>3. provider' \notin Deleted(provider)
    BY SMTT(30) DEF Deleted
  <2>4. reconcileOIDCProvider
    BY <2>2, <2>3, Frame DEF deleteOIDCProvider, CollectGarbage
  <2>5. worker.pc = "provider" /\ worker.copy.type = "SelfHostedIRSA"
    <3>. DEFINE new == Mutated(providerCache, IssuerURL(worker.copy.type))
    <3>1. worker.pc = "provider" /\ provider' \in {provider, new}
      BY <2>4, SMTT(30) DEF reconcileOIDCProvider, Written
    <3>2. new.url = IssuerURL(worker.copy.type)
      <4>1. IssuerURL(worker.copy.type) \in Issuers
        BY DEF Issuers, IssuerURL
      <4>2. worker \in Pass /\ providerCache \in ACKObject
        BY <2>1, SMTT(30) DEF TypeOK
      <4>. QED
        BY <4>1, <4>2, MutatedType
    <3>. HIDE DEF new
    <3>. QED
      BY <3>1, <3>2 DEF IssuerURL
  <2>6. worker.key \in Keys \ {0} /\ \A d \in Documents : s3.doc[d] = worker.key
    BY <2>1, <2>5 DEF PassInv, TypeOK, Pass
  <2>. QED
    BY <2>6
<1>. QED
  BY <1>1, IssuerInvariantThm, PTL DEF Spec, ProviderAfterDocuments

\* The documents of the first config are gone before its finalizer, however often a
\* deletion is cut short, repeated, or run on stale caches (reconcileDelete,
\* deleteSelfHostedOIDCObjects).
THEOREM DocumentsWithdrawnFirstThm == Spec => DocumentsWithdrawnFirst
<1>. DEFINE Gone ==
       config.uid = 1 /\ config.st = "deleting" /\ config'.st = "none"
       => s3.doc = Withdrawn \/ bucket.owner = Foreign
<1>1. IInv /\ [Next]_vars => [Gone]_vars
  <2>. SUFFICES ASSUME IInv, [Next]_vars,
                       config.uid = 1, config.st = "deleting", config'.st = "none",
                       bucket.owner # Foreign
                PROVE  s3.doc = Withdrawn
    OBVIOUS
  <2>1. TypeOK /\ DocumentInv /\ First
    BY DEF IInv, First
  <2>2. CASE removeFinalizer
    BY <2>1, <2>2 DEF removeFinalizer, DocumentInv
  <2>3. CASE finishNormal \/ failReady \/ markDeletionBlocked
    BY <2>1, <2>3, ReportEffect
  <2>4. CASE clearDeletionBlocked
    BY <2>1, <2>4, ClearEffect
  <2>5. CASE User
    <3>1. config \in Config
      BY <2>1 DEF TypeOK
    <3>2. [config EXCEPT !.force = TRUE].st = "deleting"
      BY <3>1 DEF Config
    <3>. QED
      BY <2>5, <3>2, Zenon DEF User, CreateConfig, DeleteConfig, ForceDelete, ChangeRoles,
         ChangeRemote, ChangeSecret
  <2>6. CASE ensureFinalizer
    BY <2>6 DEF ensureFinalizer
  <2>. QED
    BY <2>2, <2>3, <2>4, <2>5, <2>6, Frame
<1>. QED
  BY <1>1, IssuerInvariantThm, PTL DEF Spec, DocumentsWithdrawnFirst

================================================================================
