----------------------------- MODULE ConfigIssuer ------------------------------
(***************************************************************************)
(* The AWSWorkloadIdentityConfig controller and the hub side of an issuer: *)
(* signing Secret, S3 Bucket, the two published OIDC documents and the IAM *)
(* OpenIDConnectProvider, for the config of one namespace over its         *)
(* successive objects (uids), which may have different delivery types.     *)
(*                                                                         *)
(* A step is one API or S3 call with the cached reads before it.  What the *)
(* workload cluster contributes (inventory and webhook runtime, module     *)
(* WebhookRuntime) is the variable remote.                                 *)
(***************************************************************************)
EXTENDS Naturals, FiniteSets

CONSTANTS
  Types,        \* spec.type (and EKSIRSA management) of the first config
  Successors,   \* ... and of the ones created after it
  MaxUID,       \* how many configs of the namespace are created, one after the other
  MaxKeys,      \* how many signing keys are generated
  Strangers,    \* objects of other controllers that may hold a generated name
  Disturbances, \* what may go wrong, or be changed by someone else
  MaxChanges    \* how often

ConfigTypes == {"SelfHostedIRSA", "EKSIRSAManaged", "EKSIRSAExternal", "EKSPodIdentity"}

DisturbanceKinds == {"error", "crash", "secretLost", "unlabelled", "remote", "role", "force",
                     "successor"}

ASSUME ConfigAssumption ==
  /\ Types \cup Successors \subseteq ConfigTypes /\ Disturbances \subseteq DisturbanceKinds
  /\ Strangers \subseteq {"bucket", "provider"}
  /\ MaxUID \in Nat /\ MaxKeys \in Nat /\ MaxChanges \in Nat

VARIABLES
  config, configCache,     \* the config on the hub API server, and in the cache
  secret, secretCache,     \* the signing Secret
  bucket, bucketCache,     \* the ACK Bucket
  provider, providerCache, \* the ACK OpenIDConnectProvider
  s3,                      \* the S3 bucket and the key each document was rendered from
  keys,                    \* signing keys generated so far
  roles, rolesCache,       \* are there AWSServiceAccountRoles in the namespace?
  remote,                  \* the workload cluster: runtime ready, rolling out, or unreachable
  worker,                  \* the reconcile pass in flight
  changes                  \* disturbances so far

vars == <<config, configCache, secret, secretCache, bucket, bucketCache, provider,
          providerCache, s3, keys, roles, rolesCache, remote, worker, changes>>

cacheVars == <<configCache, secretCache, bucketCache, providerCache, rolesCache>>

hubVars == <<cacheVars, roles, remote>>

UIDs == 0 .. MaxUID

\* The owner of an object that belongs to another controller.
Foreign == MaxUID + 1

Keys == 0 .. MaxKeys

Documents == {"openid-configuration", "keys.json"}

\* The issuer an IAM provider, or its ARN, stands for.
Issuers == {"none", "selfhosted", "eks"}

\* One JSON list: a merge patch writes all conditions or none.
Conditions == [issuer : BOOLEAN, ready : BOOLEAN, blocked : BOOLEAN]

\* pub: the signing key id of status.selfHostedIssuer.publication; arn: status.oidcProviderARN.
Status == [pub : Keys, arn : Issuers, conds : Conditions]

NoStatus == [pub |-> 0, arn |-> "none",
             conds |-> [issuer |-> FALSE, ready |-> FALSE, blocked |-> FALSE]]

Config == [uid : UIDs, st : {"none", "live", "deleting"}, fin : BOOLEAN, force : BOOLEAN,
           type : ConfigTypes \cup {"none"}, status : Status]

NoConfig(u) == [uid |-> u, st |-> "none", fin |-> FALSE, force |-> FALSE, type |-> "none",
                status |-> NoStatus]

\* owner: uid of controllerRef and config-uid label, 0 when there is no Secret;
\* labelled: does it carry a label the Secret cache knows it by?
Secret == [owner : UIDs, key : Keys, labelled : BOOLEAN]

NoSecret == [owner |-> 0, key |-> 0, labelled |-> FALSE]

\* url: the issuer in the spec; arn: the issuer the AWS resource was made for.
ACKObject == [st : {"none", "live", "deleting"}, owner : UIDs \cup {Foreign}, synced : BOOLEAN,
              url : Issuers, arn : Issuers]

NoObject == [st |-> "none", owner |-> 0, synced |-> FALSE, url |-> "none", arn |-> "none"]

ForeignObject == [NoObject EXCEPT !.st = "live", !.owner = Foreign, !.synced = TRUE]

S3 == [exists : BOOLEAN, doc : [Documents -> Keys]]

Published(k) == [d \in Documents |-> k]

Withdrawn == Published(0)

Remotes == {"ready", "rolling", "down"}

Children == {"provider", "secret", "objects", "bucket"}

\* copy: the cached config the pass works on; status: what it will report; todo:
\* documents to publish or children to delete; failed: the issuer path or a deletion
\* returned an error.
Pass == [pc     : {"idle", "secret", "bucket", "publish", "provider", "status",
                   "unready", "blocked", "delete", "final"},
         copy   : Config,
         status : Status,
         key    : Keys,
         todo   : SUBSET (Documents \cup Children),
         remote : Remotes,
         failed : BOOLEAN]

Idle == [pc |-> "idle", copy |-> NoConfig(0), status |-> NoStatus, key |-> 0, todo |-> {},
         remote |-> "down", failed |-> FALSE]

TypeOK ==
  /\ config \in Config /\ configCache \in Config
  /\ secret \in Secret /\ secretCache \in Secret
  /\ bucket \in ACKObject /\ bucketCache \in ACKObject
  /\ provider \in ACKObject /\ providerCache \in ACKObject
  /\ s3 \in S3 /\ (~s3.exists => s3.doc = Withdrawn)
  /\ keys \in Keys /\ roles \in BOOLEAN /\ rolesCache \in BOOLEAN
  /\ remote \in Remotes /\ worker \in Pass /\ changes \in 0 .. MaxChanges

Init ==
  /\ config = NoConfig(0) /\ configCache = NoConfig(0)
  /\ secret = NoSecret /\ secretCache = NoSecret
  /\ \E stranger \in Strangers \cup {"none"} :
       /\ bucket = IF stranger = "bucket" THEN ForeignObject ELSE NoObject
       /\ provider = IF stranger = "provider" THEN ForeignObject ELSE NoObject
       /\ s3 = [exists |-> stranger = "bucket",
                doc    |-> IF stranger = "bucket" THEN Published(MaxKeys) ELSE Withdrawn]
  /\ bucketCache = bucket /\ providerCache = provider
  /\ keys = 0 /\ roles = FALSE /\ rolesCache = FALSE
  /\ remote = "ready" /\ worker = Idle /\ changes = 0

Disturb(kind) == kind \in Disturbances /\ changes < MaxChanges /\ changes' = changes + 1

Goto(pc) == worker' = [worker EXCEPT !.pc = pc]

EndPass == worker' = Idle

StartPass(pc, todo) ==
  /\ worker.pc = "idle"
  /\ worker' = [pc |-> pc, copy |-> configCache, status |-> configCache.status, key |-> 0,
                todo |-> todo, remote |-> remote, failed |-> FALSE]
--------------------------------------------------------------------------------
(* API calls *)

\* createOrUpdate for an ACK object: what the cached Get and the mutation make of
\* it.  The controller reference is replaced by name, so the next config of the
\* namespace takes over what an earlier one left.
Mutated(cached, url) ==
  IF cached.st = "none"
  THEN [NoObject EXCEPT !.st = "live", !.owner = worker.copy.uid, !.url = url]
  ELSE [cached EXCEPT !.owner = worker.copy.uid, !.url = url]

\* It fails when another controller controls the object and, with AlreadyExists,
\* NotFound or conflicts until the retries are used up, when a write is needed and
\* the server has moved on; without a difference there is no write.
Writable(server, cached, new) ==
  cached.owner # Foreign /\ (server = cached \/ new = cached)

Written(server, cached, new) == IF new = cached THEN server ELSE new

\* Delete goes by name.  An object ACK has not touched has no finalizer and is gone at once.
Deleted(obj) ==
  IF obj.st = "none" THEN {obj}
  ELSE {[obj EXCEPT !.st = "deleting"]} \cup (IF obj.synced THEN {} ELSE {NoObject})

\* JSON merge patch of the status: what the pass did not change is not in it.  The
\* conditions are one list, sent when any of them (also one that is not modelled) changed.
MergePatch(server, before, after, sent) ==
  [pub   |-> IF after.pub = before.pub THEN server.pub ELSE after.pub,
   arn   |-> IF after.arn = before.arn THEN server.arn ELSE after.arn,
   conds |-> IF sent THEN after.conds ELSE server.conds]

\* The patch goes by name to whatever config the server holds.
patchConfigStatus(after) ==
  IF config.st = "none" THEN UNCHANGED config
  ELSE \E sent \in {TRUE, after.conds # worker.copy.status.conds} :
         config' = [config EXCEPT
           !.status = MergePatch(@, worker.copy.status, after, sent)]
--------------------------------------------------------------------------------
(* reconcileNormal *)

ensureFinalizer ==
  /\ worker.pc = "idle"
  /\ configCache.st = "live" /\ ~configCache.fin /\ configCache = config
  /\ config' = [config EXCEPT !.fin = TRUE]
  /\ UNCHANGED <<hubVars, secret, bucket, provider, s3, keys, worker, changes>>

\* Mutant: the default case is missing.
reconcileConfigComponents_NoDefault(type, status) ==
  IF type = "SelfHostedIRSA" THEN <<"secret", status>> ELSE <<"none", status>>

\* EKSIRSA forgets what an earlier pass published; EKSPodIdentity and an external
\* provider need no call.
reconcileConfigComponents(type, status) ==
  CASE type = "SelfHostedIRSA"  -> <<"secret", status>>
    [] type = "EKSIRSAManaged"  -> <<"provider", [status EXCEPT !.pub = 0, !.arn = "none"]>>
    [] type = "EKSIRSAExternal" ->
         <<"status", [status EXCEPT !.pub = 0, !.arn = "eks", !.conds.issuer = TRUE]>>
    [] type = "EKSPodIdentity"  ->
         <<"status", [status EXCEPT !.pub = 0, !.arn = "none", !.conds.issuer = TRUE]>>

reconcileNormal ==
  /\ worker.pc = "idle" /\ configCache.st = "live" /\ configCache.fin
  /\ LET next == reconcileConfigComponents(configCache.type, configCache.status)
     IN worker' = [pc |-> next[1], copy |-> configCache, status |-> next[2], key |-> 0,
                   todo |-> {}, remote |-> remote, failed |-> FALSE]
  /\ UNCHANGED <<hubVars, config, secret, bucket, provider, s3, keys, changes>>

\* Without an operator configuration, or when the resolver fails, only Ready=False is
\* reported.
reconcileNormalFails ==
  /\ configCache.st = "live" /\ configCache.fin
  /\ Disturb("error") /\ StartPass("unready", {})
  /\ UNCHANGED <<hubVars, config, secret, bucket, provider, s3, keys>>

failReady ==
  /\ worker.pc = "unready"
  /\ patchConfigStatus([worker.status EXCEPT !.conds.ready = FALSE])
  /\ EndPass
  /\ UNCHANGED <<hubVars, secret, bucket, provider, s3, keys, changes>>

\* Conditions of the current generation are kept.  The spec is immutable, so a
\* live config has one generation and what an earlier pass reported is kept too.
setSelfHostedIssuerFailureCondition(status) == status

\* A failed publication is reported; the EKSIRSA path clears ARN and IssuerReady.
Failure ==
  CASE worker.copy.type = "EKSIRSAManaged" ->
         [worker.status EXCEPT !.arn = "none", !.conds.issuer = FALSE]
    [] worker.copy.type = "SelfHostedIRSA" /\ worker.pc = "publish" ->
         [worker.status EXCEPT !.conds.issuer = FALSE]
    [] OTHER -> setSelfHostedIssuerFailureCondition(worker.status)

issuerFails ==
  worker' = [worker EXCEPT !.pc = "status", !.status = Failure, !.todo = {}, !.failed = TRUE]

\* The cache drops the data of a Secret that has none of the operator's labels.
CachedKey == IF secretCache.labelled THEN secretCache.key ELSE 0

\* Mutant: the live Secret is not consulted.
restoreSigningSecretData_Cached == CachedKey

\* Without data in the cache the live Secret is read.
restoreSigningSecretData == IF CachedKey # 0 THEN CachedKey ELSE secret.key

\* A key is generated only when neither cache nor server have one.
reconcileSigningSecret ==
  /\ worker.pc = "secret"
  /\ LET fresh == restoreSigningSecretData = 0
         key   == IF fresh THEN keys + 1 ELSE restoreSigningSecretData
         seen  == [secretCache EXCEPT !.key = CachedKey]
         new   == [owner |-> worker.copy.uid, key |-> key, labelled |-> TRUE]
     IN \/ /\ new = seen \/ secret = secretCache
           /\ key \in Keys
           /\ secret' = IF new = seen THEN secret ELSE new
           /\ keys' = IF fresh THEN keys + 1 ELSE keys
           /\ worker' = [worker EXCEPT !.pc = "bucket", !.key = key]
        \/ new # seen /\ secret # secretCache /\ issuerFails /\ UNCHANGED <<secret, keys>>
  /\ UNCHANGED <<hubVars, config, bucket, provider, s3, changes>>

\* Until ACK has synced the bucket nothing counts as published.
reconcileSelfHostedBucket ==
  /\ worker.pc = "bucket"
  /\ LET new == Mutated(bucketCache, "none")
     IN \/ /\ Writable(bucket, bucketCache, new)
           /\ bucket' = Written(bucket, bucketCache, new)
           /\ worker' = IF new.synced
                        THEN [worker EXCEPT !.pc = "publish", !.todo = Documents]
                        ELSE [worker EXCEPT !.pc = "status", !.status.pub = 0,
                                            !.status.conds.issuer = FALSE]
        \/ ~Writable(bucket, bucketCache, new) /\ issuerFails /\ UNCHANGED bucket
  /\ UNCHANGED <<hubVars, config, secret, provider, s3, keys, changes>>

\* A document is written unless its metadata show that it is current.
EnsureOIDCIssuer(d) == s3.exists /\ s3' = [s3 EXCEPT !.doc[d] = worker.key]

\* Mutant: the first document counts as both.
ensureOIDCObjectsPublished_First ==
  /\ worker.pc = "publish"
  /\ \/ \E d \in worker.todo :
          /\ EnsureOIDCIssuer(d)
          /\ worker' = [worker EXCEPT !.pc = "provider", !.todo = {}, !.status.pub = worker.key]
     \/ ~s3.exists /\ issuerFails /\ UNCHANGED s3
  /\ UNCHANGED <<hubVars, config, secret, bucket, provider, keys, changes>>

\* Both documents in parallel; the publication is recorded after the last one.
ensureOIDCObjectsPublished ==
  /\ worker.pc = "publish"
  /\ \/ \E d \in worker.todo :
          /\ EnsureOIDCIssuer(d)
          /\ worker' = IF worker.todo = {d}
                       THEN [worker EXCEPT !.pc = "provider", !.todo = {},
                                           !.status.pub = worker.key]
                       ELSE [worker EXCEPT !.todo = @ \ {d}]
     \/ ~s3.exists /\ issuerFails /\ UNCHANGED s3
  /\ UNCHANGED <<hubVars, config, secret, bucket, provider, keys, changes>>

IssuerURL(type) == IF type = "SelfHostedIRSA" THEN "selfhosted" ELSE "eks"

reconcileOIDCProvider ==
  /\ worker.pc = "provider"
  /\ LET new == Mutated(providerCache, IssuerURL(worker.copy.type))
     IN \/ /\ Writable(provider, providerCache, new)
           /\ provider' = Written(provider, providerCache, new)
           /\ worker' = [worker EXCEPT
                !.pc = "status", !.status.arn = new.arn,
                !.status.conds.issuer = new.synced /\ new.arn # "none"]
        \/ ~Writable(provider, providerCache, new) /\ issuerFails /\ UNCHANGED provider
  /\ UNCHANGED <<hubVars, config, secret, bucket, s3, keys, changes>>

\* Mutant: the runtime is not asked.
setConfigReadyCondition_IssuerOnly(status) ==
  [status EXCEPT !.conds.ready = worker.remote # "down" /\ status.conds.issuer]

\* Resolution, issuer and, for SelfHostedIRSA, the webhook runtime must all be ready.
setConfigReadyCondition(status) ==
  [status EXCEPT !.conds.ready = /\ worker.remote # "down"
                                 /\ status.conds.issuer
                                 /\ worker.copy.type = "SelfHostedIRSA" => worker.remote = "ready"]

finishNormal ==
  /\ worker.pc = "status"
  /\ patchConfigStatus(setConfigReadyCondition(worker.status))
  /\ EndPass
  /\ UNCHANGED <<hubVars, secret, bucket, provider, s3, keys, changes>>
--------------------------------------------------------------------------------
(* reconcileDelete *)

ConfigChildren(type) ==
  CASE type = "SelfHostedIRSA" -> Children
    [] type = "EKSIRSAManaged" -> {"provider"}
    [] OTHER                   -> {}

\* Why deletion may not go on: roles remain, or the remote runtime cannot be removed.
DeletionObstacle(c, rolesSeen, cluster) ==
  /\ ~c.force
  /\ rolesSeen \/ (c.type = "SelfHostedIRSA" /\ cluster = "down")

reconcileDelete ==
  /\ configCache.st = "deleting"
  /\ IF DeletionObstacle(configCache, rolesCache, remote)
     THEN StartPass("blocked", {})
     ELSE StartPass("delete", ConfigChildren(configCache.type))
  /\ UNCHANGED <<hubVars, config, secret, bucket, provider, s3, keys, changes>>

\* Mutant: the pass only comes back later.
markDeletionBlocked_Silent ==
  /\ worker.pc = "blocked" /\ EndPass
  /\ UNCHANGED <<hubVars, config, secret, bucket, provider, s3, keys, changes>>

markDeletionBlocked ==
  /\ worker.pc = "blocked"
  /\ patchConfigStatus([worker.status EXCEPT !.conds.blocked = TRUE])
  /\ EndPass
  /\ UNCHANGED <<hubVars, secret, bucket, provider, s3, keys, changes>>

\* deleteSelfHostedChildren has three branches: provider, Secret, and documents before
\* Bucket.  They touch different objects and commute, so they are taken in one order.
Branches == <<"provider", "secret", "objects", "bucket">>

Turn(child) ==
  /\ worker.pc = "delete" /\ child \in worker.todo
  /\ \A i, j \in DOMAIN Branches :
       Branches[j] = child /\ i < j => Branches[i] \notin worker.todo

Done(child) == worker' = [worker EXCEPT !.todo = @ \ {child}]

\* Mutant: a child is known by its name.
isConfigChildOwnedBy_Any(owner) == TRUE

isConfigChildOwnedBy(owner) == owner = worker.copy.uid

\* A child is deleted when the cache shows it and shows it as owned.
deleteOIDCProvider ==
  /\ Turn("provider") /\ Done("provider")
  /\ IF providerCache.st # "none" /\ isConfigChildOwnedBy(providerCache.owner)
     THEN provider' \in Deleted(provider)
     ELSE UNCHANGED provider
  /\ UNCHANGED <<hubVars, config, secret, bucket, s3, keys, changes>>

deleteSigningSecret ==
  /\ Turn("secret") /\ Done("secret")
  /\ secret' = IF isConfigChildOwnedBy(secretCache.owner) THEN NoSecret ELSE secret
  /\ UNCHANGED <<hubVars, config, bucket, provider, s3, keys, changes>>

\* Deleting a document, or one in a bucket that is gone, succeeds when it is not there.
DeleteOIDCIssuer(docs) ==
  s3' = [s3 EXCEPT !.doc = [d \in Documents |-> IF d \in docs THEN 0 ELSE @[d]]]

\* Mutant: errors are ignored.
deleteSelfHostedOIDCObjects_IgnoresErrors ==
  /\ Turn("objects") /\ Done("objects")
  /\ \/ DeleteOIDCIssuer(Documents) /\ UNCHANGED changes
     \/ \E d \in Documents : DeleteOIDCIssuer({d}) /\ Disturb("error")
  /\ UNCHANGED <<hubVars, config, secret, bucket, provider, keys>>

\* The Bucket object witnesses the ownership of the documents.
deleteSelfHostedOIDCObjects ==
  /\ Turn("objects")
  /\ \/ /\ bucketCache.st # "none" /\ isConfigChildOwnedBy(bucketCache.owner)
        /\ \/ DeleteOIDCIssuer(Documents) /\ Done("objects") /\ UNCHANGED changes
           \/ \E d \in Documents : DeleteOIDCIssuer({d}) /\ EndPass /\ Disturb("error")
     \/ /\ bucketCache.st = "none" \/ ~isConfigChildOwnedBy(bucketCache.owner)
        /\ Done("objects") /\ UNCHANGED <<s3, changes>>
  /\ UNCHANGED <<hubVars, config, secret, bucket, provider, keys>>

\* ... and goes after them, since ACK does not delete a bucket that is not empty.
deleteBucket ==
  /\ Turn("bucket") /\ Done("bucket")
  /\ IF bucketCache.st # "none" /\ isConfigChildOwnedBy(bucketCache.owner)
     THEN bucket' \in Deleted(bucket)
     ELSE UNCHANGED bucket
  /\ UNCHANGED <<hubVars, config, secret, provider, s3, keys, changes>>

\* The patch answers with the object the server holds, which the pass goes on with.
clearDeletionBlocked ==
  /\ worker.pc = "delete" /\ worker.todo = {} /\ ~worker.failed
  /\ IF worker.copy.status.conds.blocked
     THEN /\ patchConfigStatus([worker.status EXCEPT !.conds.blocked = FALSE])
          /\ IF config.st = "none" THEN EndPass
             ELSE worker' = [worker EXCEPT !.pc = "final", !.copy = config']
     ELSE Goto("final") /\ UNCHANGED config
  /\ UNCHANGED <<hubVars, secret, bucket, provider, s3, keys, changes>>

\* Any error ends the pass after the other branches have returned.
deleteConfigChildrenFailed ==
  /\ worker.pc = "delete" /\ worker.todo = {} /\ worker.failed /\ EndPass
  /\ UNCHANGED <<hubVars, config, secret, bucket, provider, s3, keys, changes>>

\* Optimistic lock: a copy that is behind changes nothing.  With the finalizer goes a
\* config that is being deleted.
removeFinalizer ==
  /\ worker.pc = "final"
  /\ config' = IF ~worker.copy.fin \/ worker.copy # config THEN config
               ELSE IF config.st = "deleting" THEN NoConfig(config.uid)
               ELSE [config EXCEPT !.fin = FALSE]
  /\ EndPass
  /\ UNCHANGED <<hubVars, secret, bucket, provider, s3, keys, changes>>
--------------------------------------------------------------------------------
(* Errors, users, ACK, garbage collector and caches *)

\* An error of the issuer path is reported; one branch of a deletion that fails
\* cancels those that have not run.
apiError ==
  /\ Disturb("error")
  /\ \/ worker.pc \in {"secret", "bucket", "publish", "provider"} /\ issuerFails
     \/ worker.pc \in {"status", "blocked", "final"} /\ EndPass
     \/ /\ worker.pc = "delete" /\ worker.todo # {}
        /\ \E rest \in SUBSET worker.todo :
             /\ rest # worker.todo
             /\ "objects" \in worker.todo /\ "bucket" \in rest => "objects" \in rest
             /\ worker' = [worker EXCEPT !.todo = rest, !.failed = TRUE]
  /\ UNCHANGED <<hubVars, config, secret, bucket, provider, s3, keys>>

crash ==
  /\ Disturb("crash") /\ worker.pc # "idle" /\ EndPass
  /\ UNCHANGED <<hubVars, config, secret, bucket, provider, s3, keys>>

userVars == <<cacheVars, bucket, provider, s3, keys, worker>>

CreateConfig(type) ==
  /\ config.st = "none" /\ config.uid < MaxUID
  /\ config' = [NoConfig(config.uid + 1) EXCEPT !.st = "live", !.type = type]
  /\ \/ config.uid = 0 /\ type \in Types /\ UNCHANGED changes
     \/ config.uid > 0 /\ type \in Successors /\ Disturb("successor")
  /\ UNCHANGED <<userVars, secret, roles, remote>>

\* A config without the finalizer is gone at once.
DeleteConfig ==
  /\ config.st = "live"
  /\ config' = IF config.fin THEN [config EXCEPT !.st = "deleting"] ELSE NoConfig(config.uid)
  /\ UNCHANGED <<userVars, secret, roles, remote, changes>>

ForceDelete ==
  /\ Disturb("force") /\ config.st # "none" /\ ~config.force
  /\ config' = [config EXCEPT !.force = TRUE]
  /\ UNCHANGED <<userVars, secret, roles, remote>>

ChangeRoles ==
  /\ Disturb("role") /\ roles' = ~roles
  /\ UNCHANGED <<userVars, config, secret, remote>>

ChangeRemote ==
  /\ Disturb("remote") /\ remote' \in Remotes \ {remote}
  /\ UNCHANGED <<userVars, config, secret, roles>>

ChangeSecret ==
  /\ secret.owner # 0
  /\ \/ Disturb("secretLost") /\ secret' = NoSecret
     \/ Disturb("unlabelled") /\ secret.labelled /\ secret' = [secret EXCEPT !.labelled = FALSE]
  /\ UNCHANGED <<userVars, config, roles, remote>>

ackVars == <<hubVars, config, secret, keys, worker, changes>>

\* ACK makes the bucket, and removes it when it is empty.
ACKBucket ==
  /\ \/ /\ bucket.st = "live" /\ ~bucket.synced
        /\ bucket' = [bucket EXCEPT !.synced = TRUE]
        /\ s3' = [s3 EXCEPT !.exists = TRUE]
     \/ /\ bucket.st = "deleting" /\ s3.doc = Withdrawn
        /\ bucket' = NoObject
        /\ s3' = [s3 EXCEPT !.exists = FALSE]
  /\ UNCHANGED <<ackVars, provider>>

\* The URL of a provider cannot be changed: one made for another issuer is never in sync.
ACKProvider ==
  /\ \/ /\ provider.st = "live" /\ provider.arn \in {"none", provider.url} /\ ~provider.synced
        /\ provider' = [provider EXCEPT !.synced = TRUE, !.arn = provider.url]
     \/ /\ provider.st = "live" /\ provider.arn \notin {"none", provider.url} /\ provider.synced
        /\ provider' = [provider EXCEPT !.synced = FALSE]
     \/ provider.st = "deleting" /\ provider' = NoObject
  /\ UNCHANGED <<ackVars, bucket, s3>>

Orphan(owner) == owner \notin {0, Foreign} /\ (config.st = "none" \/ config.uid # owner)

CollectGarbage ==
  /\ \/ /\ Orphan(secret.owner) /\ secret' = NoSecret /\ UNCHANGED <<bucket, provider>>
     \/ /\ bucket.st = "live" /\ Orphan(bucket.owner)
        /\ bucket' \in Deleted(bucket) /\ UNCHANGED <<secret, provider>>
     \/ /\ provider.st = "live" /\ Orphan(provider.owner)
        /\ provider' \in Deleted(provider) /\ UNCHANGED <<secret, bucket>>
  /\ UNCHANGED <<hubVars, config, s3, keys, worker, changes>>

serverVars == <<config, secret, bucket, provider, s3, keys, roles, remote, worker, changes>>

SyncConfig ==
  /\ configCache # config /\ configCache' = config
  /\ UNCHANGED <<serverVars, secretCache, bucketCache, providerCache, rolesCache>>

SyncSecret ==
  /\ secretCache # secret /\ secretCache' = secret
  /\ UNCHANGED <<serverVars, configCache, bucketCache, providerCache, rolesCache>>

SyncBucket ==
  /\ bucketCache # bucket /\ bucketCache' = bucket
  /\ UNCHANGED <<serverVars, configCache, secretCache, providerCache, rolesCache>>

SyncProvider ==
  /\ providerCache # provider /\ providerCache' = provider
  /\ UNCHANGED <<serverVars, configCache, secretCache, bucketCache, rolesCache>>

SyncRoles ==
  /\ rolesCache # roles /\ rolesCache' = roles
  /\ UNCHANGED <<serverVars, configCache, secretCache, bucketCache, providerCache>>
--------------------------------------------------------------------------------
Reconcile ==
  \/ ensureFinalizer \/ reconcileNormal
  \/ reconcileSigningSecret \/ reconcileSelfHostedBucket \/ ensureOIDCObjectsPublished
  \/ reconcileOIDCProvider \/ finishNormal \/ failReady
  \/ reconcileDelete \/ markDeletionBlocked
  \/ deleteOIDCProvider \/ deleteSigningSecret \/ deleteSelfHostedOIDCObjects \/ deleteBucket
  \/ deleteConfigChildrenFailed \/ clearDeletionBlocked \/ removeFinalizer

User ==
  \/ \E type \in ConfigTypes : CreateConfig(type)
  \/ DeleteConfig \/ ForceDelete \/ ChangeRoles \/ ChangeRemote \/ ChangeSecret

Next ==
  \/ Reconcile \/ reconcileNormalFails \/ apiError \/ crash \/ User
  \/ ACKBucket \/ ACKProvider \/ CollectGarbage
  \/ SyncConfig \/ SyncSecret \/ SyncBucket \/ SyncProvider \/ SyncRoles

Spec == Init /\ [][Next]_vars

\* The work queue starts a pass after every change and every few minutes, a pass
\* goes on, informers deliver, and ACK and the garbage collector do their work.
\* Users and errors are not fair.
Fairness ==
  /\ WF_vars(Reconcile)
  /\ WF_vars(ACKBucket) /\ WF_vars(ACKProvider) /\ WF_vars(CollectGarbage)
  /\ WF_vars(SyncConfig) /\ WF_vars(SyncSecret) /\ WF_vars(SyncBucket)
  /\ WF_vars(SyncProvider) /\ WF_vars(SyncRoles)

FairSpec == Spec /\ Fairness
--------------------------------------------------------------------------------
(* Properties *)

\* The signing key of a Secret that exists is never replaced (every token signed
\* with it would become invalid): a cache that lags, or that hides the data of a
\* Secret without labels, does not make the controller generate another one.
KeyKept == [][secret.key # 0 => secret'.key \in {secret.key, 0}]_vars

\* The IAM provider of the self-hosted issuer is created only when both documents
\* are in S3 and were rendered from the same key (reconcileSelfHostedIssuer).
ProviderAfterDocuments ==
  [][provider.st = "none" /\ provider'.st = "live" /\ provider'.url = "selfhosted"
     => \E k \in Keys \ {0} : \A d \in Documents : s3.doc[d] = k]_vars

\* Deletion withdraws the issuer documents before the finalizer goes, also when a
\* pass is cut short or repeated.  It holds for a config that made its own Bucket: one
\* that took the Bucket of a predecessor over may be deleted while the cache still shows
\* the old owner, and the guard of deleteSelfHostedOIDCObjects then skips the documents.
DocumentsWithdrawnFirst ==
  [][config.uid = 1 /\ config.st = "deleting" /\ config'.st = "none"
     => s3.doc = Withdrawn \/ bucket.owner = Foreign]_vars

\* deleteConfigChildIfOwned, deleteSelfHostedOIDCObjects and createOrUpdate: an object
\* of another controller that holds a generated name is left as it is, and so are the
\* documents in its bucket.
ForeignKept ==
  [][/\ bucket.owner = Foreign => bucket' = bucket /\ s3' = s3
     /\ provider.owner = Foreign => provider' = provider]_vars

\* Does an object of another controller, or a provider made for another issuer (whose
\* URL cannot be changed), stand in the way of the issuer?
Obstructed ==
  \/ config.type = "SelfHostedIRSA" /\ bucket.owner = Foreign
  \/ /\ config.type \in {"SelfHostedIRSA", "EKSIRSAManaged"}
     /\ provider.owner = Foreign \/ provider.arn \notin {"none", provider.url}

IssuerServed ==
  LET st == config.status
  IN /\ st.conds.issuer /\ ~st.conds.blocked
     /\ st.conds.ready =
          (remote # "down" /\ (config.type = "SelfHostedIRSA" => remote = "ready"))
     /\ config.type = "SelfHostedIRSA" =>
          /\ secret.owner = config.uid /\ secret.key # 0 /\ st.pub = secret.key
          /\ s3.doc = Published(secret.key)
          /\ provider.synced /\ provider.arn = "selfhosted" /\ st.arn = "selfhosted"
     /\ config.type \in {"EKSIRSAManaged", "EKSIRSAExternal"} => st.arn = "eks" /\ st.pub = 0
     /\ config.type = "EKSPodIdentity" => st.arn = "none" /\ st.pub = 0

\* In the end a config that stays has its issuer: documents published for the key in
\* the Secret, a provider, and a status that says so and is ready exactly when the
\* workload cluster is.  Without its objects it is not ready.
IssuerConverges ==
  <>[](config.st = "live" =>
         IF Obstructed THEN config.uid = 1 => ~config.status.conds.ready ELSE IssuerServed)

\* A deletion ends, or the status says that it is blocked and it really is; and a
\* deleted config leaves nothing of its own behind once ACK and the garbage collector
\* have done their work: no key, no provider and, if it made its own Bucket, no bucket.
ConfigDrains ==
  <>[](/\ config.st = "deleting" =>
            DeletionObstacle(config, roles, remote) /\ config.status.conds.blocked
       /\ config.st = "none" =>
            /\ secret = NoSecret /\ provider.owner \in {0, Foreign}
            /\ config.uid = 1 /\ bucket.owner # Foreign => bucket = NoObject /\ ~s3.exists)

================================================================================
