---------------------------- MODULE WebhookRuntime -----------------------------
(***************************************************************************)
(* The self-hosted pod identity webhook on one workload cluster: how the   *)
(* passes of the AWSWorkloadIdentityConfig controller install it, rotate   *)
(* its certificates and remove it, while the selector-scoped cache of the  *)
(* cluster lags, the Deployment rolls out, certificates come of age, and   *)
(* people delete objects, strip their labels or hold the names themselves. *)
(*                                                                         *)
(* A step is one API call with the reads before it; the uncached probe of  *)
(* createOrUpdateAdoptableWebhookRuntime goes with the write it guards     *)
(* (the write fails when the object has moved since), the probe of a       *)
(* deletion is a step of its own (the Delete has no precondition).         *)
(***************************************************************************)
EXTENDS Naturals, FiniteSets

CONSTANTS
  MaxUID,       \* how many configs of the namespace are created; the last one stays
  MaxCerts,     \* how many certificates of each sort are issued
  Strangers,    \* objects that may exist without the operator's labels
  Drifting,     \* objects that people delete or strip of their labels
  Disturbances, \* what may go wrong or be changed by someone else
  MaxChanges    \* how often

DisturbanceKinds == {"error", "crash", "delete", "unlabel", "age", "pods", "inventory", "force",
                     "recreate"}

\* service stands for Service and ServiceAccount, rbac for ClusterRole and
\* ClusterRoleBinding, mwhc for the MutatingWebhookConfiguration.
Kinds == {"ca", "tls", "service", "rbac", "deployment", "mwhc"}

ClusterScoped == {"rbac", "mwhc"}

\* The kinds whose contents matter to a pass; of the others a cached copy is
\* as good as the object.
CachedKinds == {"ca", "tls", "deployment", "mwhc"}

ASSUME WebhookAssumption ==
  /\ MaxUID \in Nat \ {0} /\ MaxCerts \in Nat /\ MaxChanges \in Nat
  /\ Strangers \subseteq Kinds
  /\ Drifting \subseteq CachedKinds
  /\ Disturbances \subseteq DisturbanceKinds

VARIABLES
  config, configCache, \* the SelfHostedIRSA config and the cached copy of it
  status,              \* what its status says of the runtime
  namespace,           \* has the webhook namespace been bootstrapped?
  obj, objCache,       \* the runtime objects and their copies in the remote cache
  issued,              \* CA and serving certificates stored so far
  pods,                \* the webhook pods
  served,              \* CAs of the certificates that pods have come up with
  inventory,           \* ready, a live sibling config is not ready, not ready
  worker,              \* the pass in flight
  changes              \* disturbances so far

vars == <<config, configCache, status, namespace, obj, objCache, issued, pods, served,
          inventory, worker, changes>>

Certs == 0 .. MaxCerts

Config == [uid : 1 .. MaxUID, st : {"live", "deleting", "none"}, force : BOOLEAN]

\* runtime: condition WebhookRuntimeReady with its reason; blocked: DeletionBlocked.
Status == [runtime : {"none", "ready", "rolling", "waiting", "bootstrap", "unavailable",
                      "failed", "unmanaged"},
           blocked : BOOLEAN]

\* id: the CA, the serving certificate, or the one whose fingerprint the pod
\* template has; ca: the CA that signed it, or the caBundle; due: within the
\* renewal threshold; obs, upd, avail: observedGeneration is current, updated
\* and available replicas suffice.
Object == [owner : {"none", "managed", "plain"}, id : Certs, ca : Certs, due : BOOLEAN,
           obs : BOOLEAN, upd : BOOLEAN, avail : BOOLEAN]

NoObject == [owner |-> "none", id |-> 0, ca |-> 0, due |-> FALSE, obs |-> FALSE, upd |-> FALSE,
             avail |-> FALSE]

Managed == [NoObject EXCEPT !.owner = "managed"]

Plain == [NoObject EXCEPT !.owner = "plain"]

\* tmpl: the fingerprint in the template they were made from; ca: the CA of
\* the certificate they serve.
Pods == [up : BOOLEAN, tmpl : Certs, ca : Certs]

NoPods == [up |-> FALSE, tmpl |-> 0, ca |-> 0]

Backing == {"deployment", "service", "tls", "ca", "rbac"}

\* copy: the cached config of a deletion; ca, fp: CA and serving certificate of this pass;
\* ready: the assessment of the Deployment; todo: objects to remove; failed: a
\* removal returned an error.
Pass == [pc : {"idle", "ca", "tls", "support", "deployment", "exists", "mwhc",
               "probe", "remove"},
         copy : Config, ca : Certs, fp : Certs, ready : BOOLEAN, todo : SUBSET Kinds,
         failed : BOOLEAN]

Begin(pc, copy, todo) == [pc |-> pc, copy |-> copy, ca |-> 0, fp |-> 0, ready |-> FALSE,
                          todo |-> todo, failed |-> FALSE]

FirstConfig == [uid |-> 1, st |-> "live", force |-> FALSE]

Idle == Begin("idle", FirstConfig, {})

Init ==
  /\ config = FirstConfig /\ configCache = FirstConfig
  /\ status = [runtime |-> "none", blocked |-> FALSE]
  /\ namespace = FALSE
  /\ \E strange \in {{}} \cup {{k} : k \in Strangers} :
       obj = [k \in Kinds |-> IF k \in strange THEN Plain ELSE NoObject]
  /\ objCache = [k \in CachedKinds |-> NoObject]
  /\ issued = [ca |-> 0, tls |-> 0]
  /\ pods = NoPods /\ served = {}
  /\ inventory = "ready"
  /\ worker = Idle /\ changes = 0

Disturb(kind) == kind \in Disturbances /\ changes < MaxChanges /\ changes' = changes + 1

hubVars == <<config, configCache, inventory>>

remoteVars == <<namespace, pods, served>>

----------------------------------------------------------------------------
(* Installing the runtime.                                                 *)

Report(runtime) ==
  /\ status' = [status EXCEPT !.runtime = runtime]
  /\ worker' = Idle

\* The operator never creates the namespace: it waits.
ensureRemoteNamespace == namespace

reconcileSelfHostedWebhookRuntime ==
  /\ worker.pc = "idle" /\ configCache.st = "live"
  /\ \/ inventory = "down" /\ Report("unavailable")
     \/ inventory # "down" /\ ~ensureRemoteNamespace /\ Report("bootstrap")
     \/ /\ inventory # "down" /\ ensureRemoteNamespace
        /\ worker' = Begin("ca", FirstConfig, {})
        /\ UNCHANGED status
  /\ UNCHANGED <<hubVars, remoteVars, obj, objCache, issued, changes>>

\* The uncached probe, the cached Get, and the Create or the optimistic Update,
\* which are left out when the mutated copy equals the cached one.
createOrUpdateAdoptableWebhookRuntime_NoProbe(k, cached, want) ==
  IF cached = want THEN "keep"
  ELSE "write"
createOrUpdateAdoptableWebhookRuntime(k, cached, want) ==
  IF obj[k].owner = "plain" THEN "unmanaged"
  ELSE IF cached = want THEN "keep"
  ELSE IF cached = obj[k] THEN "write"
  ELSE "conflict"

\* The pass goes on as next, or reports the failure.
Apply(k, cached, want, next) ==
  LET result == createOrUpdateAdoptableWebhookRuntime(k, cached, want)
  IN /\ obj' = IF result = "write" THEN [obj EXCEPT ![k] = want] ELSE obj
     /\ issued' = [issued EXCEPT
          !.ca  = IF result = "write" /\ k = "ca" /\ want.id > @ THEN want.id ELSE @,
          !.tls = IF result = "write" /\ k = "tls" /\ want.id > @ THEN want.id ELSE @]
     /\ IF result = "unmanaged" THEN Report("unmanaged")
        ELSE IF result = "conflict" THEN Report("failed")
        ELSE worker' = next /\ UNCHANGED status

reusableCASecret(secret) == secret.owner = "managed" /\ ~secret.due

generateWebhookCACertificate == [Managed EXCEPT !.id = issued.ca + 1]

ensureRemoteCASecret ==
  /\ worker.pc = "ca"
  /\ LET cached == objCache["ca"]
         want   == IF reusableCASecret(cached) THEN cached
                   ELSE generateWebhookCACertificate
     IN /\ want.id \in Certs
        /\ Apply("ca", cached, want, [worker EXCEPT !.pc = "tls", !.ca = want.id])
  /\ UNCHANGED <<hubVars, remoteVars, objCache, changes>>

reusableServingTLSCert_AnyCA(secret, ca) == secret.owner = "managed" /\ ~secret.due
reusableServingTLSCert(secret, ca) ==
  secret.owner = "managed" /\ ~secret.due /\ secret.ca = ca

generateWebhookServingCertificate(ca) == [Managed EXCEPT !.id = issued.tls + 1, !.ca = ca]

ensureRemoteServingTLSSecret ==
  /\ worker.pc = "tls"
  /\ LET cached == objCache["tls"]
         want   == IF reusableServingTLSCert(cached, worker.ca) THEN cached
                   ELSE generateWebhookServingCertificate(worker.ca)
     IN /\ want.id \in Certs
        /\ Apply("tls", cached, want, [worker EXCEPT !.pc = "support", !.fp = want.id])
  /\ UNCHANGED <<hubVars, remoteVars, objCache, changes>>

Supporting == {"service", "rbac"}

\* The objects are applied in parallel; when one fails, any of the others may have
\* been applied.
applyRemoteSupportingResources ==
  LET failed == \E k \in Supporting :
                  createOrUpdateAdoptableWebhookRuntime(k, obj[k], Managed) = "unmanaged"
      absent == {k \in Supporting : obj[k].owner = "none"}
  IN /\ worker.pc = "support"
     /\ \E applied \in SUBSET absent :
          /\ failed \/ applied = absent
          /\ obj' = [k \in Kinds |-> IF k \in applied THEN Managed ELSE obj[k]]
     /\ IF failed THEN Report("unmanaged")
        ELSE worker' = [worker EXCEPT !.pc = "deployment"] /\ UNCHANGED status
     /\ UNCHANGED <<hubVars, remoteVars, objCache, issued, changes>>

assessRemoteDeploymentReadiness_StaleStatus(deployment) ==
  deployment.upd /\ deployment.avail
assessRemoteDeploymentReadiness(deployment) ==
  deployment.obs /\ deployment.upd /\ deployment.avail

\* A template with another fingerprint makes a new generation.
ensureRemoteDeployment ==
  /\ worker.pc = "deployment"
  /\ LET cached == objCache["deployment"]
         want   == [cached EXCEPT !.owner = "managed", !.id = worker.fp,
                                  !.obs = @ /\ cached.id = worker.fp]
         ready  == assessRemoteDeploymentReadiness(want)
     IN Apply("deployment", cached, want,
              [worker EXCEPT !.pc = IF ready THEN "mwhc" ELSE "exists", !.ready = ready])
  /\ UNCHANGED <<hubVars, remoteVars, objCache, changes>>

\* The uncached Get: without readiness only an existing configuration is
\* refreshed.
remoteMutatingWebhookConfigurationExists ==
  /\ worker.pc = "exists"
  /\ IF obj["mwhc"].owner = "none"
       THEN Report("waiting")
       ELSE worker' = [worker EXCEPT !.pc = "mwhc"] /\ UNCHANGED status
  /\ UNCHANGED <<hubVars, remoteVars, obj, objCache, issued, changes>>

\* mutatingWebhookConfigurationSynced looks at the object just mutated, and
\* holds.
ensureRemoteMutatingWebhookConfiguration ==
  /\ worker.pc = "mwhc"
  /\ LET cached == objCache["mwhc"]
         want   == [Managed EXCEPT !.ca = worker.ca]
         result == createOrUpdateAdoptableWebhookRuntime("mwhc", cached, want)
     IN /\ obj' = IF result = "write" THEN [obj EXCEPT !["mwhc"] = want] ELSE obj
        /\ Report(IF result = "unmanaged" THEN "unmanaged"
                  ELSE IF result = "conflict" THEN "failed"
                  ELSE IF worker.ready THEN "ready" ELSE "rolling")
  /\ UNCHANGED <<hubVars, remoteVars, objCache, issued, changes>>

finishRemoteWebhookAdmission ==
  \/ remoteMutatingWebhookConfigurationExists
  \/ ensureRemoteMutatingWebhookConfiguration

applyRemoteWebhookRuntime ==
  \/ ensureRemoteCASecret
  \/ ensureRemoteServingTLSSecret
  \/ applyRemoteSupportingResources
  \/ ensureRemoteDeployment
  \/ finishRemoteWebhookAdmission

----------------------------------------------------------------------------
(* Removing the runtime.                                                   *)

\* The deletion goes on; what is left of it (module ConfigIssuer) ends with the
\* config.
Removed(copy) ==
  /\ config' = IF config.uid = copy.uid THEN [config EXCEPT !.st = "none"] ELSE config
  /\ status' = [status EXCEPT !.blocked = FALSE]
  /\ worker' = Idle

\* deleteRemoteWebhookRuntime returns an error, which force-delete ignores.
Refused(copy) ==
  IF copy.force THEN Removed(copy)
  ELSE /\ status' = [status EXCEPT !.blocked = TRUE]
       /\ worker' = Idle
       /\ UNCHANGED config

\* The runtime is not removed while a live SelfHostedIRSA config elsewhere cannot
\* be resolved: it might use the same cluster.
remoteRuntimeSharedByOtherConfig == inventory = "sibling"

deleteRemoteWebhookRuntimeStrict ==
  /\ worker.pc = "idle" /\ configCache.st = "deleting"
  /\ IF inventory = "down" \/ remoteRuntimeSharedByOtherConfig
       THEN Refused(configCache)
       ELSE worker' = Begin("probe", configCache, {"mwhc"}) /\ UNCHANGED <<config, status>>
  /\ UNCHANGED <<configCache, inventory, remoteVars, obj, objCache, issued, changes>>

\* The admission configuration goes first.  The others are removed in parallel
\* in the code; here in one order, which makes no difference as each removal
\* concerns its own object only.
Order == <<"mwhc", "deployment", "service", "tls", "ca", "rbac">>

Current == Order[CHOOSE n \in 1 .. 6 : /\ Order[n] \in worker.todo
                                       /\ \A m \in 1 .. n - 1 : Order[m] \notin worker.todo]

RemoveRest(todo, failed) ==
  IF todo # {} THEN /\ worker' = [worker EXCEPT !.pc = "probe", !.todo = todo, !.failed = failed]
                    /\ UNCHANGED <<config, status>>
  ELSE IF failed THEN Refused(worker.copy) ELSE Removed(worker.copy)

\* The current object is dealt with.
RemoveNext ==
  IF Current = "mwhc" THEN RemoveRest(Backing, FALSE)
  ELSE RemoveRest(worker.todo \ {Current}, worker.failed)

\* The removal of the current object has failed: nothing follows the admission
\* configuration, and of the others some may already have been removed.
RemoveFails_Ignored ==
  IF Current = "mwhc" THEN Refused(worker.copy)
  ELSE \E left \in SUBSET (worker.todo \ {Current}) : RemoveRest(left, FALSE)
RemoveFails ==
  IF Current = "mwhc" THEN Refused(worker.copy)
  ELSE \E left \in SUBSET (worker.todo \ {Current}) : RemoveRest(left, TRUE)

\* The uncached Get: objects without the labels are left alone, and cluster-scoped
\* ones are in the way.
ProbeForRemoval ==
  /\ worker.pc = "probe"
  /\ \/ /\ obj[Current].owner = "managed"
        /\ worker' = [worker EXCEPT !.pc = "remove"]
        /\ UNCHANGED <<config, status>>
     \/ obj[Current].owner = "plain" /\ Current \in ClusterScoped /\ RemoveFails
     \/ obj[Current].owner = "plain" /\ Current \notin ClusterScoped /\ RemoveNext
     \/ obj[Current].owner = "none" /\ RemoveNext
  /\ UNCHANGED <<configCache, inventory, remoteVars, obj, objCache, issued, changes>>

deleteManagedRemoteWebhookRuntimeObject ==
  /\ worker.pc = "remove"
  /\ obj' = [obj EXCEPT ![Current] = NoObject]
  /\ RemoveNext
  /\ UNCHANGED <<configCache, inventory, remoteVars, objCache, issued, changes>>

deleteRemoteWebhookRuntime ==
  \/ ProbeForRemoval
  \/ deleteManagedRemoteWebhookRuntimeObject

\* An API call fails, or the process stops.
apiError ==
  /\ worker.pc # "idle" /\ Disturb("error")
  /\ IF worker.pc \in {"probe", "remove"} THEN RemoveFails
     ELSE Report("failed") /\ UNCHANGED config
  /\ UNCHANGED <<configCache, inventory, remoteVars, obj, objCache, issued>>

crash ==
  /\ worker.pc # "idle" /\ Disturb("crash")
  /\ worker' = Idle
  /\ UNCHANGED <<hubVars, status, remoteVars, obj, objCache, issued>>

ControllerPass ==
  \/ reconcileSelfHostedWebhookRuntime
  \/ applyRemoteWebhookRuntime
  \/ deleteRemoteWebhookRuntimeStrict
  \/ deleteRemoteWebhookRuntime

----------------------------------------------------------------------------
(* The workload cluster and its caches.                                    *)

selfHostedWebhookRuntimeCacheSelector_All(o) == TRUE
selfHostedWebhookRuntimeCacheSelector(o) == o.owner = "managed"

SyncObject(k) ==
  LET seen == IF selfHostedWebhookRuntimeCacheSelector(obj[k]) THEN obj[k] ELSE NoObject
  IN /\ objCache[k] # seen
     /\ objCache' = [objCache EXCEPT ![k] = seen]
     /\ UNCHANGED <<hubVars, status, remoteVars, obj, issued, worker, changes>>

SyncConfig ==
  /\ configCache # config
  /\ configCache' = config
  /\ UNCHANGED <<config, status, inventory, remoteVars, obj, objCache, issued, worker, changes>>

\* The chart's ManifestWork creates the namespace.
Bootstrap ==
  /\ ~namespace
  /\ namespace' = TRUE
  /\ UNCHANGED <<hubVars, status, pods, served, obj, objCache, issued, worker, changes>>

\* The Deployment controller reports on the current generation ...
ObserveDeployment ==
  LET d    == obj["deployment"]
      seen == [d EXCEPT !.obs = TRUE, !.upd = pods.up /\ pods.tmpl = d.id, !.avail = pods.up]
  IN /\ d.owner # "none" /\ d # seen
     /\ obj' = [obj EXCEPT !["deployment"] = seen]
     /\ UNCHANGED <<hubVars, status, remoteVars, objCache, issued, worker, changes>>

\* ... and replaces the pods; new ones mount the serving Secret as it is.
RollOut ==
  LET new == [up |-> TRUE, tmpl |-> obj["deployment"].id, ca |-> obj["tls"].ca]
  IN /\ obj["deployment"].owner # "none" /\ obj["deployment"].obs
     /\ obj["tls"].owner # "none"
     /\ ~pods.up \/ pods.tmpl # new.tmpl
     /\ pods' = new
     /\ served' = served \cup {new.ca}
     /\ UNCHANGED <<hubVars, status, namespace, obj, objCache, issued, worker, changes>>

\* Pods go with their Deployment.
CollectPods ==
  /\ obj["deployment"].owner = "none" /\ pods # NoPods
  /\ pods' = NoPods
  /\ UNCHANGED <<hubVars, status, namespace, served, obj, objCache, issued, worker, changes>>

PodsFail ==
  /\ pods.up /\ Disturb("pods")
  /\ pods' = NoPods
  /\ UNCHANGED <<hubVars, status, namespace, served, obj, objCache, issued, worker>>

\* Someone deletes an object or strips its labels; a certificate comes of age.
Drift(k) ==
  /\ obj[k].owner = "managed"
  /\ \/ Disturb("delete") /\ obj' = [obj EXCEPT ![k] = NoObject]
     \/ Disturb("unlabel") /\ obj' = [obj EXCEPT ![k].owner = "plain"]
     \/ k \in {"ca", "tls"} /\ Disturb("age") /\ obj' = [obj EXCEPT ![k].due = TRUE]
  /\ UNCHANGED <<hubVars, status, remoteVars, objCache, issued, worker>>

ChangeInventory ==
  /\ Disturb("inventory")
  /\ inventory' \in {"ready", "sibling", "down"} \ {inventory}
  /\ UNCHANGED <<config, configCache, status, remoteVars, obj, objCache, issued, worker>>

DeleteConfig ==
  /\ config.st = "live" /\ config.uid < MaxUID
  /\ config' = [config EXCEPT !.st = "deleting"]
  /\ UNCHANGED <<configCache, inventory, status, remoteVars, obj, objCache, issued, worker,
                 changes>>

ForceDelete ==
  /\ config.st = "deleting" /\ ~config.force /\ Disturb("force")
  /\ config' = [config EXCEPT !.force = TRUE]
  /\ UNCHANGED <<configCache, inventory, status, remoteVars, obj, objCache, issued, worker>>

\* A new config of the namespace; its status is empty.
RecreateConfig ==
  /\ config.st = "none" /\ config.uid < MaxUID /\ Disturb("recreate")
  /\ config' = [uid |-> config.uid + 1, st |-> "live", force |-> FALSE]
  /\ status' = [runtime |-> "none", blocked |-> FALSE]
  /\ UNCHANGED <<configCache, inventory, remoteVars, obj, objCache, issued, worker>>

Environment ==
  \/ \E k \in CachedKinds : SyncObject(k)
  \/ SyncConfig
  \/ Bootstrap
  \/ ObserveDeployment
  \/ RollOut
  \/ CollectPods
  \/ PodsFail
  \/ \E k \in Drifting : Drift(k)
  \/ ChangeInventory
  \/ DeleteConfig
  \/ ForceDelete
  \/ RecreateConfig

Next == ControllerPass \/ apiError \/ crash \/ Environment

Spec == Init /\ [][Next]_vars

\* Passes are repeated (drift events, requeues, at the latest after a day), the
\* caches and the Deployment controller make progress; people do as they like.
Fairness ==
  /\ WF_vars(ControllerPass)
  /\ \A k \in CachedKinds : WF_vars(SyncObject(k))
  /\ WF_vars(SyncConfig)
  /\ WF_vars(ObserveDeployment)
  /\ WF_vars(RollOut)
  /\ WF_vars(CollectPods)

FairSpec == Spec /\ Fairness

----------------------------------------------------------------------------
(* Properties.                                                             *)

\* The remote cache shows objects with the operator's labels only, and a pass
\* never works with certificates that were not stored.
TypeOK ==
  /\ config \in Config /\ configCache \in Config /\ status \in Status
  /\ namespace \in BOOLEAN /\ obj \in [Kinds -> Object]
  /\ objCache \in [CachedKinds -> Object]
  /\ \A k \in CachedKinds : objCache[k].owner \in {"none", "managed"}
  /\ issued \in [ca : Certs, tls : Certs] /\ pods \in Pods /\ served \subseteq 1 .. issued.ca
  /\ inventory \in {"ready", "sibling", "down"}
  /\ worker \in Pass /\ worker.ca <= issued.ca /\ worker.fp <= issued.tls
  /\ changes \in 0 .. MaxChanges

\* Admission is routed to the webhook only while there is a webhook behind it: the
\* configuration is created for a CA only after pods have come up with a certificate
\* of that CA (finishRemoteWebhookAdmission; a pass that refreshes an existing one may
\* create it again when it is deleted after the check), and a pass removes Deployment,
\* Service and certificates only when it is gone (deleteRemoteWebhookRuntime).
AdmissionBacked ==
  [][/\ obj["mwhc"].owner = "none" /\ obj'["mwhc"].owner = "managed" /\ worker.ready
          => obj'["mwhc"].ca \in served
     /\ deleteManagedRemoteWebhookRuntimeObject /\ Current # "mwhc"
          => obj["mwhc"].owner # "managed"]_vars

\* An object without the operator's labels is never changed, and it is deleted only by
\* a pass that had found the labels when it probed the object.
UnmanagedKept ==
  [][\A k \in Kinds :
       obj[k].owner = "plain" /\ <<obj'[k].owner, obj'[k].id>> # <<obj[k].owner, obj[k].id>>
         => worker.pc = "remove" /\ Current = k]_vars

Obstructed == \E k \in Kinds : obj[k].owner = "plain"

Serving ==
  /\ \A k \in Kinds : obj[k].owner = "managed"
  /\ ~obj["ca"].due /\ ~obj["tls"].due
  /\ obj["tls"].ca = obj["ca"].id
  /\ pods.up /\ pods.tmpl = obj["tls"].id
  /\ obj["mwhc"].ca = obj["ca"].id /\ pods.ca = obj["ca"].id

\* In the end a config that stays has its webhook, with certificates that are not due
\* and a caBundle that the serving pods match, and says so; when something is in the
\* way it does not report the runtime as ready.
RuntimeConverges ==
  <>[](config.st = "live" =>
         IF namespace /\ inventory # "down" /\ ~Obstructed
           THEN Serving /\ status.runtime = "ready"
           ELSE status.runtime # "ready")

\* A deletion ends or reports that it is blocked, which it then is; and after a deletion
\* that was not forced nothing of the runtime is left.
RuntimeDrains ==
  <>[](/\ config.st = "deleting" =>
            /\ status.blocked
            /\ inventory # "ready" \/ \E k \in ClusterScoped : obj[k].owner = "plain"
       /\ config.st = "none" /\ ~config.force =>
            /\ ~pods.up \/ obj["deployment"].owner = "plain"
            /\ \A k \in Kinds : obj[k].owner # "managed")

================================================================================
