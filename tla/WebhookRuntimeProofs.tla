------------------------- MODULE WebhookRuntimeProofs --------------------------
(***************************************************************************)
(* Proofs about the self-hosted webhook runtime, for any number of         *)
(* configs, certificates and disturbances: admission is created for a CA   *)
(* only after pods have served with it, a removal takes it away first, and *)
(* objects without the operator's labels are left alone.                   *)
(***************************************************************************)
EXTENDS WebhookRuntime, TLAPS

----------------------------------------------------------------------------
(* The inductive invariant.                                                *)

\* The pass has its CA; and its serving certificate, too.
PastTLS == {"support", "deployment", "exists", "mwhc"}

PastCA == {"tls"} \cup PastTLS

\* There is one CA at a time: a stored one is the last that was issued, and of the
\* cached copies only that of the last one is used again.
CAInv ==
  /\ obj["ca"].owner = "managed" => obj["ca"].id # 0
  /\ obj["ca"].id # 0 => obj["ca"].id = issued.ca
  /\ objCache["ca"].id <= issued.ca
  /\ reusableCASecret(objCache["ca"]) => objCache["ca"].id = issued.ca /\ issued.ca # 0
  /\ worker.pc \in PastCA => worker.ca = issued.ca /\ issued.ca # 0

\* The same of the serving certificate, as long as the CA is the one it was made with;
\* whoever has the last certificate has its CA.
CertInv ==
  LET stored == obj["tls"]
      cached == objCache["tls"]
  IN /\ stored.owner = "managed" => stored.id # 0
     /\ stored.owner = "none" => stored.id = 0
     /\ stored.id # 0 => stored.id = issued.tls /\ stored.ca \in 1 .. issued.ca
     /\ cached.id <= issued.tls /\ cached.ca <= issued.ca
     /\ cached.owner = "managed" => cached.id # 0
     /\ reusableServingTLSCert(cached, issued.ca) => cached.id = issued.tls
     /\ cached.id = stored.id /\ stored.id # 0 => cached.ca = stored.ca
     /\ worker.pc \in PastTLS =>
          /\ worker.fp = issued.tls /\ issued.tls # 0
          /\ stored.id = issued.tls => stored.ca = worker.ca
          /\ cached.id = issued.tls => cached.ca = worker.ca

\* A Secret of someone else under the name of the serving certificate keeps the
\* Deployment from being created.
SquatInv ==
  obj["tls"].owner # "none" /\ obj["tls"].id = 0
    => obj["deployment"].owner = "none" /\ worker.pc \notin PastTLS

\* Pods have served with the CA of the last serving certificate.
Backed ==
  /\ obj["tls"].id = issued.tls => obj["tls"].ca \in served
  /\ objCache["tls"].id = issued.tls => objCache["tls"].ca \in served
  /\ worker.pc \in PastTLS => worker.ca \in served

\* Pods of the last template show it, and so does a Deployment that reports them.
BackedInv ==
  /\ pods.tmpl <= issued.tls
  /\ obj["deployment"].id <= issued.tls /\ objCache["deployment"].id <= issued.tls
  /\ issued.tls # 0 =>
       /\ pods.up /\ pods.tmpl = issued.tls => Backed
       /\ \A d \in {obj["deployment"], objCache["deployment"]} :
            d.obs /\ d.upd /\ d.id = issued.tls => Backed
  /\ worker.pc = "exists" => ~worker.ready
  /\ worker.pc = "mwhc" /\ worker.ready => worker.ca \in served

\* A removal begins with the admission configuration, and goes on when that is gone.
RemovalInv ==
  worker.pc \in {"probe", "remove"} =>
    \/ worker.todo = {"mwhc"}
    \/ worker.todo # {} /\ worker.todo \subseteq Backing /\ obj["mwhc"].owner # "managed"

IInv == TypeOK /\ CAInv /\ CertInv /\ SquatInv /\ BackedInv /\ RemovalInv

----------------------------------------------------------------------------
(* The constants, and one application of an object.                        *)

\* The records the model is made of.
LEMMA Constants ==
  /\ Certs \subseteq Nat /\ 0 \in Certs
  /\ NoObject \in Object /\ NoObject.owner = "none" /\ NoObject.id = 0 /\ NoObject.ca = 0
  /\ ~NoObject.obs /\ ~NoObject.upd
  /\ Managed \in Object /\ Managed.owner = "managed" /\ Managed.id = 0 /\ Managed.ca = 0
  /\ Plain \in Object /\ Plain.owner = "plain" /\ Plain.id = 0
  /\ FirstConfig \in Config
  /\ Idle \in Pass /\ Idle.pc = "idle" /\ Idle.ca = 0 /\ Idle.fp = 0
<1>1. Certs \subseteq Nat /\ 0 \in Certs
  BY WebhookAssumption DEF Certs
<1>2. /\ NoObject \in Object /\ NoObject.owner = "none" /\ NoObject.id = 0 /\ NoObject.ca = 0
      /\ ~NoObject.obs /\ ~NoObject.upd
  BY <1>1 DEF NoObject, Object
<1>3. /\ Managed \in Object /\ Managed.owner = "managed" /\ Managed.id = 0 /\ Managed.ca = 0
      /\ Plain \in Object /\ Plain.owner = "plain" /\ Plain.id = 0
  BY <1>1, Zenon DEF NoObject, Managed, Plain, Object
<1>4. FirstConfig \in Config
  <2>1. 1 \in 1 .. MaxUID
    BY WebhookAssumption
  <2>. QED
    BY <2>1 DEF FirstConfig, Config
<1>5. Idle \in Pass /\ Idle.pc = "idle" /\ Idle.ca = 0 /\ Idle.fp = 0
  BY <1>1, <1>4 DEF Idle, Begin, Pass
<1>. QED
  BY <1>1, <1>2, <1>3, <1>4, <1>5

\* createOrUpdateAdoptableWebhookRuntime refuses, finds nothing to do, or writes an
\* object that is as the cache shows it.
LEMMA ApplyEffect ==
  ASSUME TypeOK, NEW k \in Kinds, NEW cached, NEW want \in Object, NEW next,
         Apply(k, cached, want, next)
  PROVE  \/ /\ UNCHANGED <<obj, issued>> /\ worker' = Idle
            /\ \E r \in {"unmanaged", "failed"} : status' = [status EXCEPT !.runtime = r]
         \/ /\ obj[k].owner # "plain" /\ cached = want
            /\ UNCHANGED <<obj, issued, status>> /\ worker' = next
         \/ /\ obj[k].owner # "plain" /\ cached # want /\ cached = obj[k]
            /\ obj' = [obj EXCEPT ![k] = want] /\ status' = status /\ worker' = next
            /\ issued' \in [ca : Certs, tls : Certs]
            /\ issued'.ca = IF k = "ca" /\ want.id > issued.ca THEN want.id ELSE issued.ca
            /\ issued'.tls = IF k = "tls" /\ want.id > issued.tls THEN want.id ELSE issued.tls
<1>. DEFINE result == createOrUpdateAdoptableWebhookRuntime(k, cached, want)
<1>1. issued \in [ca : Certs, tls : Certs] /\ want.id \in Certs
  BY DEF TypeOK, Object
<1>2. /\ issued' \in [ca : Certs, tls : Certs]
      /\ issued'.ca = IF result = "write" /\ k = "ca" /\ want.id > issued.ca
                      THEN want.id ELSE issued.ca
      /\ issued'.tls = IF result = "write" /\ k = "tls" /\ want.id > issued.tls
                       THEN want.id ELSE issued.tls
  BY <1>1, Zenon DEF Apply
<1>3. result # "write" => issued' = issued
  BY <1>1, <1>2
<1>4. CASE result = "unmanaged" \/ result = "conflict"
  BY <1>3, <1>4 DEF Apply, Report
<1>5. CASE result = "keep"
  <2>1. cached = want /\ obj[k].owner # "plain"
    BY <1>5 DEF createOrUpdateAdoptableWebhookRuntime
  <2>. QED
    BY <1>3, <1>5, <2>1 DEF Apply
<1>6. CASE result = "write"
  <2>1. cached # want /\ cached = obj[k] /\ obj[k].owner # "plain"
    BY <1>6 DEF createOrUpdateAdoptableWebhookRuntime
  <2>. QED
    BY <1>2, <1>6, <2>1 DEF Apply
<1>7. result \in {"unmanaged", "keep", "write", "conflict"}
  BY DEF createOrUpdateAdoptableWebhookRuntime
<1>. QED
  BY <1>4, <1>5, <1>6, <1>7

\* The object to be removed next is one of those to do; the admission configuration is
\* when it is the only one.
LEMMA CurrentEffect ==
  ASSUME worker.todo \subseteq Kinds, worker.todo # {}
  PROVE  Current \in worker.todo
<1>. DEFINE P(n) == /\ Order[n] \in worker.todo
                    /\ \A m \in 1 .. n - 1 : Order[m] \notin worker.todo
<1>1. /\ Order[1] = "mwhc" /\ Order[2] = "deployment" /\ Order[3] = "service"
      /\ Order[4] = "tls" /\ Order[5] = "ca" /\ Order[6] = "rbac"
  BY DEF Order
<1>2. \E n \in 1 .. 6 : Order[n] \in worker.todo
  BY <1>1 DEF Kinds
<1>3. \E n \in 1 .. 6 : P(n)
  <2>1. CASE Order[1] \in worker.todo
    <3>1. P(1)
      BY <2>1
    <3>. QED
      BY <3>1
  <2>2. CASE Order[1] \notin worker.todo /\ Order[2] \in worker.todo
    <3>1. P(2)
      BY <2>2
    <3>. QED
      BY <3>1
  <2>3. CASE Order[1] \notin worker.todo /\ Order[2] \notin worker.todo /\ Order[3] \in worker.todo
    <3>1. P(3)
      BY <2>3
    <3>. QED
      BY <3>1
  <2>4. CASE /\ Order[1] \notin worker.todo /\ Order[2] \notin worker.todo
             /\ Order[3] \notin worker.todo /\ Order[4] \in worker.todo
    <3>1. P(4)
      BY <2>4
    <3>. QED
      BY <3>1
  <2>5. CASE /\ Order[1] \notin worker.todo /\ Order[2] \notin worker.todo
             /\ Order[3] \notin worker.todo /\ Order[4] \notin worker.todo
             /\ Order[5] \in worker.todo
    <3>1. P(5)
      BY <2>5
    <3>. QED
      BY <3>1
  <2>6. CASE /\ Order[1] \notin worker.todo /\ Order[2] \notin worker.todo
             /\ Order[3] \notin worker.todo /\ Order[4] \notin worker.todo
             /\ Order[5] \notin worker.todo /\ Order[6] \in worker.todo
    <3>1. P(6)
      BY <2>6
    <3>. QED
      BY <3>1
  <2>7. \A n \in 1 .. 6 : n \in {1, 2, 3, 4, 5, 6}
    OBVIOUS
  <2>. QED
    BY <1>2, <2>1, <2>2, <2>3, <2>4, <2>5, <2>6, <2>7
<1>4. P(CHOOSE n \in 1 .. 6 : P(n))
  BY <1>3
<1>. QED
  BY <1>4 DEF Current

----------------------------------------------------------------------------
(* Removal.                                                                *)

\* What a step of a removal leaves: the end of the pass, or the backing objects that
\* are still to be removed.
RemovedOne ==
  /\ config' \in Config /\ status' \in Status /\ worker' \in Pass
  /\ worker'.pc \in {"idle", "probe"}
  /\ worker'.ca \in {0, worker.ca} /\ worker'.fp \in {0, worker.fp}
  /\ worker'.pc = "probe" => worker'.todo # {} /\ worker'.todo \subseteq Backing

\* A removal that ends, well or not, ends the pass.
LEMMA EndEffect ==
  ASSUME TypeOK, NEW copy \in Config, Removed(copy) \/ Refused(copy)
  PROVE  RemovedOne /\ worker'.pc = "idle"
<1>1. worker' = Idle
  BY DEF Removed, Refused
<1>2. config' \in Config
  BY DEF TypeOK, Removed, Refused, Config
<1>3. status' \in Status
  BY Zenon DEF TypeOK, Removed, Refused, Status
<1>4. /\ worker' \in Pass /\ worker'.pc = "idle" /\ worker'.ca = 0 /\ worker'.fp = 0
  BY <1>1, Constants
<1>. QED
  BY <1>2, <1>3, <1>4 DEF RemovedOne

\* What is left to do is done by further steps of the same pass.
LEMMA RestEffect ==
  ASSUME TypeOK, NEW todo \in SUBSET Backing, NEW failed \in BOOLEAN, RemoveRest(todo, failed)
  PROVE  RemovedOne
<1>1. worker \in Pass /\ worker.copy \in Config /\ config \in Config /\ status \in Status
  BY DEF TypeOK, Pass
<1>2. CASE todo # {}
  <2>1. Backing \subseteq Kinds
    BY DEF Backing, Kinds
  <2>2. /\ worker' = [worker EXCEPT !.pc = "probe", !.todo = todo, !.failed = failed]
        /\ UNCHANGED <<config, status>>
    BY <1>2 DEF RemoveRest
  <2>3. /\ worker' \in Pass /\ worker'.pc = "probe" /\ worker'.todo = todo
        /\ worker'.ca = worker.ca /\ worker'.fp = worker.fp
    BY <1>1, <2>1, <2>2, Zenon DEF Pass
  <2>. QED
    BY <1>1, <1>2, <2>2, <2>3 DEF RemovedOne
<1>3. CASE todo = {}
  <2>1. Removed(worker.copy) \/ Refused(worker.copy)
    BY <1>3 DEF RemoveRest
  <2>. QED
    BY <1>1, <2>1, EndEffect
<1>. QED
  BY <1>2, <1>3

\* The admission configuration is first, and nothing follows it when it fails.
LEMMA RemoveEffect ==
  ASSUME TypeOK, RemovalInv, worker.pc \in {"probe", "remove"}, RemoveNext \/ RemoveFails
  PROVE  /\ RemovedOne
         /\ Current \in Kinds
         /\ Current = "mwhc" => worker.todo = {"mwhc"}
         /\ Current # "mwhc" => obj["mwhc"].owner # "managed"
         /\ Current = "mwhc" /\ RemoveFails => worker'.pc = "idle"
<1>1. /\ worker.todo \subseteq Kinds /\ worker.failed \in BOOLEAN /\ worker.copy \in Config
      /\ worker.todo # {}
  BY DEF TypeOK, Pass, RemovalInv
<1>2. Current \in worker.todo
  BY <1>1, CurrentEffect
<1>3. Current = "mwhc" => worker.todo = {"mwhc"}
  BY <1>2 DEF RemovalInv, Backing
<1>4. Current # "mwhc" => worker.todo \subseteq Backing /\ obj["mwhc"].owner # "managed"
  BY <1>2 DEF RemovalInv
<1>5. CASE Current = "mwhc" /\ RemoveNext
  <2>1. RemoveRest(Backing, FALSE)
    BY <1>5, Zenon DEF RemoveNext
  <2>. QED
    BY <1>1, <1>2, <1>3, <1>4, <2>1, <1>5, RestEffect, EndEffect, Zenon DEF RemoveFails
<1>6. CASE Current = "mwhc" /\ RemoveFails
  <2>1. Refused(worker.copy)
    BY <1>6 DEF RemoveFails
  <2>. QED
    BY <1>1, <1>2, <1>3, <1>4, <2>1, <1>6, EndEffect
<1>7. CASE Current # "mwhc" /\ RemoveNext
  <2>1. RemoveRest(worker.todo \ {Current}, worker.failed)
    BY <1>7 DEF RemoveNext
  <2>2. worker.todo \ {Current} \in SUBSET Backing
    BY <1>4, <1>7
  <2>3. RemovedOne
    BY <1>1, <2>1, <2>2, RestEffect
  <2>. QED
    BY <1>1, <1>2, <1>4, <1>7, <2>3
<1>8. CASE Current # "mwhc" /\ RemoveFails
  <2>1. PICK left \in SUBSET (worker.todo \ {Current}) : RemoveRest(left, TRUE)
    BY <1>8, Zenon DEF RemoveFails
  <2>2. left \in SUBSET Backing
    BY <1>4, <1>8
  <2>3. RemovedOne
    BY <2>1, <2>2, RestEffect, Zenon
  <2>. QED
    BY <1>1, <1>2, <1>4, <1>8, <2>3
<1>. QED
  BY <1>5, <1>6, <1>7, <1>8

----------------------------------------------------------------------------
(* Installation.                                                           *)

\* The pass ends early.
Quits == UNCHANGED <<obj, issued>> /\ worker' = Idle /\ status' \in Status

\* The CA of the pass is the last one, or a new one.
LEMMA CAEffect ==
  ASSUME TypeOK, CAInv, ensureRemoteCASecret
  PROVE  /\ UNCHANGED <<hubVars, remoteVars, objCache, changes>>
         /\ \/ Quits
            \/ /\ UNCHANGED <<obj, issued, status>> /\ worker' \in Pass /\ issued.ca # 0
               /\ worker'.pc = "tls" /\ worker'.ca = issued.ca /\ worker'.fp = worker.fp
            \/ /\ ~reusableCASecret(objCache["ca"]) /\ obj["ca"].owner # "plain"
               /\ status' = status /\ issued' \in [ca : Certs, tls : Certs]
               /\ issued'.ca = issued.ca + 1 /\ issued'.tls = issued.tls
               /\ obj' = [obj EXCEPT !["ca"] = generateWebhookCACertificate]
               /\ generateWebhookCACertificate \in Object
               /\ generateWebhookCACertificate.id = issued.ca + 1
               /\ worker' \in Pass
               /\ worker'.pc = "tls" /\ worker'.ca = issued.ca + 1 /\ worker'.fp = worker.fp
<1>. DEFINE cached == objCache["ca"]
            want   == IF reusableCASecret(cached) THEN cached ELSE generateWebhookCACertificate
            next   == [worker EXCEPT !.pc = "tls", !.ca = want.id]
<1>1. /\ want.id \in Certs /\ Apply("ca", cached, want, next)
      /\ UNCHANGED <<hubVars, remoteVars, objCache, changes>>
  BY DEF ensureRemoteCASecret
<1>2. /\ issued.ca \in Nat /\ cached \in Object /\ cached.id <= issued.ca /\ cached.id \in Nat
      /\ worker \in Pass
  <2>1. "ca" \in CachedKinds
    BY DEF CachedKinds
  <2>2. cached \in Object /\ issued.ca \in Certs /\ worker \in Pass
    BY <2>1 DEF TypeOK
  <2>3. cached.id \in Certs
    BY <2>2 DEF Object
  <2>. QED
    BY <2>2, <2>3, Constants, Zenon DEF CAInv
<1>3. generateWebhookCACertificate.id = issued.ca + 1
  BY DEF generateWebhookCACertificate, Managed, NoObject
<1>4. want \in Object
  <2>1. CASE reusableCASecret(cached)
    BY <1>2, <2>1
  <2>2. CASE ~reusableCASecret(cached)
    <3>1. issued.ca + 1 \in Certs
      BY <1>1, <1>3, <2>2
    <3>2. [Managed EXCEPT !.id = issued.ca + 1] \in Object
      BY <3>1, Constants DEF Object
    <3>. QED
      BY <2>2, <3>2 DEF generateWebhookCACertificate
  <2>. QED
    BY <2>1, <2>2
<1>5. "ca" \in Kinds
  BY DEF Kinds
<1>6. /\ next \in Pass /\ next.pc = "tls" /\ next.ca = want.id /\ next.fp = worker.fp
  <2>1. want.id \in Certs
    BY <1>1
  <2>. QED
    BY <1>2, <2>1, Zenon DEF Pass
<1>. HIDE DEF next, want
<1>7. \/ /\ UNCHANGED <<obj, issued>> /\ worker' = Idle
         /\ \E r \in {"unmanaged", "failed"} : status' = [status EXCEPT !.runtime = r]
      \/ /\ obj["ca"].owner # "plain" /\ cached = want
         /\ UNCHANGED <<obj, issued, status>> /\ worker' = next
      \/ /\ obj["ca"].owner # "plain" /\ cached # want /\ cached = obj["ca"]
         /\ obj' = [obj EXCEPT !["ca"] = want] /\ status' = status /\ worker' = next
         /\ issued' \in [ca : Certs, tls : Certs]
         /\ issued'.ca = IF want.id > issued.ca THEN want.id ELSE issued.ca
         /\ issued'.tls = issued.tls
  BY <1>1, <1>4, <1>5, ApplyEffect, Zenon
<1>8. CASE /\ UNCHANGED <<obj, issued>> /\ worker' = Idle
           /\ \E r \in {"unmanaged", "failed"} : status' = [status EXCEPT !.runtime = r]
  <2>1. status' \in Status
    BY <1>8 DEF TypeOK, Status
  <2>. QED
    BY <1>1, <1>8, <2>1 DEF Quits
<1>9. CASE /\ obj["ca"].owner # "plain" /\ cached = want
           /\ UNCHANGED <<obj, issued, status>> /\ worker' = next
  <2>1. reusableCASecret(cached)
    BY <1>2, <1>3, <1>9 DEF want
  <2>2. want.id = issued.ca /\ issued.ca # 0
    BY <2>1 DEF want, CAInv
  <2>. QED
    BY <1>1, <1>6, <1>9, <2>2
<1>10. CASE /\ obj["ca"].owner # "plain" /\ cached # want /\ cached = obj["ca"]
            /\ obj' = [obj EXCEPT !["ca"] = want] /\ status' = status /\ worker' = next
            /\ issued' \in [ca : Certs, tls : Certs]
            /\ issued'.ca = IF want.id > issued.ca THEN want.id ELSE issued.ca
            /\ issued'.tls = issued.tls
  <2>1. ~reusableCASecret(cached) /\ want = generateWebhookCACertificate
    BY <1>10 DEF want
  <2>2. want.id = issued.ca + 1 /\ issued'.ca = issued.ca + 1
    BY <1>2, <1>3, <1>10, <2>1
  <2>. QED
    BY <1>1, <1>4, <1>6, <1>10, <2>1, <2>2
<1>. QED
  BY <1>7, <1>8, <1>9, <1>10

\* The serving certificate of the pass is the last one, made with its CA, or a new one.
LEMMA CertEffect ==
  ASSUME TypeOK, CAInv, CertInv, ensureRemoteServingTLSSecret
  PROVE  /\ UNCHANGED <<hubVars, remoteVars, objCache, changes>>
         /\ issued.ca # 0 /\ worker.ca = issued.ca
         /\ \/ Quits
            \/ /\ UNCHANGED <<obj, issued, status>> /\ worker' \in Pass
               /\ obj["tls"].owner # "plain"
               /\ objCache["tls"].id = issued.tls /\ issued.tls # 0
               /\ objCache["tls"].ca = issued.ca
               /\ worker'.pc = "support" /\ worker'.ca = issued.ca /\ worker'.fp = issued.tls
            \/ /\ ~reusableServingTLSCert(objCache["tls"], issued.ca)
               /\ obj["tls"].owner # "plain"
               /\ status' = status /\ issued' \in [ca : Certs, tls : Certs]
               /\ issued'.ca = issued.ca /\ issued'.tls = issued.tls + 1
               /\ obj' = [obj EXCEPT !["tls"] = generateWebhookServingCertificate(issued.ca)]
               /\ generateWebhookServingCertificate(issued.ca) \in Object
               /\ generateWebhookServingCertificate(issued.ca).id = issued.tls + 1
               /\ generateWebhookServingCertificate(issued.ca).ca = issued.ca
               /\ worker' \in Pass
               /\ worker'.pc = "support" /\ worker'.ca = issued.ca
               /\ worker'.fp = issued.tls + 1
<1>. DEFINE cached == objCache["tls"]
            fresh  == generateWebhookServingCertificate(issued.ca)
            want   == IF reusableServingTLSCert(cached, issued.ca) THEN cached ELSE fresh
            next   == [worker EXCEPT !.pc = "support", !.fp = want.id]
<1>1. worker.pc = "tls" /\ worker.ca = issued.ca /\ issued.ca # 0
  BY DEF ensureRemoteServingTLSSecret, CAInv, PastCA
<1>2. /\ want.id \in Certs /\ Apply("tls", cached, want, next)
      /\ UNCHANGED <<hubVars, remoteVars, objCache, changes>>
  BY <1>1 DEF ensureRemoteServingTLSSecret
<1>3. /\ issued.tls \in Nat /\ cached \in Object /\ cached.id <= issued.tls /\ cached.id \in Nat
      /\ worker \in Pass /\ issued.ca \in Certs
  <2>1. "tls" \in CachedKinds
    BY DEF CachedKinds
  <2>2. cached \in Object /\ issued.tls \in Certs /\ issued.ca \in Certs /\ worker \in Pass
    BY <2>1 DEF TypeOK
  <2>3. cached.id \in Certs
    BY <2>2 DEF Object
  <2>. QED
    BY <2>2, <2>3, Constants, Zenon DEF CertInv
<1>4. fresh.id = issued.tls + 1 /\ fresh.ca = issued.ca
  BY DEF generateWebhookServingCertificate, Managed, NoObject
<1>5. want \in Object
  <2>1. CASE reusableServingTLSCert(cached, issued.ca)
    BY <1>3, <2>1
  <2>2. CASE ~reusableServingTLSCert(cached, issued.ca)
    <3>1. issued.tls + 1 \in Certs
      BY <1>2, <1>4, <2>2
    <3>2. [Managed EXCEPT !.id = issued.tls + 1, !.ca = issued.ca] \in Object
      BY <1>3, <3>1, Constants, Zenon DEF Object
    <3>. QED
      BY <2>2, <3>2 DEF generateWebhookServingCertificate
  <2>. QED
    BY <2>1, <2>2
<1>6. "tls" \in Kinds
  BY DEF Kinds
<1>7. next \in Pass /\ next.pc = "support" /\ next.fp = want.id /\ next.ca = issued.ca
  <2>1. want.id \in Certs
    BY <1>2
  <2>. QED
    BY <1>1, <1>3, <2>1, Zenon DEF Pass
<1>. HIDE DEF next, want, fresh
<1>8. \/ /\ UNCHANGED <<obj, issued>> /\ worker' = Idle
         /\ \E r \in {"unmanaged", "failed"} : status' = [status EXCEPT !.runtime = r]
      \/ /\ obj["tls"].owner # "plain" /\ cached = want
         /\ UNCHANGED <<obj, issued, status>> /\ worker' = next
      \/ /\ obj["tls"].owner # "plain" /\ cached # want /\ cached = obj["tls"]
         /\ obj' = [obj EXCEPT !["tls"] = want] /\ status' = status /\ worker' = next
         /\ issued' \in [ca : Certs, tls : Certs]
         /\ issued'.ca = issued.ca
         /\ issued'.tls = IF want.id > issued.tls THEN want.id ELSE issued.tls
  <2>1. Apply("tls", cached, want, next)
    BY <1>2
  <2>. HIDE DEF cached
  <2>. QED
    BY <1>5, <1>6, <2>1, ApplyEffect, Zenon
<1>9. CASE /\ UNCHANGED <<obj, issued>> /\ worker' = Idle
           /\ \E r \in {"unmanaged", "failed"} : status' = [status EXCEPT !.runtime = r]
  <2>1. status' \in Status
    BY <1>9 DEF TypeOK, Status
  <2>. QED
    BY <1>1, <1>2, <1>9, <2>1 DEF Quits
<1>10. CASE /\ obj["tls"].owner # "plain" /\ cached = want
            /\ UNCHANGED <<obj, issued, status>> /\ worker' = next
  <2>1. reusableServingTLSCert(cached, issued.ca)
    BY <1>3, <1>4, <1>10 DEF want
  <2>2. cached.id = issued.tls /\ cached.id # 0 /\ cached.ca = issued.ca
    BY <2>1 DEF CertInv, reusableServingTLSCert
  <2>. QED
    BY <1>1, <1>2, <1>7, <1>10, <2>2
<1>11. CASE /\ obj["tls"].owner # "plain" /\ cached # want /\ cached = obj["tls"]
            /\ obj' = [obj EXCEPT !["tls"] = want] /\ status' = status /\ worker' = next
            /\ issued' \in [ca : Certs, tls : Certs]
            /\ issued'.ca = issued.ca
            /\ issued'.tls = IF want.id > issued.tls THEN want.id ELSE issued.tls
  <2>1. ~reusableServingTLSCert(cached, issued.ca) /\ want = fresh
    BY <1>11 DEF want
  <2>2. want.id = issued.tls + 1 /\ issued'.tls = issued.tls + 1
    BY <1>3, <1>4, <1>11, <2>1
  <2>3. fresh \in Object
    BY <1>5, <2>1
  <2>. QED
    BY <1>1, <1>2, <1>4, <1>7, <1>11, <2>1, <2>2, <2>3 DEF fresh
<1>. QED
  BY <1>8, <1>9, <1>10, <1>11

\* The Deployment gets the fingerprint of the pass, and is ready only when the cached
\* copy of that fingerprint was.
LEMMA DeploymentEffect ==
  ASSUME TypeOK, ensureRemoteDeployment
  PROVE  LET cached == objCache["deployment"]
         IN /\ UNCHANGED <<hubVars, remoteVars, objCache, issued, changes>>
            /\ worker.pc = "deployment"
            /\ \/ Quits
               \/ /\ status' = status /\ obj["deployment"].owner # "plain"
                  /\ \/ obj' = obj
                     \/ \E want \in Object :
                          /\ obj' = [obj EXCEPT !["deployment"] = want]
                          /\ want.owner = "managed" /\ want.id = worker.fp
                          /\ want.obs => cached.obs /\ cached.id = worker.fp
                          /\ want.upd = cached.upd
                  /\ worker' \in Pass /\ worker'.ca = worker.ca /\ worker'.fp = worker.fp
                  /\ worker'.pc \in {"exists", "mwhc"}
                  /\ worker'.pc = "exists" => ~worker'.ready
                  /\ worker'.ready => cached.obs /\ cached.upd /\ cached.id = worker.fp
<1>. DEFINE cached == objCache["deployment"]
            want   == [cached EXCEPT !.owner = "managed", !.id = worker.fp,
                                     !.obs = @ /\ cached.id = worker.fp]
            ready  == assessRemoteDeploymentReadiness(want)
            next   == [worker EXCEPT !.pc = IF ready THEN "mwhc" ELSE "exists", !.ready = ready]
<1>1. /\ worker.pc = "deployment" /\ Apply("deployment", cached, want, next)
      /\ UNCHANGED <<hubVars, remoteVars, objCache, changes>>
  BY DEF ensureRemoteDeployment
<1>2. cached \in Object /\ worker \in Pass /\ worker.fp \in Certs
  BY DEF TypeOK, CachedKinds, Pass
<1>3. /\ want \in Object /\ want.owner = "managed" /\ want.id = worker.fp
      /\ want.obs = (cached.obs /\ cached.id = worker.fp)
      /\ want.upd = cached.upd
  BY <1>2, Zenon DEF Object
<1>4. ready \in BOOLEAN /\ (ready => cached.obs /\ cached.upd /\ cached.id = worker.fp)
  BY <1>3, Zenon DEF assessRemoteDeploymentReadiness
<1>5. "deployment" \in Kinds
  BY DEF Kinds
<1>. HIDE DEF want, ready
<1>6. /\ next \in Pass /\ next.ca = worker.ca /\ next.fp = worker.fp
      /\ next.pc \in {"exists", "mwhc"} /\ next.ready = ready
      /\ next.pc = "exists" => ~ready
  BY <1>2, <1>4, Zenon DEF Pass
<1>. HIDE DEF next
<1>7. \/ /\ UNCHANGED <<obj, issued>> /\ worker' = Idle
         /\ \E r \in {"unmanaged", "failed"} : status' = [status EXCEPT !.runtime = r]
      \/ /\ obj["deployment"].owner # "plain" /\ cached = want
         /\ UNCHANGED <<obj, issued, status>> /\ worker' = next
      \/ /\ obj["deployment"].owner # "plain" /\ cached # want
         /\ obj' = [obj EXCEPT !["deployment"] = want] /\ status' = status /\ worker' = next
         /\ issued' \in [ca : Certs, tls : Certs]
         /\ issued'.ca = issued.ca /\ issued'.tls = issued.tls
  BY <1>1, <1>3, <1>5, ApplyEffect, Zenon
<1>8. issued' = issued
  BY <1>7 DEF TypeOK
<1>9. CASE /\ UNCHANGED <<obj, issued>> /\ worker' = Idle
           /\ \E r \in {"unmanaged", "failed"} : status' = [status EXCEPT !.runtime = r]
  <2>1. status' \in Status
    BY <1>9 DEF TypeOK, Status
  <2>. QED
    BY <1>1, <1>9, <2>1 DEF Quits
<1>10. CASE /\ obj["deployment"].owner # "plain" /\ cached = want
            /\ UNCHANGED <<obj, issued, status>> /\ worker' = next
  BY <1>1, <1>4, <1>6, <1>10
<1>11. CASE /\ obj["deployment"].owner # "plain" /\ cached # want
            /\ obj' = [obj EXCEPT !["deployment"] = want] /\ status' = status /\ worker' = next
            /\ issued' \in [ca : Certs, tls : Certs]
            /\ issued'.ca = issued.ca /\ issued'.tls = issued.tls
  BY <1>1, <1>3, <1>4, <1>6, <1>8, <1>11, Zenon
<1>. QED
  BY <1>7, <1>9, <1>10, <1>11

\* A report ends the pass.
LEMMA ReportEffect ==
  ASSUME TypeOK, NEW r \in {"ready", "rolling", "waiting", "bootstrap", "unavailable", "failed",
                            "unmanaged"},
         Report(r)
  PROVE  worker' = Idle /\ status' \in Status
BY DEF TypeOK, Report, Status

\* Objects of people and of other certificates stay as they are; the supporting ones
\* are created where they are missing.
LEMMA SupportEffect ==
  ASSUME TypeOK, applyRemoteSupportingResources
  PROVE  /\ UNCHANGED <<hubVars, remoteVars, objCache, issued, changes>>
         /\ worker.pc = "support"
         /\ obj' \in [Kinds -> Object]
         /\ \A k \in Kinds : \/ obj'[k] = obj[k]
                             \/ /\ k \in Supporting /\ obj[k].owner = "none" /\ obj'[k] = Managed
         /\ \/ worker' = Idle /\ status' \in Status
            \/ /\ worker' \in Pass /\ worker'.pc = "deployment" /\ status' = status
               /\ worker'.ca = worker.ca /\ worker'.fp = worker.fp
<1>. DEFINE failed == \E k \in Supporting :
                        createOrUpdateAdoptableWebhookRuntime(k, obj[k], Managed) = "unmanaged"
            absent == {k \in Supporting : obj[k].owner = "none"}
<1>1. PICK applied \in SUBSET absent :
        obj' = [k \in Kinds |-> IF k \in applied THEN Managed ELSE obj[k]]
  BY DEF applyRemoteSupportingResources
<1>2. /\ worker.pc = "support"
      /\ IF failed THEN Report("unmanaged")
         ELSE worker' = [worker EXCEPT !.pc = "deployment"] /\ UNCHANGED status
      /\ UNCHANGED <<hubVars, remoteVars, objCache, issued, changes>>
  BY DEF applyRemoteSupportingResources
<1>3. obj \in [Kinds -> Object] /\ worker \in Pass
  BY DEF TypeOK
<1>4. obj' \in [Kinds -> Object]
  BY <1>1, <1>3, Constants
<1>5. \A k \in Kinds : \/ obj'[k] = obj[k]
                       \/ k \in Supporting /\ obj[k].owner = "none" /\ obj'[k] = Managed
  BY <1>1
<1>6. \/ worker' = Idle /\ status' \in Status
      \/ /\ worker' \in Pass /\ worker'.pc = "deployment" /\ status' = status
         /\ worker'.ca = worker.ca /\ worker'.fp = worker.fp
  <2>1. CASE failed
    BY <1>2, <2>1, ReportEffect
  <2>2. CASE ~failed
    <3>1. worker' = [worker EXCEPT !.pc = "deployment"] /\ status' = status
      BY <1>2, <2>2
    <3>. QED
      BY <1>3, <3>1 DEF Pass
  <2>. QED
    BY <2>1, <2>2
<1>. QED
  BY <1>2, <1>4, <1>5, <1>6

\* The admission configuration is left alone or gets the CA of the pass, which ends.
LEMMA AdmissionEffect ==
  ASSUME TypeOK, ensureRemoteMutatingWebhookConfiguration
  PROVE  /\ UNCHANGED <<hubVars, remoteVars, objCache, issued, changes>>
         /\ worker.pc = "mwhc" /\ worker' = Idle /\ status' \in Status
         /\ \/ obj' = obj
            \/ /\ obj["mwhc"].owner # "plain"
               /\ [Managed EXCEPT !.ca = worker.ca] \in Object
               /\ obj' = [obj EXCEPT !["mwhc"] = [Managed EXCEPT !.ca = worker.ca]]
<1>. DEFINE cached == objCache["mwhc"]
            want   == [Managed EXCEPT !.ca = worker.ca]
            result == createOrUpdateAdoptableWebhookRuntime("mwhc", cached, want)
            r      == IF result = "unmanaged" THEN "unmanaged"
                      ELSE IF result = "conflict" THEN "failed"
                      ELSE IF worker.ready THEN "ready" ELSE "rolling"
<1>1. /\ worker.pc = "mwhc"
      /\ obj' = IF result = "write" THEN [obj EXCEPT !["mwhc"] = want] ELSE obj
      /\ Report(r)
      /\ UNCHANGED <<hubVars, remoteVars, objCache, issued, changes>>
  BY DEF ensureRemoteMutatingWebhookConfiguration
<1>2. want \in Object
  <2>1. worker.ca \in Certs
    BY DEF TypeOK, Pass
  <2>. QED
    BY <2>1, Constants DEF Object
<1>3. result = "write" => obj["mwhc"].owner # "plain"
  BY DEF createOrUpdateAdoptableWebhookRuntime
<1>4. r \in {"ready", "rolling", "waiting", "bootstrap", "unavailable", "failed", "unmanaged"}
  OBVIOUS
<1>. HIDE DEF r, result
<1>5. worker' = Idle /\ status' \in Status
  BY <1>1, <1>4, ReportEffect
<1>. QED
  BY <1>1, <1>2, <1>3, <1>5

\* Without readiness only an existing configuration is refreshed.
LEMMA ExistsEffect ==
  ASSUME TypeOK, remoteMutatingWebhookConfigurationExists
  PROVE  /\ UNCHANGED <<hubVars, remoteVars, obj, objCache, issued, changes>>
         /\ worker.pc = "exists"
         /\ \/ worker' = Idle /\ status' \in Status
            \/ /\ worker' \in Pass /\ worker'.pc = "mwhc" /\ status' = status
               /\ worker'.ca = worker.ca /\ worker'.fp = worker.fp /\ worker'.ready = worker.ready
<1>1. /\ worker.pc = "exists"
      /\ \/ Report("waiting")
         \/ worker' = [worker EXCEPT !.pc = "mwhc"] /\ status' = status
      /\ UNCHANGED <<hubVars, remoteVars, obj, objCache, issued, changes>>
  BY DEF remoteMutatingWebhookConfigurationExists
<1>2. CASE Report("waiting")
  BY <1>1, <1>2, ReportEffect
<1>3. CASE worker' = [worker EXCEPT !.pc = "mwhc"] /\ status' = status
  <2>1. worker \in Pass
    BY DEF TypeOK
  <2>2. /\ worker' \in Pass /\ worker'.pc = "mwhc"
        /\ worker'.ca = worker.ca /\ worker'.fp = worker.fp /\ worker'.ready = worker.ready
    BY <1>3, <2>1 DEF Pass
  <2>. QED
    BY <1>1, <1>3, <2>2
<1>. QED
  BY <1>1, <1>2, <1>3

\* A pass that begins has nothing yet.
LEMMA BeginEffect ==
  ASSUME TypeOK, reconcileSelfHostedWebhookRuntime \/ deleteRemoteWebhookRuntimeStrict
  PROVE  /\ UNCHANGED <<configCache, inventory, remoteVars, obj, objCache, issued, changes>>
         /\ config' \in Config /\ status' \in Status
         /\ worker' \in Pass /\ worker'.pc \in {"idle", "ca", "probe"}
         /\ worker'.ca = 0 /\ worker'.fp = 0
         /\ worker'.pc = "probe" => worker'.todo = {"mwhc"}
<1>0. config \in Config /\ status \in Status /\ configCache \in Config
  BY DEF TypeOK
<1>1. CASE reconcileSelfHostedWebhookRuntime
  <2>1. /\ UNCHANGED <<hubVars, remoteVars, obj, objCache, issued, changes>>
        /\ \/ \E r \in {"unavailable", "bootstrap"} : Report(r)
           \/ worker' = Begin("ca", FirstConfig, {}) /\ status' = status
    BY <1>1 DEF reconcileSelfHostedWebhookRuntime
  <2>2. CASE \E r \in {"unavailable", "bootstrap"} : Report(r)
    <3>1. worker' = Idle /\ status' \in Status
      BY <2>2, ReportEffect
    <3>. QED
      BY <1>0, <2>1, <3>1, Constants DEF hubVars
  <2>3. CASE worker' = Begin("ca", FirstConfig, {}) /\ status' = status
    <3>1. /\ worker' \in Pass /\ worker'.pc = "ca" /\ worker'.ca = 0 /\ worker'.fp = 0
      BY <2>3, Constants DEF Begin, Pass
    <3>. QED
      BY <1>0, <2>1, <2>3, <3>1 DEF hubVars
  <2>. QED
    BY <2>1, <2>2, <2>3
<1>2. CASE deleteRemoteWebhookRuntimeStrict
  <2>1. /\ UNCHANGED <<configCache, inventory, remoteVars, obj, objCache, issued, changes>>
        /\ \/ Refused(configCache)
           \/ worker' = Begin("probe", configCache, {"mwhc"}) /\ UNCHANGED <<config, status>>
    BY <1>2 DEF deleteRemoteWebhookRuntimeStrict
  <2>2. CASE Refused(configCache)
    <3>1. config' \in Config /\ status' \in Status /\ worker' = Idle
      <4>1. RemovedOne
        BY <1>0, <2>2, EndEffect
      <4>2. worker' = Idle
        BY <2>2 DEF Refused, Removed
      <4>. QED
        BY <4>1, <4>2 DEF RemovedOne
    <3>. QED
      BY <2>1, <3>1, Constants
  <2>3. CASE worker' = Begin("probe", configCache, {"mwhc"}) /\ UNCHANGED <<config, status>>
    <3>1. "mwhc" \in Kinds
      BY DEF Kinds
    <3>2. /\ worker' \in Pass /\ worker'.pc = "probe" /\ worker'.ca = 0 /\ worker'.fp = 0
          /\ worker'.todo = {"mwhc"}
      BY <1>0, <2>3, <3>1, Constants DEF Begin, Pass
    <3>. QED
      BY <1>0, <2>1, <2>3, <3>2
  <2>. QED
    BY <2>1, <2>2, <2>3
<1>. QED
  BY <1>1, <1>2

\* A step of a removal, or an API call of any pass that fails.
LEMMA RemovalStepEffect ==
  ASSUME TypeOK, RemovalInv,
         ProbeForRemoval \/ deleteManagedRemoteWebhookRuntimeObject \/ apiError
  PROVE  /\ UNCHANGED <<configCache, inventory, remoteVars, objCache, issued>>
         /\ config' \in Config /\ status' \in Status
         /\ changes' \in 0 .. MaxChanges
         /\ worker' \in Pass /\ worker'.pc \in {"idle", "probe", "remove"}
         /\ worker'.ca \in {0, worker.ca} /\ worker'.fp \in {0, worker.fp}
         /\ \/ obj' = obj
            \/ /\ Current \in Kinds /\ obj' = [obj EXCEPT ![Current] = NoObject]
               /\ worker.pc = "remove"
               /\ Current # "mwhc" => obj["mwhc"].owner # "managed"
         /\ worker'.pc \in {"probe", "remove"} =>
              \/ worker'.todo = {"mwhc"}
              \/ /\ worker'.todo # {} /\ worker'.todo \subseteq Backing
                 /\ obj'["mwhc"].owner # "managed"
<1>0. /\ config \in Config /\ status \in Status /\ worker \in Pass /\ changes \in 0 .. MaxChanges
      /\ obj \in [Kinds -> Object] /\ MaxChanges \in Nat
  BY WebhookAssumption DEF TypeOK
<1>1. CASE ProbeForRemoval
  <2>0. /\ worker.pc = "probe"
        /\ UNCHANGED <<configCache, inventory, remoteVars, obj, objCache, issued, changes>>
    BY <1>1 DEF ProbeForRemoval
  <2>1. CASE worker' = [worker EXCEPT !.pc = "remove"] /\ UNCHANGED <<config, status>>
    <3>1. /\ worker' \in Pass /\ worker'.pc = "remove" /\ worker'.todo = worker.todo
          /\ worker'.ca = worker.ca /\ worker'.fp = worker.fp
      BY <1>0, <2>1 DEF Pass
    <3>. QED
      BY <1>0, <2>0, <2>1, <3>1 DEF RemovalInv
  <2>2. CASE obj[Current].owner = "plain" /\ RemoveFails
    <3>1. /\ RemovedOne
          /\ Current # "mwhc" => obj["mwhc"].owner # "managed"
          /\ Current = "mwhc" => worker'.pc = "idle"
      BY <2>0, <2>2, RemoveEffect
    <3>. QED
      BY <1>0, <2>0, <3>1 DEF RemovedOne
  <2>3. CASE obj[Current].owner \in {"plain", "none"} /\ RemoveNext
    <3>1. /\ RemovedOne
          /\ Current # "mwhc" => obj["mwhc"].owner # "managed"
      BY <2>0, <2>3, RemoveEffect
    <3>2. obj["mwhc"].owner # "managed"
      BY <2>3, <3>1
    <3>. QED
      BY <1>0, <2>0, <3>1, <3>2 DEF RemovedOne
  <2>. QED
    BY <1>1, <2>1, <2>2, <2>3 DEF ProbeForRemoval
<1>2. CASE deleteManagedRemoteWebhookRuntimeObject
  <2>0. /\ worker.pc = "remove" /\ RemoveNext
        /\ obj' = [obj EXCEPT ![Current] = NoObject]
        /\ UNCHANGED <<configCache, inventory, remoteVars, objCache, issued, changes>>
    BY <1>2 DEF deleteManagedRemoteWebhookRuntimeObject
  <2>1. /\ RemovedOne /\ Current \in Kinds
        /\ Current # "mwhc" => obj["mwhc"].owner # "managed"
    BY <2>0, RemoveEffect
  <2>2. obj'["mwhc"].owner # "managed"
    <3>1. "mwhc" \in Kinds
      BY DEF Kinds
    <3>2. CASE Current = "mwhc"
      <4>1. obj'["mwhc"] = NoObject
        BY <1>0, <2>0, <3>1, <3>2
      <4>. QED
        BY <4>1, Constants
    <3>3. CASE Current # "mwhc"
      <4>1. obj'["mwhc"] = obj["mwhc"]
        BY <1>0, <2>0, <3>1, <3>3
      <4>. QED
        BY <2>1, <3>3, <4>1
    <3>. QED
      BY <3>2, <3>3
  <2>. QED
    BY <1>0, <2>0, <2>1, <2>2 DEF RemovedOne
<1>3. CASE apiError
  <2>0. /\ UNCHANGED <<configCache, inventory, remoteVars, obj, objCache, issued>>
        /\ changes' \in 0 .. MaxChanges
    BY <1>0, <1>3 DEF apiError, Disturb
  <2>1. CASE worker.pc \in {"probe", "remove"}
    <3>1. RemoveFails
      BY <1>3, <2>1 DEF apiError
    <3>2. /\ RemovedOne
          /\ Current # "mwhc" => obj["mwhc"].owner # "managed"
          /\ Current = "mwhc" => worker'.pc = "idle"
      BY <2>1, <3>1, RemoveEffect
    <3>. QED
      BY <1>0, <2>0, <3>2 DEF RemovedOne
  <2>2. CASE worker.pc \notin {"probe", "remove"}
    <3>1. Report("failed") /\ config' = config
      BY <1>3, <2>2 DEF apiError
    <3>2. worker' = Idle /\ status' \in Status
      BY <3>1, ReportEffect
    <3>. QED
      BY <1>0, <2>0, <3>1, <3>2, Constants
  <2>. QED
    BY <2>1, <2>2
<1>. QED
  BY <1>1, <1>2, <1>3

----------------------------------------------------------------------------
(* The workload cluster.                                                   *)

\* A cached copy is refreshed from an object with the operator's labels.
LEMMA SyncEffect ==
  ASSUME TypeOK, NEW k \in CachedKinds, SyncObject(k)
  PROVE  /\ UNCHANGED <<hubVars, status, remoteVars, obj, issued, worker, changes>>
         /\ objCache' \in [CachedKinds -> Object]
         /\ \A c \in CachedKinds : \/ objCache'[c] = objCache[c]
                                   \/ objCache'[c] = NoObject
                                   \/ obj[c].owner = "managed" /\ objCache'[c] = obj[c]
<1>. DEFINE seen == IF selfHostedWebhookRuntimeCacheSelector(obj[k]) THEN obj[k] ELSE NoObject
<1>1. /\ UNCHANGED <<hubVars, status, remoteVars, obj, issued, worker, changes>>
      /\ objCache' = [objCache EXCEPT ![k] = seen]
  BY DEF SyncObject
<1>2. k \in Kinds
  BY DEF CachedKinds, Kinds
<1>3. seen \in Object /\ (seen = NoObject \/ (obj[k].owner = "managed" /\ seen = obj[k]))
  BY <1>2, Constants DEF TypeOK, selfHostedWebhookRuntimeCacheSelector
<1>. HIDE DEF seen
<1>4. objCache \in [CachedKinds -> Object]
  BY DEF TypeOK
<1>. QED
  BY <1>1, <1>3, <1>4

\* The Deployment controller reports what the pods are.
LEMMA ObserveEffect ==
  ASSUME TypeOK, ObserveDeployment
  PROVE  /\ UNCHANGED <<hubVars, status, remoteVars, objCache, issued, worker, changes>>
         /\ obj' \in [Kinds -> Object]
         /\ \A k \in Kinds \ {"deployment"} : obj'[k] = obj[k]
         /\ obj["deployment"].owner # "none"
         /\ obj'["deployment"].owner = obj["deployment"].owner
         /\ obj'["deployment"].id = obj["deployment"].id
         /\ obj'["deployment"].upd = (pods.up /\ pods.tmpl = obj["deployment"].id)
<1>. DEFINE d    == obj["deployment"]
            seen == [d EXCEPT !.obs = TRUE, !.upd = pods.up /\ pods.tmpl = d.id, !.avail = pods.up]
<1>1. /\ UNCHANGED <<hubVars, status, remoteVars, objCache, issued, worker, changes>>
      /\ obj["deployment"].owner # "none"
      /\ obj' = [obj EXCEPT !["deployment"] = seen]
  BY DEF ObserveDeployment
<1>2. obj \in [Kinds -> Object] /\ d \in Object /\ pods.up \in BOOLEAN /\ "deployment" \in Kinds
  BY DEF TypeOK, Kinds, Pods
<1>3. /\ seen \in Object /\ seen.owner = d.owner /\ seen.id = d.id
      /\ seen.upd = (pods.up /\ pods.tmpl = d.id)
  BY <1>2, Zenon DEF Object
<1>. HIDE DEF seen
<1>. QED
  BY <1>1, <1>2, <1>3

\* An object with the operator's labels is deleted, loses them or comes of age.
LEMMA DriftEffect ==
  ASSUME TypeOK, NEW k \in Drifting, Drift(k)
  PROVE  /\ UNCHANGED <<hubVars, status, remoteVars, objCache, issued, worker>>
         /\ changes' \in 0 .. MaxChanges
         /\ k \in Kinds /\ obj[k].owner = "managed"
         /\ obj' \in [Kinds -> Object]
         /\ \A c \in Kinds \ {k} : obj'[c] = obj[c]
         /\ \/ obj'[k] = NoObject
            \/ /\ obj'[k].owner \in {"managed", "plain"}
               /\ obj'[k].id = obj[k].id /\ obj'[k].ca = obj[k].ca
               /\ obj'[k].obs = obj[k].obs /\ obj'[k].upd = obj[k].upd
<1>1. k \in Kinds
  BY WebhookAssumption DEF CachedKinds, Kinds
<1>2. obj \in [Kinds -> Object] /\ obj[k] \in Object
  BY <1>1 DEF TypeOK
<1>3. /\ UNCHANGED <<hubVars, status, remoteVars, objCache, issued, worker>>
      /\ obj[k].owner = "managed"
      /\ changes < MaxChanges /\ changes' = changes + 1
      /\ \/ obj' = [obj EXCEPT ![k] = NoObject]
         \/ obj' = [obj EXCEPT ![k].owner = "plain"]
         \/ obj' = [obj EXCEPT ![k].due = TRUE]
  BY DEF Drift, Disturb
<1>4. changes' \in 0 .. MaxChanges
  BY <1>3, WebhookAssumption DEF TypeOK
<1>5. CASE obj' = [obj EXCEPT ![k] = NoObject]
  BY <1>1, <1>2, <1>3, <1>4, <1>5, Constants
<1>6. CASE obj' = [obj EXCEPT ![k].owner = "plain"]
  <2>1. [obj[k] EXCEPT !.owner = "plain"] \in Object
    BY <1>2 DEF Object
  <2>2. /\ obj' \in [Kinds -> Object] /\ obj'[k] = [obj[k] EXCEPT !.owner = "plain"]
        /\ \A c \in Kinds \ {k} : obj'[c] = obj[c]
    BY <1>1, <1>2, <1>6, <2>1
  <2>3. /\ obj'[k].owner = "plain"
        /\ obj'[k].id = obj[k].id /\ obj'[k].ca = obj[k].ca
        /\ obj'[k].obs = obj[k].obs /\ obj'[k].upd = obj[k].upd
    BY <1>2, <2>2 DEF Object
  <2>. QED
    BY <1>1, <1>3, <1>4, <2>2, <2>3
<1>7. CASE obj' = [obj EXCEPT ![k].due = TRUE]
  <2>1. [obj[k] EXCEPT !.due = TRUE] \in Object
    BY <1>2, Zenon DEF Object
  <2>2. /\ obj' \in [Kinds -> Object] /\ obj'[k] = [obj[k] EXCEPT !.due = TRUE]
        /\ \A c \in Kinds \ {k} : obj'[c] = obj[c]
    BY <1>1, <1>2, <1>7, <2>1
  <2>3. /\ obj'[k].owner = "managed"
        /\ obj'[k].id = obj[k].id /\ obj'[k].ca = obj[k].ca
        /\ obj'[k].obs = obj[k].obs /\ obj'[k].upd = obj[k].upd
    BY <1>2, <1>3, <2>2 DEF Object
  <2>. QED
    BY <1>1, <1>3, <1>4, <2>2, <2>3
<1>. QED
  BY <1>3, <1>5, <1>6, <1>7

\* Pods come and go; those that come serve the certificate of the Secret.
PodStep ==
  /\ UNCHANGED <<config, configCache, inventory, status, namespace, obj, objCache, issued, worker>>
  /\ changes' \in 0 .. MaxChanges
  /\ \/ pods' = NoPods /\ served' = served
     \/ /\ pods' \in Pods /\ pods'.tmpl = obj["deployment"].id
        /\ obj["deployment"].owner # "none" /\ obj["tls"].owner # "none"
        /\ served' = served \cup {obj["tls"].ca}

\* Deployment controller and kubelet, and what makes pods fail.
LEMMA PodEffect ==
  ASSUME TypeOK, RollOut \/ CollectPods \/ PodsFail
  PROVE  PodStep
<1>1. CASE RollOut
  <2>1. obj["deployment"].id \in Certs /\ obj["tls"].ca \in Certs
    BY DEF TypeOK, Kinds, Object
  <2>2. /\ pods' \in Pods /\ pods'.tmpl = obj["deployment"].id
    BY <1>1, <2>1 DEF RollOut, Pods
  <2>. QED
    BY <1>1, <2>2 DEF RollOut, PodStep, hubVars, TypeOK
<1>2. CASE CollectPods
  BY <1>2 DEF CollectPods, PodStep, hubVars, TypeOK
<1>3. CASE PodsFail
  <2>1. changes' \in 0 .. MaxChanges
    BY <1>3, WebhookAssumption DEF PodsFail, Disturb, TypeOK
  <2>. QED
    BY <1>3, <2>1 DEF PodsFail, PodStep, hubVars
<1>. QED
  BY <1>1, <1>2, <1>3

\* The hub, and a crash: the runtime does not change.
HubStep ==
  /\ UNCHANGED <<pods, served, obj, objCache, issued>>
  /\ config' \in Config /\ configCache' \in Config /\ status' \in Status
  /\ namespace' \in BOOLEAN /\ inventory' \in {"ready", "sibling", "down"}
  /\ changes' \in 0 .. MaxChanges
  /\ worker' \in {worker, Idle}

\* The steps on the hub, and the crash.
LEMMA HubEffect ==
  ASSUME TypeOK,
         \/ SyncConfig \/ Bootstrap \/ ChangeInventory \/ DeleteConfig \/ ForceDelete
         \/ RecreateConfig \/ crash
  PROVE  HubStep
<1>0. /\ config \in Config /\ configCache \in Config /\ status \in Status
      /\ namespace \in BOOLEAN /\ inventory \in {"ready", "sibling", "down"}
      /\ changes \in 0 .. MaxChanges
  BY DEF TypeOK
<1>1. \A kind : Disturb(kind) => changes' \in 0 .. MaxChanges
  BY <1>0, WebhookAssumption DEF Disturb
<1>2. CASE SyncConfig
  BY <1>0, <1>2 DEF SyncConfig, HubStep, remoteVars
<1>3. CASE Bootstrap
  BY <1>0, <1>3 DEF Bootstrap, HubStep, hubVars
<1>4. CASE ChangeInventory
  BY <1>0, <1>1, <1>4 DEF ChangeInventory, HubStep, remoteVars
<1>5. CASE DeleteConfig
  <2>1. config' \in Config
    BY <1>0, <1>5 DEF DeleteConfig, Config
  <2>. QED
    BY <1>0, <1>5, <2>1 DEF DeleteConfig, HubStep, remoteVars
<1>6. CASE ForceDelete
  <2>1. config' \in Config
    BY <1>0, <1>6, Zenon DEF ForceDelete, Config
  <2>. QED
    BY <1>0, <1>1, <1>6, <2>1 DEF ForceDelete, HubStep, remoteVars
<1>7. CASE RecreateConfig
  <2>1. config' \in Config
    <3>1. config.uid + 1 \in 1 .. MaxUID
      BY <1>0, <1>7, WebhookAssumption DEF RecreateConfig, Config
    <3>. QED
      BY <1>7, <3>1 DEF RecreateConfig, Config
  <2>2. status' \in Status
    BY <1>7 DEF RecreateConfig, Status
  <2>. QED
    BY <1>0, <1>1, <1>7, <2>1, <2>2 DEF RecreateConfig, HubStep, remoteVars
<1>8. CASE crash
  BY <1>0, <1>1, <1>8 DEF crash, HubStep, hubVars, remoteVars
<1>. QED
  BY <1>2, <1>3, <1>4, <1>5, <1>6, <1>7, <1>8

----------------------------------------------------------------------------
(* Types.                                                                  *)

\* The steps, in the groups the proofs distinguish.
LEMMA StepCases ==
  ASSUME TypeOK, Next
  PROVE  \/ reconcileSelfHostedWebhookRuntime \/ deleteRemoteWebhookRuntimeStrict
         \/ ensureRemoteCASecret
         \/ ensureRemoteServingTLSSecret
         \/ applyRemoteSupportingResources
         \/ ensureRemoteDeployment
         \/ remoteMutatingWebhookConfigurationExists
         \/ ensureRemoteMutatingWebhookConfiguration
         \/ ProbeForRemoval \/ deleteManagedRemoteWebhookRuntimeObject \/ apiError
         \/ \E k \in CachedKinds : SyncObject(k)
         \/ ObserveDeployment
         \/ PodStep
         \/ \E k \in Drifting : Drift(k)
         \/ HubStep
BY PodEffect, HubEffect
   DEF Next, ControllerPass, applyRemoteWebhookRuntime, finishRemoteWebhookAdmission,
       deleteRemoteWebhookRuntime, Environment

\* Every step keeps the types, and no pass works with a certificate not stored.
LEMMA TypeStep ==
  ASSUME IInv, Next
  PROVE  TypeOK'
<1>0. TypeOK /\ CAInv /\ CertInv /\ RemovalInv
  BY DEF IInv
<1>1. /\ config \in Config /\ configCache \in Config /\ status \in Status
      /\ namespace \in BOOLEAN /\ obj \in [Kinds -> Object]
      /\ objCache \in [CachedKinds -> Object]
      /\ \A k \in CachedKinds : objCache[k].owner \in {"none", "managed"}
      /\ issued \in [ca : Certs, tls : Certs] /\ pods \in Pods /\ served \subseteq 1 .. issued.ca
      /\ inventory \in {"ready", "sibling", "down"}
      /\ worker \in Pass /\ worker.ca <= issued.ca /\ worker.fp <= issued.tls
      /\ changes \in 0 .. MaxChanges
  BY <1>0 DEF TypeOK
<1>2. /\ issued.ca \in Nat /\ issued.tls \in Nat /\ worker.ca \in Nat /\ worker.fp \in Nat
  <2>1. issued.ca \in Certs /\ issued.tls \in Certs /\ worker.ca \in Certs /\ worker.fp \in Certs
    BY <1>1 DEF Pass
  <2>. QED
    BY <2>1, Constants, Zenon
<1>3. "ca" \in Kinds /\ "tls" \in Kinds /\ "deployment" \in Kinds /\ "mwhc" \in Kinds
  BY DEF Kinds
<1>4. Idle \in Pass /\ Idle.ca <= issued.ca /\ Idle.fp <= issued.tls
  BY <1>2, Constants
<1>5. CASE reconcileSelfHostedWebhookRuntime \/ deleteRemoteWebhookRuntimeStrict
  <2>1. /\ UNCHANGED <<configCache, inventory, remoteVars, obj, objCache, issued, changes>>
        /\ config' \in Config /\ status' \in Status
        /\ worker' \in Pass /\ worker'.ca = 0 /\ worker'.fp = 0
    BY <1>0, <1>5, BeginEffect
  <2>. QED
    BY <1>1, <1>2, <2>1 DEF TypeOK, remoteVars
<1>6. CASE ensureRemoteCASecret
  <2>0. UNCHANGED <<hubVars, remoteVars, objCache, changes>>
    BY <1>0, <1>6, CAEffect
  <2>1. CASE Quits
    BY <1>1, <1>4, <2>0, <2>1 DEF TypeOK, remoteVars, hubVars, Quits
  <2>2. CASE /\ UNCHANGED <<obj, issued, status>> /\ worker' \in Pass
             /\ worker'.ca = issued.ca /\ worker'.fp = worker.fp
    BY <1>1, <1>2, <2>0, <2>2 DEF TypeOK, remoteVars, hubVars
  <2>3. CASE /\ status' = status /\ issued' \in [ca : Certs, tls : Certs]
             /\ issued'.ca = issued.ca + 1 /\ issued'.tls = issued.tls
             /\ obj' = [obj EXCEPT !["ca"] = generateWebhookCACertificate]
             /\ generateWebhookCACertificate \in Object
             /\ worker' \in Pass
             /\ worker'.ca = issued.ca + 1 /\ worker'.fp = worker.fp
    <3>1. served \subseteq 1 .. issued.ca + 1
      BY <1>1, <1>2
    <3>2. obj' \in [Kinds -> Object]
      BY <1>1, <1>3, <2>3
    <3>3. worker'.ca <= issued'.ca /\ worker'.fp <= issued'.tls
      BY <1>1, <1>2, <2>3
    <3>. QED
      BY <1>1, <2>0, <2>3, <3>1, <3>2, <3>3 DEF TypeOK, remoteVars, hubVars
  <2>. QED
    BY <1>0, <1>6, <2>1, <2>2, <2>3, CAEffect
<1>7. CASE ensureRemoteServingTLSSecret
  <2>0. UNCHANGED <<hubVars, remoteVars, objCache, changes>>
    BY <1>0, <1>7, CertEffect
  <2>1. CASE Quits
    BY <1>1, <1>4, <2>0, <2>1 DEF TypeOK, remoteVars, hubVars, Quits
  <2>2. CASE /\ UNCHANGED <<obj, issued, status>> /\ worker' \in Pass
             /\ worker'.ca = issued.ca /\ worker'.fp = issued.tls
    BY <1>1, <1>2, <2>0, <2>2 DEF TypeOK, remoteVars, hubVars
  <2>3. CASE /\ status' = status /\ issued' \in [ca : Certs, tls : Certs]
             /\ issued'.ca = issued.ca /\ issued'.tls = issued.tls + 1
             /\ obj' = [obj EXCEPT !["tls"] = generateWebhookServingCertificate(issued.ca)]
             /\ generateWebhookServingCertificate(issued.ca) \in Object
             /\ worker' \in Pass
             /\ worker'.ca = issued.ca /\ worker'.fp = issued.tls + 1
    <3>2. obj' \in [Kinds -> Object]
      BY <1>1, <1>3, <2>3
    <3>3. worker'.ca <= issued'.ca /\ worker'.fp <= issued'.tls
      BY <1>1, <1>2, <2>3
    <3>. QED
      BY <1>1, <2>0, <2>3, <3>2, <3>3 DEF TypeOK, remoteVars, hubVars
  <2>. QED
    BY <1>0, <1>7, <2>1, <2>2, <2>3, CertEffect
<1>8. CASE applyRemoteSupportingResources
  <2>1. /\ UNCHANGED <<hubVars, remoteVars, objCache, issued, changes>>
        /\ obj' \in [Kinds -> Object]
        /\ \/ worker' = Idle /\ status' \in Status
           \/ /\ worker' \in Pass /\ status' = status
              /\ worker'.ca = worker.ca /\ worker'.fp = worker.fp
    BY <1>0, <1>8, SupportEffect
  <2>. QED
    BY <1>1, <1>4, <2>1 DEF TypeOK, remoteVars, hubVars
<1>9. CASE ensureRemoteDeployment
  <2>0. UNCHANGED <<hubVars, remoteVars, objCache, issued, changes>>
    BY <1>0, <1>9, DeploymentEffect
  <2>1. CASE Quits
    BY <1>1, <1>4, <2>0, <2>1 DEF TypeOK, remoteVars, hubVars, Quits
  <2>2. CASE /\ status' = status
             /\ \/ obj' = obj
                \/ \E want \in Object : obj' = [obj EXCEPT !["deployment"] = want]
             /\ worker' \in Pass /\ worker'.ca = worker.ca /\ worker'.fp = worker.fp
    <3>1. obj' \in [Kinds -> Object]
      BY <1>1, <1>3, <2>2
    <3>. QED
      BY <1>1, <2>0, <2>2, <3>1 DEF TypeOK, remoteVars, hubVars
  <2>. QED
    BY <1>0, <1>9, <2>1, <2>2, DeploymentEffect
<1>10. CASE remoteMutatingWebhookConfigurationExists
  <2>1. /\ UNCHANGED <<hubVars, remoteVars, obj, objCache, issued, changes>>
        /\ \/ worker' = Idle /\ status' \in Status
           \/ /\ worker' \in Pass /\ status' = status
              /\ worker'.ca = worker.ca /\ worker'.fp = worker.fp
    BY <1>0, <1>10, ExistsEffect
  <2>. QED
    BY <1>1, <1>4, <2>1 DEF TypeOK, remoteVars, hubVars
<1>11. CASE ensureRemoteMutatingWebhookConfiguration
  <2>1. /\ UNCHANGED <<hubVars, remoteVars, objCache, issued, changes>>
        /\ worker' = Idle /\ status' \in Status
        /\ \/ obj' = obj
           \/ /\ [Managed EXCEPT !.ca = worker.ca] \in Object
              /\ obj' = [obj EXCEPT !["mwhc"] = [Managed EXCEPT !.ca = worker.ca]]
    BY <1>0, <1>11, AdmissionEffect
  <2>2. obj' \in [Kinds -> Object]
    BY <1>1, <1>3, <2>1
  <2>. QED
    BY <1>1, <1>4, <2>1, <2>2 DEF TypeOK, remoteVars, hubVars
<1>12. CASE ProbeForRemoval \/ deleteManagedRemoteWebhookRuntimeObject \/ apiError
  <2>1. /\ UNCHANGED <<configCache, inventory, remoteVars, objCache, issued>>
        /\ config' \in Config /\ status' \in Status /\ changes' \in 0 .. MaxChanges
        /\ worker' \in Pass /\ worker'.ca \in {0, worker.ca} /\ worker'.fp \in {0, worker.fp}
        /\ \/ obj' = obj
           \/ Current \in Kinds /\ obj' = [obj EXCEPT ![Current] = NoObject]
    BY <1>0, <1>12, RemovalStepEffect
  <2>2. obj' \in [Kinds -> Object]
    BY <1>1, <2>1, Constants
  <2>3. worker'.ca <= issued'.ca /\ worker'.fp <= issued'.tls
    BY <1>1, <1>2, <2>1
  <2>. QED
    BY <1>1, <2>1, <2>2, <2>3 DEF TypeOK, remoteVars
<1>13. CASE \E k \in CachedKinds : SyncObject(k)
  <2>1. /\ UNCHANGED <<hubVars, status, remoteVars, obj, issued, worker, changes>>
        /\ objCache' \in [CachedKinds -> Object]
        /\ \A c \in CachedKinds : \/ objCache'[c] = objCache[c]
                                  \/ objCache'[c] = NoObject
                                  \/ obj[c].owner = "managed" /\ objCache'[c] = obj[c]
    BY <1>0, <1>13, SyncEffect
  <2>2. \A c \in CachedKinds : objCache'[c].owner \in {"none", "managed"}
    BY <1>1, <2>1, Constants
  <2>. QED
    BY <1>1, <2>1, <2>2 DEF TypeOK, remoteVars, hubVars
<1>14. CASE ObserveDeployment
  <2>1. /\ UNCHANGED <<hubVars, status, remoteVars, objCache, issued, worker, changes>>
        /\ obj' \in [Kinds -> Object]
    BY <1>0, <1>14, ObserveEffect
  <2>. QED
    BY <1>1, <2>1 DEF TypeOK, remoteVars, hubVars
<1>15. CASE PodStep
  <2>1. NoPods \in Pods
    BY Constants DEF NoPods, Pods
  <2>2. pods' \in Pods
    BY <1>15, <2>1 DEF PodStep
  <2>3. served' \subseteq 1 .. issued.ca
    <3>1. CASE served' = served
      BY <1>1, <3>1
    <3>2. CASE /\ obj["deployment"].owner # "none" /\ obj["tls"].owner # "none"
               /\ served' = served \cup {obj["tls"].ca}
      <4>1. obj["tls"].id # 0
        BY <3>2 DEF IInv, SquatInv
      <4>2. obj["tls"].ca \in 1 .. issued.ca
        BY <1>0, <4>1 DEF CertInv
      <4>. QED
        BY <1>1, <3>2, <4>2, Zenon
    <3>. QED
      BY <1>15, <3>1, <3>2 DEF PodStep
  <2>. QED
    BY <1>1, <1>15, <2>2, <2>3 DEF TypeOK, PodStep
<1>16. CASE \E k \in Drifting : Drift(k)
  <2>1. /\ UNCHANGED <<hubVars, status, remoteVars, objCache, issued, worker>>
        /\ changes' \in 0 .. MaxChanges /\ obj' \in [Kinds -> Object]
    BY <1>0, <1>16, DriftEffect
  <2>. QED
    BY <1>1, <2>1 DEF TypeOK, remoteVars, hubVars
<1>17. CASE HubStep
  BY <1>1, <1>4, <1>17 DEF TypeOK, HubStep
<1>. QED
  BY <1>0, <1>5, <1>6, <1>7, <1>8, <1>9, <1>10, <1>11, <1>12, <1>13, <1>14, <1>15, <1>16, <1>17,
     StepCases

----------------------------------------------------------------------------
(* Certificates.                                                           *)

\* A step that stores no certificate: the Secrets stay, lose their labels or go, the
\* copies of them follow, and no pass gets further with its certificates.
Quiet ==
  /\ issued' = issued
  /\ \A k \in {"ca", "tls"} :
       /\ \/ obj'[k] = NoObject
          \/ /\ obj'[k].id = obj[k].id /\ obj'[k].ca = obj[k].ca
             /\ \/ obj'[k].owner = obj[k].owner
                \/ obj[k].owner = "managed" /\ obj'[k].owner = "plain"
       /\ \/ objCache'[k] = objCache[k]
          \/ objCache'[k] = NoObject
          \/ obj' = obj /\ obj[k].owner = "managed" /\ objCache'[k] = obj[k]
  /\ worker'.pc \in PastCA => worker.pc \in PastCA /\ worker'.ca = worker.ca
  /\ worker'.pc \in PastTLS => worker.pc \in PastTLS /\ worker'.fp = worker.fp
  /\ obj'["deployment"].owner # "none"
       => obj["deployment"].owner # "none" \/ worker.pc \in PastTLS

\* Only the two certificate steps of a pass are not quiet.
LEMMA QuietStep ==
  ASSUME IInv, Next
  PROVE  \/ Quiet
         \/ ensureRemoteCASecret /\ ~Quits
         \/ ensureRemoteServingTLSSecret /\ ~Quits
<1>0. TypeOK /\ CAInv /\ CertInv /\ RemovalInv
  BY DEF IInv
<1>1. /\ {"ca", "tls"} \subseteq Kinds /\ {"ca", "tls"} \subseteq CachedKinds
      /\ "deployment" \in Kinds /\ "mwhc" \in Kinds
  BY DEF Kinds, CachedKinds
<1>2. obj \in [Kinds -> Object]
  BY <1>0 DEF TypeOK
<1>3. Idle.pc \notin PastCA /\ Idle.pc \notin PastTLS
  BY Constants DEF PastCA, PastTLS
<1>4. NoObject.owner = "none" /\ NoObject.id = 0
  BY Constants
<1>5. ASSUME issued' = issued, obj' = obj, objCache' = objCache,
             \/ worker'.pc \notin PastCA /\ worker'.pc \notin PastTLS
             \/ /\ worker.pc \in PastTLS /\ worker.pc \in PastCA
                /\ worker'.ca = worker.ca /\ worker'.fp = worker.fp
             \/ worker' = worker
      PROVE  Quiet
  BY <1>5 DEF Quiet
<1>6. CASE reconcileSelfHostedWebhookRuntime \/ deleteRemoteWebhookRuntimeStrict
  <2>1. UNCHANGED <<obj, objCache, issued>> /\ worker'.pc \in {"idle", "ca", "probe"}
    BY <1>0, <1>6, BeginEffect
  <2>2. worker'.pc \notin PastCA /\ worker'.pc \notin PastTLS
    BY <2>1 DEF PastCA, PastTLS
  <2>. QED
    BY <1>5, <2>1, <2>2
<1>7. CASE ensureRemoteCASecret /\ Quits
  <2>1. UNCHANGED <<obj, objCache, issued>> /\ worker' = Idle
    BY <1>0, <1>7, CAEffect DEF Quits
  <2>. QED
    BY <1>3, <1>5, <2>1
<1>8. CASE ensureRemoteServingTLSSecret /\ Quits
  <2>1. UNCHANGED <<obj, objCache, issued>> /\ worker' = Idle
    BY <1>0, <1>8, CertEffect DEF Quits
  <2>. QED
    BY <1>3, <1>5, <2>1
<1>9. CASE applyRemoteSupportingResources
  <2>1. /\ UNCHANGED <<objCache, issued>> /\ worker.pc = "support"
        /\ \A k \in Kinds : obj'[k] = obj[k] \/ k \in Supporting
        /\ \/ worker' = Idle
           \/ worker'.ca = worker.ca /\ worker'.fp = worker.fp
    BY <1>0, <1>9, SupportEffect
  <2>2. obj'["ca"] = obj["ca"] /\ obj'["tls"] = obj["tls"] /\ obj'["deployment"] = obj["deployment"]
    BY <1>1, <2>1 DEF Supporting
  <2>3. worker.pc \in PastCA /\ worker.pc \in PastTLS
    BY <2>1 DEF PastCA, PastTLS
  <2>. QED
    BY <1>3, <2>1, <2>2, <2>3, SMTT(30) DEF Quiet
<1>10. CASE ensureRemoteDeployment
  <2>1. /\ UNCHANGED <<objCache, issued>> /\ worker.pc = "deployment"
        /\ \/ Quits
           \/ /\ \/ obj' = obj
                 \/ \E want \in Object : obj' = [obj EXCEPT !["deployment"] = want]
              /\ worker'.ca = worker.ca /\ worker'.fp = worker.fp
    BY <1>0, <1>10, DeploymentEffect
  <2>2. worker.pc \in PastCA /\ worker.pc \in PastTLS
    BY <2>1 DEF PastCA, PastTLS
  <2>3. obj'["ca"] = obj["ca"] /\ obj'["tls"] = obj["tls"]
    BY <1>1, <1>2, <2>1 DEF Quits
  <2>4. worker' = Idle \/ (worker'.ca = worker.ca /\ worker'.fp = worker.fp)
    BY <2>1 DEF Quits
  <2>. QED
    BY <1>3, <2>1, <2>2, <2>3, <2>4 DEF Quiet
<1>11. CASE remoteMutatingWebhookConfigurationExists
  <2>1. /\ UNCHANGED <<obj, objCache, issued>> /\ worker.pc = "exists"
        /\ \/ worker' = Idle
           \/ worker'.ca = worker.ca /\ worker'.fp = worker.fp
    BY <1>0, <1>11, ExistsEffect
  <2>2. worker.pc \in PastCA /\ worker.pc \in PastTLS
    BY <2>1 DEF PastCA, PastTLS
  <2>. QED
    BY <1>3, <1>5, <2>1, <2>2
<1>12. CASE ensureRemoteMutatingWebhookConfiguration
  <2>1. /\ UNCHANGED <<objCache, issued>> /\ worker' = Idle
        /\ obj' = obj \/ \E want \in Object : obj' = [obj EXCEPT !["mwhc"] = want]
    BY <1>0, <1>12, AdmissionEffect
  <2>2. obj'["ca"] = obj["ca"] /\ obj'["tls"] = obj["tls"] /\ obj'["deployment"] = obj["deployment"]
    BY <1>1, <1>2, <2>1
  <2>. QED
    BY <1>3, <2>1, <2>2 DEF Quiet
<1>13. CASE ProbeForRemoval \/ deleteManagedRemoteWebhookRuntimeObject \/ apiError
  <2>1. /\ UNCHANGED <<objCache, issued>> /\ worker'.pc \in {"idle", "probe", "remove"}
        /\ \/ obj' = obj
           \/ Current \in Kinds /\ obj' = [obj EXCEPT ![Current] = NoObject]
    BY <1>0, <1>13, RemovalStepEffect
  <2>2. worker'.pc \notin PastCA /\ worker'.pc \notin PastTLS
    BY <2>1 DEF PastCA, PastTLS
  <2>3. \A k \in Kinds : obj'[k] = obj[k] \/ obj'[k] = NoObject
    BY <1>2, <2>1
  <2>. QED
    BY <1>1, <1>4, <2>1, <2>2, <2>3 DEF Quiet
<1>14. CASE \E k \in CachedKinds : SyncObject(k)
  <2>1. /\ UNCHANGED <<obj, issued, worker>>
        /\ \A c \in CachedKinds : \/ objCache'[c] = objCache[c]
                                  \/ objCache'[c] = NoObject
                                  \/ obj[c].owner = "managed" /\ objCache'[c] = obj[c]
    BY <1>0, <1>14, SyncEffect
  <2>. QED
    BY <1>1, <2>1 DEF Quiet
<1>15. CASE ObserveDeployment
  <2>1. /\ UNCHANGED <<objCache, issued, worker>>
        /\ \A k \in Kinds \ {"deployment"} : obj'[k] = obj[k]
        /\ obj'["deployment"].owner = obj["deployment"].owner
    BY <1>0, <1>15, ObserveEffect
  <2>. QED
    BY <1>1, <2>1 DEF Quiet
<1>16. CASE PodStep
  BY <1>5, <1>16 DEF PodStep
<1>17. CASE \E k \in Drifting : Drift(k)
  <2>1. PICK k \in Drifting : Drift(k)
    BY <1>17, SMTT(30)
  <2>2. /\ UNCHANGED <<objCache, issued, worker>> /\ obj[k].owner = "managed"
        /\ \A c \in Kinds \ {k} : obj'[c] = obj[c]
        /\ \/ obj'[k] = NoObject
           \/ /\ obj'[k].owner \in {"managed", "plain"}
              /\ obj'[k].id = obj[k].id /\ obj'[k].ca = obj[k].ca
    BY <1>0, <2>1, DriftEffect
  <2>. QED
    BY <1>1, <1>4, <2>2 DEF Quiet
<1>18. CASE HubStep
  BY <1>3, <1>5, <1>18 DEF HubStep
<1>. QED
  BY <1>0, <1>6, <1>7, <1>8, <1>9, <1>10, <1>11, <1>12, <1>13, <1>14, <1>15, <1>16, <1>17, <1>18,
     StepCases

\* The numbers of the certificates.
LEMMA Numbers ==
  ASSUME TypeOK
  PROVE  /\ issued.ca \in Nat /\ issued.tls \in Nat
         /\ \A k \in {"ca", "tls", "deployment"} :
              /\ obj[k].id \in Nat /\ obj[k].ca \in Nat
              /\ objCache[k].id \in Nat /\ objCache[k].ca \in Nat
              /\ objCache[k].owner \in {"none", "managed"}
         /\ worker.ca \in Nat /\ worker.fp \in Nat /\ pods.tmpl \in Nat
<1>1. /\ {"ca", "tls", "deployment"} \subseteq Kinds
      /\ {"ca", "tls", "deployment"} \subseteq CachedKinds
  BY DEF Kinds, CachedKinds
<1>2. issued.ca \in Certs /\ issued.tls \in Certs
  BY DEF TypeOK
<1>3. \A k \in {"ca", "tls", "deployment"} :
        /\ obj[k] \in Object /\ objCache[k] \in Object /\ objCache[k].owner \in {"none", "managed"}
  BY <1>1 DEF TypeOK
<1>4. \A o \in Object : o.id \in Certs /\ o.ca \in Certs
  BY DEF Object
<1>5. worker.ca \in Certs /\ worker.fp \in Certs
  BY DEF TypeOK, Pass
<1>6. pods.tmpl \in Certs
  BY DEF TypeOK, Pods
<1>7. Certs \subseteq Nat
  BY Constants
<1>. QED
  BY <1>2, <1>3, <1>4, <1>5, <1>6, <1>7, Zenon

\* There is one CA at a time.
LEMMA CAStep ==
  ASSUME IInv, Next
  PROVE  CAInv'
<1>0. TypeOK /\ CAInv
  BY DEF IInv
<1>1. /\ issued.ca \in Nat /\ objCache["ca"].id \in Nat
  BY <1>0, Numbers
<1>2. /\ obj["ca"].owner = "managed" => obj["ca"].id # 0
      /\ obj["ca"].id # 0 => obj["ca"].id = issued.ca
      /\ objCache["ca"].id <= issued.ca
      /\ reusableCASecret(objCache["ca"]) => objCache["ca"].id = issued.ca /\ issued.ca # 0
      /\ worker.pc \in PastCA => worker.ca = issued.ca /\ issued.ca # 0
  BY <1>0 DEF CAInv
<1>3. NoObject.owner = "none" /\ NoObject.id = 0
  BY Constants
<1>4. obj["ca"].id <= issued.ca
  BY <1>1, <1>2
<1>5. CASE Quiet
  <2>1. /\ issued' = issued
        /\ \/ obj'["ca"] = NoObject
           \/ /\ obj'["ca"].id = obj["ca"].id
              /\ \/ obj'["ca"].owner = obj["ca"].owner
                 \/ obj["ca"].owner = "managed" /\ obj'["ca"].owner = "plain"
        /\ \/ objCache'["ca"] = objCache["ca"]
           \/ objCache'["ca"] = NoObject
           \/ obj["ca"].owner = "managed" /\ objCache'["ca"] = obj["ca"]
        /\ worker'.pc \in PastCA => worker.pc \in PastCA /\ worker'.ca = worker.ca
    BY <1>5 DEF Quiet
  <2>2. /\ obj'["ca"].owner = "managed" => obj'["ca"].id # 0
        /\ obj'["ca"].id # 0 => obj'["ca"].id = issued'.ca
        /\ worker'.pc \in PastCA => worker'.ca = issued'.ca /\ issued'.ca # 0
    BY <1>2, <1>3, <2>1, SMTT(30)
  <2>3. objCache'["ca"].id <= issued'.ca
    BY <1>1, <1>2, <1>3, <1>4, <2>1, SMTT(30)
  <2>4. reusableCASecret(objCache'["ca"]) => objCache'["ca"].id = issued'.ca /\ issued'.ca # 0
    BY <1>2, <1>3, <2>1 DEF reusableCASecret
  <2>. QED
    BY <2>2, <2>3, <2>4, SMTT(30) DEF CAInv, reusableCASecret
<1>6. CASE ensureRemoteCASecret /\ ~Quits
  <2>1. objCache' = objCache
    BY <1>0, <1>6, CAEffect
  <2>2. CASE /\ UNCHANGED <<obj, issued>> /\ issued.ca # 0
             /\ worker'.pc = "tls" /\ worker'.ca = issued.ca
    BY <1>2, <2>1, <2>2 DEF CAInv, reusableCASecret
  <2>3. CASE /\ ~reusableCASecret(objCache["ca"])
             /\ issued'.ca = issued.ca + 1
             /\ obj' = [obj EXCEPT !["ca"] = generateWebhookCACertificate]
             /\ generateWebhookCACertificate.id = issued.ca + 1
             /\ worker'.ca = issued.ca + 1
    <3>1. obj'["ca"].id = issued.ca + 1
      <4>1. "ca" \in Kinds /\ obj \in [Kinds -> Object]
        BY <1>0 DEF TypeOK, Kinds
      <4>. QED
        BY <2>3, <4>1
    <3>2. issued'.ca # 0 /\ objCache'["ca"].id <= issued'.ca
      BY <1>1, <1>2, <2>1, <2>3
    <3>. QED
      BY <2>1, <2>3, <3>1, <3>2 DEF CAInv, reusableCASecret
  <2>. QED
    BY <1>0, <1>6, <2>2, <2>3, CAEffect
<1>7. CASE ensureRemoteServingTLSSecret /\ ~Quits
  <2>1. /\ objCache' = objCache /\ issued.ca # 0
        /\ issued'.ca = issued.ca /\ worker'.ca = issued.ca
        /\ obj' = obj \/ \E want \in Object : obj' = [obj EXCEPT !["tls"] = want]
    BY <1>0, <1>7, CertEffect DEF IInv
  <2>2. obj'["ca"] = obj["ca"]
    <3>1. "ca" \in Kinds /\ obj \in [Kinds -> Object]
      BY <1>0 DEF TypeOK, Kinds
    <3>. QED
      BY <2>1, <3>1
  <2>. QED
    BY <1>2, <2>1, <2>2 DEF CAInv, reusableCASecret
<1>. QED
  BY <1>5, <1>6, <1>7, QuietStep

\* Whoever has the last serving certificate has its CA.
LEMMA CertStep ==
  ASSUME IInv, Next
  PROVE  CertInv'
<1>0. TypeOK /\ CAInv /\ CertInv
  BY DEF IInv
<1>. DEFINE stored == obj["tls"]
            cached == objCache["tls"]
<1>1. /\ issued.ca \in Nat /\ issued.tls \in Nat
      /\ stored.id \in Nat /\ stored.ca \in Nat /\ cached.id \in Nat /\ cached.ca \in Nat
  BY <1>0, Numbers, SMTT(30)
<1>2. /\ stored.owner = "managed" => stored.id # 0
      /\ stored.owner = "none" => stored.id = 0
      /\ stored.id # 0 => stored.id = issued.tls /\ stored.ca \in 1 .. issued.ca
      /\ cached.id <= issued.tls /\ cached.ca <= issued.ca
      /\ cached.owner = "managed" => cached.id # 0
      /\ reusableServingTLSCert(cached, issued.ca) => cached.id = issued.tls
      /\ cached.id = stored.id /\ stored.id # 0 => cached.ca = stored.ca
      /\ worker.pc \in PastTLS =>
           /\ worker.fp = issued.tls /\ issued.tls # 0
           /\ stored.id = issued.tls => stored.ca = worker.ca
           /\ cached.id = issued.tls => cached.ca = worker.ca
  BY <1>0 DEF CertInv
<1>3. NoObject.owner = "none" /\ NoObject.id = 0 /\ NoObject.ca = 0
  BY Constants
<1>4. /\ worker.pc \in PastTLS => worker.pc \in PastCA
      /\ worker'.pc \in PastTLS => worker'.pc \in PastCA
  BY DEF PastCA
<1>5. "tls" \in Kinds /\ "ca" \in Kinds /\ obj \in [Kinds -> Object]
  BY <1>0 DEF TypeOK, Kinds
<1>6. CASE Quiet
  <2>1. /\ issued' = issued
        /\ \/ stored' = NoObject
           \/ /\ stored'.id = stored.id /\ stored'.ca = stored.ca
              /\ \/ stored'.owner = stored.owner
                 \/ stored.owner = "managed" /\ stored'.owner = "plain"
        /\ \/ cached' = cached
           \/ cached' = NoObject
           \/ stored' = stored /\ stored.owner = "managed" /\ cached' = stored
        /\ worker'.pc \in PastTLS => /\ worker.pc \in PastTLS /\ worker'.fp = worker.fp
                                     /\ worker'.ca = worker.ca
    BY <1>4, <1>6, SMTT(30) DEF Quiet
  <2>2. /\ stored'.owner = "managed" => stored'.id # 0
        /\ stored'.owner = "none" => stored'.id = 0
        /\ stored'.id # 0 => stored'.id = issued'.tls /\ stored'.ca \in 1 .. issued'.ca
    BY <1>2, <1>3, <2>1
  <2>3. stored.owner = "managed" => /\ stored.id # 0 /\ stored.id = issued.tls
                                    /\ stored.ca <= issued.ca
    <3>1. stored.owner = "managed" => /\ stored.id # 0 /\ stored.id = issued.tls
                                      /\ stored.ca \in 1 .. issued.ca
      BY <1>2
    <3>2. \A n \in 1 .. issued.ca : n <= issued.ca
      BY <1>1
    <3>. QED
      BY <3>1, <3>2, SMTT(30)
  <2>4. cached'.id <= issued'.tls /\ cached'.ca <= issued'.ca
    <3>1. CASE cached' = cached
      BY <1>2, <2>1, <3>1
    <3>2. CASE cached' = NoObject
      <4>1. 0 <= issued.tls /\ 0 <= issued.ca
        BY <1>1
      <4>. QED
        BY <1>3, <2>1, <3>2, <4>1
    <3>3. CASE stored.owner = "managed" /\ cached' = stored
      <4>1. issued.tls <= issued.tls
        BY <1>1, SMTT(30)
      <4>. QED
        BY <2>1, <2>3, <3>3, <4>1
    <3>. QED
      BY <2>1, <3>1, <3>2, <3>3
  <2>5. /\ cached'.owner = "managed" => cached'.id # 0
        /\ reusableServingTLSCert(cached', issued'.ca) => cached'.id = issued'.tls
    BY <1>2, <1>3, <2>1, <2>3, SMTT(30) DEF reusableServingTLSCert
  <2>6. cached'.id = stored'.id /\ stored'.id # 0 => cached'.ca = stored'.ca
    BY <1>2, <1>3, <2>1, SMTT(30)
  <2>7. worker'.pc \in PastTLS =>
           /\ worker'.fp = issued'.tls /\ issued'.tls # 0
           /\ stored'.id = issued'.tls => stored'.ca = worker'.ca
           /\ cached'.id = issued'.tls => cached'.ca = worker'.ca
    BY <1>2, <1>3, <2>1, SMTT(30)
  <2>. QED
    BY <2>2, <2>4, <2>5, <2>6, <2>7, SMTT(30) DEF CertInv, reusableServingTLSCert
<1>7. CASE ensureRemoteCASecret /\ ~Quits
  <2>1. /\ objCache' = objCache /\ issued'.tls = issued.tls /\ worker'.pc = "tls"
        /\ issued'.ca \in {issued.ca, issued.ca + 1}
        /\ obj' = obj \/ \E want \in Object : obj' = [obj EXCEPT !["ca"] = want]
    BY <1>0, <1>7, CAEffect
  <2>2. stored' = stored /\ cached' = cached /\ worker'.pc \notin PastTLS
    BY <1>5, <2>1 DEF PastTLS
  <2>3. /\ cached.ca <= issued'.ca /\ (stored.id # 0 => stored.ca \in 1 .. issued'.ca)
    <3>1. /\ cached.ca <= issued.ca /\ (stored.id # 0 => stored.ca \in 1 .. issued.ca)
          /\ issued'.ca \in {issued.ca, issued.ca + 1}
      BY <1>2, <2>1, SMTT(30)
    <3>. QED
      BY <1>1, <3>1
  <2>4. reusableServingTLSCert(cached, issued'.ca) => cached.id = issued.tls
    <3>1. issued'.ca = issued.ca + 1 => cached.ca # issued'.ca
      <4>1. cached.ca <= issued.ca
        BY <1>2
      <4>. QED
        BY <1>1, <4>1, SMTT(30)
    <3>. QED
      BY <1>2, <2>1, <3>1, SMTT(30) DEF reusableServingTLSCert
  <2>. QED
    BY <1>2, <2>1, <2>2, <2>3, <2>4 DEF CertInv, reusableServingTLSCert
<1>8. CASE ensureRemoteServingTLSSecret /\ ~Quits
  <2>1. /\ objCache' = objCache /\ issued.ca # 0
    BY <1>0, <1>8, CertEffect, SMTT(30)
  <2>2. CASE /\ UNCHANGED <<obj, issued>>
             /\ cached.id = issued.tls /\ issued.tls # 0 /\ cached.ca = issued.ca
             /\ worker'.ca = issued.ca /\ worker'.fp = issued.tls
    BY <1>2, <2>1, <2>2 DEF CertInv, reusableServingTLSCert
  <2>3. CASE /\ ~reusableServingTLSCert(cached, issued.ca)
             /\ issued'.ca = issued.ca /\ issued'.tls = issued.tls + 1
             /\ \E want \in Object : /\ obj' = [obj EXCEPT !["tls"] = want]
                                     /\ want.id = issued.tls + 1 /\ want.ca = issued.ca
                                     /\ want.owner = "managed"
             /\ worker'.ca = issued.ca /\ worker'.fp = issued.tls + 1
    <3>1. /\ stored'.id = issued.tls + 1 /\ stored'.ca = issued.ca /\ stored'.owner = "managed"
      BY <1>5, <2>3
    <3>2. /\ issued'.tls # 0 /\ cached.id <= issued'.tls /\ cached.id # issued'.tls
          /\ issued.ca \in 1 .. issued.ca
      <4>1. cached.id <= issued.tls /\ issued'.tls = issued.tls + 1
        BY <1>2, <2>3
      <4>2. issued'.tls # 0 /\ cached.id <= issued'.tls /\ cached.id # issued'.tls
        BY <1>1, <4>1
      <4>3. issued.ca \in 1 .. issued.ca
        BY <1>1, <2>1
      <4>. QED
        BY <4>2, <4>3, SMTT(30)
    <3>. QED
      BY <1>2, <2>1, <2>3, <3>1, <3>2, ZenonT(30) DEF CertInv, reusableServingTLSCert
  <2>4. generateWebhookServingCertificate(issued.ca).owner = "managed"
    BY DEF generateWebhookServingCertificate, Managed, NoObject
  <2>. QED
    BY <1>0, <1>8, <2>2, <2>3, <2>4, CertEffect, ZenonT(30)
<1>. QED
  BY <1>6, <1>7, <1>8, QuietStep

\* No pass gets past a Secret of someone else under the certificate's name.
LEMMA SquatStep ==
  ASSUME IInv, Next
  PROVE  SquatInv'
<1>0. TypeOK /\ CAInv /\ CertInv /\ SquatInv
  BY DEF IInv
<1>1. "tls" \in Kinds /\ "ca" \in Kinds /\ "deployment" \in Kinds /\ obj \in [Kinds -> Object]
  BY <1>0 DEF TypeOK, Kinds
<1>2. NoObject.owner = "none"
  BY Constants
<1>3. CASE Quiet
  BY <1>0, <1>2, <1>3 DEF Quiet, SquatInv
<1>4. CASE ensureRemoteCASecret /\ ~Quits
  <2>1. /\ worker'.pc = "tls"
        /\ obj' = obj \/ \E want \in Object : obj' = [obj EXCEPT !["ca"] = want]
    BY <1>0, <1>4, CAEffect
  <2>2. obj'["tls"] = obj["tls"] /\ obj'["deployment"] = obj["deployment"]
    BY <1>1, <2>1, SMTT(30)
  <2>. QED
    BY <1>0, <2>1, <2>2 DEF SquatInv, PastTLS
<1>5. CASE ensureRemoteServingTLSSecret /\ ~Quits
  <2>1. CASE obj' = obj /\ obj["tls"].owner # "plain"
    <3>1. obj["tls"].owner \in {"none", "managed", "plain"}
      BY <1>1 DEF Object
    <3>. QED
      BY <1>0, <2>1, <3>1 DEF CertInv, SquatInv
  <2>2. CASE \E want \in Object : obj' = [obj EXCEPT !["tls"] = want] /\ want.id = issued.tls + 1
    <3>1. obj'["tls"].id = issued.tls + 1 /\ issued.tls \in Nat
      BY <1>0, <1>1, <2>2, Numbers
    <3>2. obj'["tls"].id # 0
      BY <3>1
    <3>. QED
      BY <3>2 DEF SquatInv
  <2>. QED
    BY <1>0, <1>5, <2>1, <2>2, CertEffect, SMTT(30)
<1>. QED
  BY <1>3, <1>4, <1>5, QuietStep

\* A removal takes the admission configuration first; only a pass that installs the
\* runtime makes it again.
LEMMA RemovalStep ==
  ASSUME IInv, Next
  PROVE  RemovalInv'
<1>0. TypeOK /\ CAInv /\ CertInv /\ RemovalInv
  BY DEF IInv
<1>1. "tls" \in Kinds /\ "ca" \in Kinds /\ "deployment" \in Kinds /\ "mwhc" \in Kinds
  BY DEF Kinds
<1>2. Idle.pc = "idle" /\ NoObject.owner = "none"
  BY Constants
<1>3. ASSUME worker'.pc \notin {"probe", "remove"}
      PROVE  RemovalInv'
  BY <1>3 DEF RemovalInv
<1>4. ASSUME worker' = worker, obj'["mwhc"].owner = "managed" => obj["mwhc"].owner = "managed"
      PROVE  RemovalInv'
  BY <1>0, <1>4 DEF RemovalInv
<1>5. CASE reconcileSelfHostedWebhookRuntime \/ deleteRemoteWebhookRuntimeStrict
  <2>1. worker'.pc = "probe" => worker'.todo = {"mwhc"}
    BY <1>0, <1>5, BeginEffect
  <2>2. worker'.pc \in {"idle", "ca", "probe"}
    BY <1>0, <1>5, BeginEffect
  <2>. QED
    BY <2>1, <2>2 DEF RemovalInv
<1>6. CASE ensureRemoteCASecret
  <2>1. worker'.pc \in {"idle", "tls"}
    BY <1>0, <1>2, <1>6, CAEffect DEF Quits
  <2>. QED
    BY <1>3, <2>1
<1>7. CASE ensureRemoteServingTLSSecret
  <2>1. worker'.pc \in {"idle", "support"}
    BY <1>0, <1>2, <1>7, CertEffect DEF Quits
  <2>. QED
    BY <1>3, <2>1
<1>8. CASE applyRemoteSupportingResources
  <2>1. worker'.pc \in {"idle", "deployment"}
    BY <1>0, <1>2, <1>8, SupportEffect
  <2>. QED
    BY <1>3, <2>1
<1>9. CASE ensureRemoteDeployment
  <2>1. worker'.pc \in {"idle", "exists", "mwhc"}
    BY <1>0, <1>2, <1>9, DeploymentEffect DEF Quits
  <2>. QED
    BY <1>3, <2>1
<1>10. CASE remoteMutatingWebhookConfigurationExists
  <2>1. worker'.pc \in {"idle", "mwhc"}
    BY <1>0, <1>2, <1>10, ExistsEffect
  <2>. QED
    BY <1>3, <2>1
<1>11. CASE ensureRemoteMutatingWebhookConfiguration
  <2>1. worker'.pc = "idle"
    BY <1>0, <1>2, <1>11, AdmissionEffect
  <2>. QED
    BY <1>3, <2>1
<1>12. CASE ProbeForRemoval \/ deleteManagedRemoteWebhookRuntimeObject \/ apiError
  BY <1>0, <1>12, RemovalStepEffect DEF RemovalInv
<1>13. CASE \E k \in CachedKinds : SyncObject(k)
  <2>1. UNCHANGED <<obj, worker>>
    BY <1>0, <1>13, SyncEffect
  <2>. QED
    BY <1>4, <2>1
<1>14. CASE ObserveDeployment
  <2>1. worker' = worker /\ obj'["mwhc"] = obj["mwhc"]
    BY <1>0, <1>1, <1>14, ObserveEffect
  <2>. QED
    BY <1>4, <2>1
<1>15. CASE PodStep
  BY <1>4, <1>15 DEF PodStep
<1>16. CASE \E k \in Drifting : Drift(k)
  <2>1. PICK k \in Drifting : Drift(k)
    BY <1>16
  <2>2. /\ worker' = worker /\ obj[k].owner = "managed"
        /\ \A c \in Kinds \ {k} : obj'[c] = obj[c]
    BY <1>0, <2>1, DriftEffect
  <2>3. obj'["mwhc"].owner = "managed" => obj["mwhc"].owner = "managed"
    BY <1>1, <2>2
  <2>. QED
    BY <1>4, <2>2, <2>3
<1>17. CASE HubStep
  BY <1>2, <1>3, <1>4, <1>17 DEF HubStep
<1>. QED
  BY <1>0, <1>5, <1>6, <1>7, <1>8, <1>9, <1>10, <1>11, <1>12, <1>13, <1>14, <1>15, <1>16, <1>17,
     StepCases

----------------------------------------------------------------------------
(* Pods behind the admission configuration.                                *)

\* What pods have served with is not forgotten.
LEMMA ServedGrows ==
  ASSUME IInv, Next
  PROVE  served \subseteq served'
<1>0. TypeOK /\ CAInv /\ CertInv /\ RemovalInv
  BY DEF IInv
<1>1. CASE reconcileSelfHostedWebhookRuntime \/ deleteRemoteWebhookRuntimeStrict
  BY <1>0, <1>1, BeginEffect DEF remoteVars
<1>2. CASE ensureRemoteCASecret
  BY <1>0, <1>2, CAEffect DEF remoteVars
<1>3. CASE ensureRemoteServingTLSSecret
  BY <1>0, <1>3, CertEffect DEF remoteVars
<1>4. CASE applyRemoteSupportingResources
  BY <1>0, <1>4, SupportEffect DEF remoteVars
<1>5. CASE ensureRemoteDeployment
  BY <1>0, <1>5, DeploymentEffect DEF remoteVars
<1>6. CASE remoteMutatingWebhookConfigurationExists
  BY <1>0, <1>6, ExistsEffect DEF remoteVars
<1>7. CASE ensureRemoteMutatingWebhookConfiguration
  BY <1>0, <1>7, AdmissionEffect DEF remoteVars
<1>8. CASE ProbeForRemoval \/ deleteManagedRemoteWebhookRuntimeObject \/ apiError
  BY <1>0, <1>8, RemovalStepEffect DEF remoteVars
<1>9. CASE \E k \in CachedKinds : SyncObject(k)
  BY <1>0, <1>9, SyncEffect DEF remoteVars
<1>10. CASE ObserveDeployment
  BY <1>0, <1>10, ObserveEffect DEF remoteVars
<1>11. CASE PodStep
  BY <1>11 DEF PodStep
<1>12. CASE \E k \in Drifting : Drift(k)
  BY <1>0, <1>12, DriftEffect DEF remoteVars
<1>13. CASE HubStep
  BY <1>13 DEF HubStep
<1>. QED
  BY <1>0, <1>1, <1>2, <1>3, <1>4, <1>5, <1>6, <1>7, <1>8, <1>9, <1>10, <1>11, <1>12, <1>13,
     StepCases

\* A certificate that pods have shown stays shown as long as it is the last one.
LEMMA BackedKept ==
  ASSUME IInv, Next, issued'.tls = issued.tls, issued.tls # 0, Backed
  PROVE  Backed'
<1>0. TypeOK /\ CAInv /\ CertInv
  BY DEF IInv
<1>1. served \subseteq served'
  BY ServedGrows
<1>2. /\ obj["tls"].id = issued.tls => obj["tls"].ca \in served'
      /\ objCache["tls"].id = issued.tls => objCache["tls"].ca \in served'
      /\ worker.pc \in PastTLS => worker.ca \in served'
  BY <1>1 DEF Backed
<1>3. NoObject.id = 0
  BY Constants
<1>4. "tls" \in Kinds /\ "ca" \in Kinds /\ obj \in [Kinds -> Object]
  BY <1>0 DEF TypeOK, Kinds
<1>5. CASE Quiet
  <2>1. /\ \/ obj'["tls"] = NoObject
           \/ obj'["tls"].id = obj["tls"].id /\ obj'["tls"].ca = obj["tls"].ca
        /\ \/ objCache'["tls"] = objCache["tls"]
           \/ objCache'["tls"] = NoObject
           \/ objCache'["tls"] = obj["tls"]
    BY <1>5 DEF Quiet
  <2>2. worker'.pc \in PastTLS => worker.pc \in PastTLS /\ worker'.ca = worker.ca
    BY <1>5 DEF Quiet, PastCA
  <2>3. obj'["tls"].id = issued'.tls => obj'["tls"].ca \in served'
    BY <1>2, <1>3, <2>1
  <2>4. objCache'["tls"].id = issued'.tls => objCache'["tls"].ca \in served'
    BY <1>2, <1>3, <2>1
  <2>. QED
    BY <1>2, <2>2, <2>3, <2>4 DEF Backed
<1>6. CASE ensureRemoteCASecret /\ ~Quits
  <2>1. /\ objCache' = objCache /\ worker'.pc = "tls"
        /\ obj' = obj \/ \E want \in Object : obj' = [obj EXCEPT !["ca"] = want]
    BY <1>0, <1>6, CAEffect
  <2>2. obj'["tls"] = obj["tls"] /\ worker'.pc \notin PastTLS
    BY <1>4, <2>1 DEF PastTLS
  <2>. QED
    BY <1>2, <2>1, <2>2 DEF Backed
<1>7. CASE ensureRemoteServingTLSSecret /\ ~Quits
  <2>1. issued'.tls # issued.tls + 1
    BY <1>0, Numbers
  <2>2. /\ UNCHANGED <<obj, objCache>>
        /\ objCache["tls"].id = issued.tls /\ objCache["tls"].ca = issued.ca
        /\ worker'.ca = issued.ca
    BY <1>0, <1>7, <2>1, CertEffect
  <2>. QED
    BY <1>2, <2>2 DEF Backed
<1>. QED
  BY <1>5, <1>6, <1>7, QuietStep

\* A Deployment that reports its pods on the last template is backed by them.
LEMMA BackedStep ==
  ASSUME IInv, Next
  PROVE  BackedInv'
<1>0. TypeOK /\ CAInv /\ CertInv /\ SquatInv /\ BackedInv /\ RemovalInv
  BY DEF IInv
<1>. DEFINE Shown(d) == issued.tls # 0 /\ d.obs /\ d.upd /\ d.id = issued.tls => Backed
<1>1. /\ issued.tls \in Nat /\ obj["deployment"].id \in Nat /\ objCache["deployment"].id \in Nat
      /\ pods.tmpl \in Nat /\ worker.fp \in Nat
  BY <1>0, Numbers, SMTT(30)
<1>2. /\ pods.tmpl <= issued.tls
      /\ obj["deployment"].id <= issued.tls /\ objCache["deployment"].id <= issued.tls
      /\ issued.tls # 0 /\ pods.up /\ pods.tmpl = issued.tls => Backed
      /\ Shown(obj["deployment"]) /\ Shown(objCache["deployment"])
      /\ worker.pc = "exists" => ~worker.ready
      /\ worker.pc = "mwhc" /\ worker.ready => worker.ca \in served
  BY <1>0 DEF BackedInv
<1>3. NoObject.id = 0 /\ ~NoObject.obs /\ NoObject.id <= issued.tls /\ Shown(NoObject)
  BY <1>1, Constants
<1>4. /\ "tls" \in Kinds /\ "ca" \in Kinds /\ "deployment" \in Kinds /\ "mwhc" \in Kinds
      /\ "deployment" \in CachedKinds /\ obj \in [Kinds -> Object]
  BY <1>0 DEF TypeOK, Kinds, CachedKinds
<1>5. Idle.pc = "idle" /\ ~NoPods.up /\ NoPods.tmpl = 0
  BY Constants DEF NoPods
<1>6. served \subseteq served'
  BY ServedGrows, SMTT(30)
<1>7. ASSUME issued'.tls = issued.tls,
             pods' = pods \/ pods' = NoPods,
             obj'["deployment"].id <= issued.tls, objCache'["deployment"].id <= issued.tls,
             Shown(obj'["deployment"]), Shown(objCache'["deployment"]),
             \/ worker'.pc \notin {"exists", "mwhc"}
             \/ worker' = worker
             \/ /\ worker'.pc = "exists" => ~worker'.ready
                /\ worker'.pc = "mwhc" /\ worker'.ready => worker'.ca \in served'
      PROVE  BackedInv'
  <2>1. issued.tls # 0 /\ Backed => Backed'
    BY <1>7, BackedKept
  <2>2. pods'.tmpl <= issued'.tls /\ (pods'.up => pods' = pods)
    BY <1>1, <1>2, <1>5, <1>7, SMTT(30)
  <2>3. /\ worker'.pc = "exists" => ~worker'.ready
        /\ worker'.pc = "mwhc" /\ worker'.ready => worker'.ca \in served'
    BY <1>2, <1>6, <1>7
  <2>4. issued'.tls # 0 =>
          /\ pods'.up /\ pods'.tmpl = issued'.tls => Backed'
          /\ \A d \in {obj'["deployment"], objCache'["deployment"]} :
               d.obs /\ d.upd /\ d.id = issued'.tls => Backed'
    BY <1>2, <1>7, <2>1, <2>2, SMTT(30)
  <2>. QED
    BY <1>7, <2>2, <2>3, <2>4 DEF BackedInv
<1>. HIDE DEF Shown
<1>8. ASSUME issued'.tls = issued.tls, pods' = pods, objCache' = objCache,
             obj'["deployment"] = obj["deployment"] \/ obj'["deployment"] = NoObject,
             \/ worker'.pc \notin {"exists", "mwhc"}
             \/ worker' = worker
             \/ worker'.ready = worker.ready /\ worker.pc = "exists"
      PROVE  BackedInv'
  BY <1>2, <1>3, <1>7, <1>8
<1>9. CASE reconcileSelfHostedWebhookRuntime \/ deleteRemoteWebhookRuntimeStrict
  <2>1. UNCHANGED <<remoteVars, obj, objCache, issued>> /\ worker'.pc \in {"idle", "ca", "probe"}
    BY <1>0, <1>9, BeginEffect
  <2>. QED
    BY <1>8, <2>1 DEF remoteVars
<1>10. CASE ensureRemoteCASecret
  <2>1. /\ UNCHANGED <<remoteVars, objCache>> /\ issued'.tls = issued.tls
        /\ worker'.pc \in {"idle", "tls"}
        /\ obj' = obj \/ \E want \in Object : obj' = [obj EXCEPT !["ca"] = want]
    BY <1>0, <1>5, <1>10, CAEffect DEF Quits
  <2>2. obj'["deployment"] = obj["deployment"]
    BY <1>4, <2>1
  <2>. QED
    BY <1>8, <2>1, <2>2 DEF remoteVars
<1>11. CASE ensureRemoteServingTLSSecret
  <2>1. /\ UNCHANGED <<remoteVars, objCache>>
        /\ worker'.pc \in {"idle", "support"}
        /\ obj' = obj \/ \E want \in Object : obj' = [obj EXCEPT !["tls"] = want]
        /\ issued'.tls \in {issued.tls, issued.tls + 1}
    BY <1>0, <1>5, <1>11, CertEffect DEF Quits
  <2>2. obj'["deployment"] = obj["deployment"]
    BY <1>4, <2>1
  <2>3. CASE issued'.tls = issued.tls
    BY <1>8, <2>1, <2>2, <2>3 DEF remoteVars
  <2>4. CASE issued'.tls = issued.tls + 1
    <3>1. \A n \in Nat : n <= issued.tls => n <= issued'.tls /\ n # issued'.tls
      BY <1>1, <2>4, SMTT(30)
    <3>2. /\ pods.tmpl <= issued'.tls /\ pods.tmpl # issued'.tls
          /\ obj["deployment"].id <= issued'.tls /\ obj["deployment"].id # issued'.tls
          /\ objCache["deployment"].id <= issued'.tls /\ objCache["deployment"].id # issued'.tls
      BY <1>1, <1>2, <3>1
    <3>. QED
      BY <2>1, <2>2, <3>2 DEF BackedInv, remoteVars
  <2>. QED
    BY <2>1, <2>3, <2>4
<1>12. CASE applyRemoteSupportingResources
  <2>1. /\ UNCHANGED <<remoteVars, objCache, issued>> /\ worker'.pc \in {"idle", "deployment"}
        /\ \A k \in Kinds : obj'[k] = obj[k] \/ k \in Supporting
    BY <1>0, <1>5, <1>12, SupportEffect
  <2>2. obj'["deployment"] = obj["deployment"]
    BY <1>4, <2>1 DEF Supporting
  <2>. QED
    BY <1>8, <2>1, <2>2 DEF remoteVars
<1>13. CASE ensureRemoteDeployment
  <2>. DEFINE cached == objCache["deployment"]
  <2>1. UNCHANGED <<remoteVars, objCache, issued>> /\ worker.pc = "deployment"
    BY <1>0, <1>13, DeploymentEffect
  <2>2. worker.fp = issued.tls /\ issued.tls # 0
    BY <1>0, <2>1 DEF CertInv, PastTLS
  <2>3. Backed => worker.ca \in served
    BY <2>1 DEF Backed, PastTLS
  <2>4. CASE Quits
    BY <1>5, <1>8, <2>1, <2>4, SMTT(30) DEF Quits, remoteVars
  <2>5. CASE /\ \/ obj' = obj
                \/ \E want \in Object :
                     /\ obj' = [obj EXCEPT !["deployment"] = want]
                     /\ want.id = worker.fp
                     /\ want.obs => cached.obs /\ cached.id = worker.fp
                     /\ want.upd = cached.upd
             /\ worker'.ca = worker.ca
             /\ worker'.pc = "exists" => ~worker'.ready
             /\ worker'.ready => cached.obs /\ cached.upd /\ cached.id = worker.fp
    <3>1. obj'["deployment"].id <= issued.tls /\ Shown(obj'["deployment"])
      <4>1. CASE obj' = obj
        BY <1>2, <4>1
      <4>2. CASE \E want \in Object :
                   /\ obj' = [obj EXCEPT !["deployment"] = want]
                   /\ want.id = worker.fp
                   /\ want.obs => cached.obs /\ cached.id = worker.fp
                   /\ want.upd = cached.upd
        <5>1. /\ obj'["deployment"].id = worker.fp
              /\ obj'["deployment"].obs => cached.obs /\ cached.id = worker.fp
              /\ obj'["deployment"].upd = cached.upd
          BY <1>4, <4>2
        <5>2. obj'["deployment"].id <= issued.tls
          BY <1>1, <2>2, <5>1, SMTT(30)
        <5>. QED
          BY <1>2, <2>2, <5>1, <5>2 DEF Shown
      <4>. QED
        BY <2>5, <4>1, <4>2
    <3>2. worker'.ready => worker'.ca \in served'
      BY <1>2, <1>6, <2>2, <2>3, <2>5 DEF Shown
    <3>. QED
      BY <1>2, <1>7, <2>1, <2>5, <3>1, <3>2 DEF remoteVars
  <2>. QED
    BY <1>0, <1>13, <2>4, <2>5, DeploymentEffect
<1>14. CASE remoteMutatingWebhookConfigurationExists
  <2>1. /\ UNCHANGED <<remoteVars, obj, objCache, issued>> /\ worker.pc = "exists"
        /\ worker' = Idle \/ worker'.ready = worker.ready
    BY <1>0, <1>14, ExistsEffect
  <2>. QED
    BY <1>5, <1>8, <2>1 DEF remoteVars
<1>15. CASE ensureRemoteMutatingWebhookConfiguration
  <2>1. /\ UNCHANGED <<remoteVars, objCache, issued>> /\ worker' = Idle
        /\ obj' = obj \/ \E want \in Object : obj' = [obj EXCEPT !["mwhc"] = want]
    BY <1>0, <1>15, AdmissionEffect
  <2>2. obj'["deployment"] = obj["deployment"]
    BY <1>4, <2>1
  <2>. QED
    BY <1>5, <1>8, <2>1, <2>2 DEF remoteVars
<1>16. CASE ProbeForRemoval \/ deleteManagedRemoteWebhookRuntimeObject \/ apiError
  <2>1. /\ UNCHANGED <<remoteVars, objCache, issued>>
        /\ worker'.pc \in {"idle", "probe", "remove"}
        /\ \/ obj' = obj
           \/ Current \in Kinds /\ obj' = [obj EXCEPT ![Current] = NoObject]
    BY <1>0, <1>16, RemovalStepEffect
  <2>2. obj'["deployment"] = obj["deployment"] \/ obj'["deployment"] = NoObject
    BY <1>4, <2>1, SMTT(30)
  <2>. QED
    BY <1>8, <2>1, <2>2 DEF remoteVars
<1>17. CASE \E k \in CachedKinds : SyncObject(k)
  <2>1. /\ UNCHANGED <<remoteVars, obj, issued, worker>>
        /\ \/ objCache'["deployment"] = objCache["deployment"]
           \/ objCache'["deployment"] = NoObject
           \/ objCache'["deployment"] = obj["deployment"]
    BY <1>0, <1>4, <1>17, SyncEffect, SMTT(30)
  <2>. QED
    BY <1>2, <1>3, <1>7, <2>1, SMTT(30) DEF remoteVars
<1>18. CASE ObserveDeployment
  <2>1. /\ UNCHANGED <<remoteVars, objCache, issued, worker>>
        /\ obj'["deployment"].id = obj["deployment"].id
        /\ obj'["deployment"].upd = (pods.up /\ pods.tmpl = obj["deployment"].id)
    BY <1>0, <1>18, ObserveEffect
  <2>2. Shown(obj'["deployment"])
    BY <1>2, <2>1, ZenonT(30) DEF Shown
  <2>. QED
    BY <1>2, <1>7, <2>1, <2>2, SMTT(30) DEF remoteVars
<1>19. CASE PodStep
  <2>1. UNCHANGED <<obj, objCache, issued, worker>>
    BY <1>19 DEF PodStep
  <2>2. CASE pods' = NoPods
    BY <1>2, <1>7, <2>1, <2>2, SMTT(30)
  <2>3. CASE /\ pods'.tmpl = obj["deployment"].id
             /\ obj["deployment"].owner # "none" /\ obj["tls"].owner # "none"
             /\ served' = served \cup {obj["tls"].ca}
    <3>1. obj["tls"].id # 0
      BY <1>0, <2>3, SMTT(30) DEF SquatInv
    <3>2. obj["tls"].id = issued.tls
      BY <1>0, <3>1, SMTT(30) DEF CertInv
    <3>3. /\ objCache["tls"].id = issued.tls => objCache["tls"].ca = obj["tls"].ca
          /\ worker.pc \in PastTLS => worker.ca = obj["tls"].ca
      BY <1>0, <3>1, <3>2, SMTT(30) DEF CertInv
    <3>4. Backed'
      BY <2>1, <2>3, <3>3 DEF Backed
    <3>5. worker'.pc = "mwhc" /\ worker'.ready => worker'.ca \in served'
      BY <1>2, <1>6, <2>1, SMTT(30)
    <3>. QED
      BY <1>2, <2>1, <2>3, <3>4, <3>5 DEF BackedInv
  <2>. QED
    BY <1>19, <2>2, <2>3 DEF PodStep
<1>20. CASE \E k \in Drifting : Drift(k)
  <2>1. PICK k \in Drifting : Drift(k)
    BY <1>20
  <2>2. /\ UNCHANGED <<remoteVars, objCache, issued, worker>>
        /\ \A c \in Kinds \ {k} : obj'[c] = obj[c]
        /\ \/ obj'[k] = NoObject
           \/ /\ obj'[k].id = obj[k].id
              /\ obj'[k].obs = obj[k].obs /\ obj'[k].upd = obj[k].upd
    BY <1>0, <2>1, DriftEffect
  <2>3. \/ obj'["deployment"] = NoObject
        \/ /\ obj'["deployment"].id = obj["deployment"].id
           /\ obj'["deployment"].obs = obj["deployment"].obs
           /\ obj'["deployment"].upd = obj["deployment"].upd
    BY <1>4, <2>2
  <2>4. obj'["deployment"].id <= issued.tls /\ Shown(obj'["deployment"])
    BY <1>2, <1>3, <2>3, Zenon DEF Shown
  <2>. QED
    BY <1>2, <1>7, <2>2, <2>4, SMTT(30) DEF remoteVars
<1>21. CASE HubStep
  <2>1. UNCHANGED <<pods, obj, objCache, issued>> /\ worker' \in {worker, Idle}
    BY <1>21 DEF HubStep
  <2>. QED
    BY <1>5, <1>8, <2>1
<1>. QED
  BY <1>0, <1>9, <1>10, <1>11, <1>12, <1>13, <1>14, <1>15, <1>16, <1>17, <1>18, <1>19, <1>20,
     <1>21, StepCases

----------------------------------------------------------------------------
(* Theorems.                                                               *)

\* The initial states, with or without an object of someone else.
LEMMA InitInv ==
  ASSUME Init
  PROVE  IInv
<1>1. /\ config = FirstConfig /\ configCache = FirstConfig
      /\ status = [runtime |-> "none", blocked |-> FALSE]
      /\ namespace = FALSE
      /\ objCache = [k \in CachedKinds |-> NoObject]
      /\ issued = [ca |-> 0, tls |-> 0]
      /\ pods = NoPods /\ served = {}
      /\ inventory = "ready"
      /\ worker = Idle /\ changes = 0
  BY DEF Init
<1>2. PICK strange \in {{}} \cup {{k} : k \in Strangers} :
        obj = [k \in Kinds |-> IF k \in strange THEN Plain ELSE NoObject]
  BY SMTT(30) DEF Init
<1>3. \A k \in Kinds : obj[k] = Plain \/ obj[k] = NoObject
  BY <1>2
<1>4. obj \in [Kinds -> Object]
  BY <1>2, Constants
<1>5. "tls" \in strange => "deployment" \notin strange
  BY <1>2
<1>6. /\ {"ca", "tls", "deployment", "mwhc"} \subseteq Kinds
      /\ {"ca", "tls", "deployment", "mwhc"} \subseteq CachedKinds
  BY DEF Kinds, CachedKinds
<1>7. /\ objCache["ca"] = NoObject /\ objCache["tls"] = NoObject /\ objCache["deployment"] = NoObject
  BY <1>1, <1>6, SMTT(30)
<1>8. /\ issued.ca = 0 /\ issued.tls = 0 /\ pods.up = FALSE /\ pods.tmpl = 0
      /\ worker.pc = "idle"
  BY <1>1, Constants, SMTT(30) DEF NoPods
<1>9. \A k \in Kinds : obj[k].id = 0 /\ obj[k].owner # "managed"
  BY <1>3, Constants
<1>10. TypeOK
  <2>1. objCache \in [CachedKinds -> Object] /\ \A k \in CachedKinds : objCache[k].owner = "none"
    BY <1>1, Constants, SMTT(30)
  <2>2. pods \in Pods /\ issued \in [ca : Certs, tls : Certs] /\ status \in Status
    BY <1>1, Constants DEF NoPods, Pods, Status
  <2>3. worker \in Pass /\ worker.ca <= issued.ca /\ worker.fp <= issued.tls
    <3>1. worker \in Pass /\ worker.ca = 0 /\ worker.fp = 0
      BY <1>1, Constants
    <3>2. issued.ca = 0 /\ issued.tls = 0
      BY <1>8, SMTT(30)
    <3>. QED
      BY <3>1, <3>2
  <2>4. config \in Config /\ configCache \in Config
    BY <1>1, Constants
  <2>5. changes \in 0 .. MaxChanges
    BY <1>1, WebhookAssumption
  <2>. QED
    BY <1>1, <1>4, <2>1, <2>2, <2>3, <2>4, <2>5, ZenonT(30) DEF TypeOK
<1>11. CAInv
  <2>1. objCache["ca"].owner = "none" /\ objCache["ca"].id = 0
    BY <1>7, Constants
  <2>2. obj["ca"].id = 0 /\ obj["ca"].owner # "managed"
    BY <1>6, <1>9
  <2>3. objCache["ca"].id <= issued.ca
    <3>1. objCache["ca"].id = 0 /\ issued.ca = 0
      BY <1>8, <2>1
    <3>. QED
      BY <3>1
  <2>4. worker.pc \notin PastCA
    BY <1>8 DEF PastCA, PastTLS
  <2>. QED
    BY <2>1, <2>2, <2>3, <2>4, SMTT(30) DEF CAInv, reusableCASecret
<1>12. CertInv
  <2>1. objCache["tls"].owner = "none" /\ objCache["tls"].id = 0 /\ objCache["tls"].ca = 0
    BY <1>7, Constants
  <2>2. obj["tls"].id = 0 /\ obj["tls"].owner # "managed"
    BY <1>6, <1>9
  <2>3. objCache["tls"].id <= issued.tls /\ objCache["tls"].ca <= issued.ca
    <3>1. objCache["tls"].id = 0 /\ objCache["tls"].ca = 0 /\ issued.ca = 0 /\ issued.tls = 0
      BY <1>8, <2>1
    <3>. QED
      BY <3>1
  <2>4. worker.pc \notin PastTLS
    BY <1>8 DEF PastTLS
  <2>. QED
    BY <2>1, <2>2, <2>3, <2>4, SMTT(30) DEF CertInv, reusableServingTLSCert
<1>13. SquatInv
  <2>1. obj["tls"].owner # "none" => "tls" \in strange
    BY <1>2, <1>6, Constants
  <2>2. "deployment" \notin strange => obj["deployment"].owner = "none"
    BY <1>2, <1>6, Constants
  <2>. QED
    BY <1>5, <1>8, <2>1, <2>2 DEF SquatInv, PastTLS
<1>14. BackedInv
  <2>1. objCache["deployment"].id = 0 /\ obj["deployment"].id = 0
    BY <1>6, <1>7, <1>9, Constants
  <2>2. pods.tmpl = 0 /\ issued.tls = 0 /\ worker.pc = "idle"
    BY <1>8
  <2>. QED
    BY <2>1, <2>2 DEF BackedInv
<1>15. RemovalInv
  BY <1>8 DEF RemovalInv
<1>. QED
  BY <1>10, <1>11, <1>12, <1>13, <1>14, <1>15, SMTT(30) DEF IInv

\* The invariant depends on the variables only.
LEMMA StutterInv ==
  ASSUME IInv, UNCHANGED vars
  PROVE  IInv'
<1>. USE DEF vars
<1>1. TypeOK'
  BY DEF IInv, TypeOK
<1>2. CAInv'
  BY SMTT(30) DEF IInv, CAInv
<1>3. CertInv'
  BY DEF IInv, CertInv
<1>4. SquatInv'
  BY DEF IInv, SquatInv
<1>5. Backed' <=> Backed
  BY DEF Backed
<1>6. BackedInv'
  BY <1>5 DEF IInv, BackedInv
<1>7. RemovalInv'
  BY DEF IInv, RemovalInv
<1>. QED
  BY <1>1, <1>2, <1>3, <1>4, <1>6, <1>7 DEF IInv

\* The invariant is inductive.
THEOREM Invariance == Spec => []IInv
<1>1. Init => IInv
  BY InitInv
<1>2. IInv /\ [Next]_vars => IInv'
  <2>1. IInv /\ Next => IInv'
    BY TypeStep, CAStep, CertStep, SquatStep, BackedStep, RemovalStep DEF IInv
  <2>. QED
    BY <2>1, StutterInv
<1>. QED
  BY <1>1, <1>2, PTL DEF Spec

\* Every variable has its type, the remote cache shows objects with the operator's labels
\* only, and no pass works with a certificate that was not stored
\* (ensureRemoteCASecret, ensureRemoteServingTLSSecret).
THEOREM TypeCorrect == Spec => []TypeOK
<1>1. IInv => TypeOK
  BY DEF IInv
<1>. QED
  BY <1>1, Invariance, PTL

\* finishRemoteWebhookAdmission creates the admission configuration for a ready runtime
\* only with a CA that pods have served with, and deleteRemoteWebhookRuntime removes what
\* is behind it only when it is gone.
THEOREM AdmissionIsBacked == Spec => AdmissionBacked
<1>. DEFINE A == /\ obj["mwhc"].owner = "none" /\ obj'["mwhc"].owner = "managed" /\ worker.ready
                       => obj'["mwhc"].ca \in served
                 /\ deleteManagedRemoteWebhookRuntimeObject /\ Current # "mwhc"
                       => obj["mwhc"].owner # "managed"
<1>1. IInv /\ Next => A
  <2>. SUFFICES ASSUME IInv, Next
                PROVE  A
    OBVIOUS
  <2>0. TypeOK /\ CAInv /\ CertInv /\ BackedInv /\ RemovalInv
    BY DEF IInv
  <2>1. deleteManagedRemoteWebhookRuntimeObject /\ Current # "mwhc" => obj["mwhc"].owner # "managed"
    <3>1. deleteManagedRemoteWebhookRuntimeObject => worker.pc = "remove" /\ RemoveNext
      BY DEF deleteManagedRemoteWebhookRuntimeObject
    <3>. QED
      BY <2>0, <3>1, RemoveEffect
  <2>2. ASSUME obj["mwhc"].owner = "none", obj'["mwhc"].owner = "managed"
        PROVE  ensureRemoteMutatingWebhookConfiguration
    <3>1. /\ "mwhc" \in Kinds /\ "ca" \in Kinds /\ "tls" \in Kinds /\ "deployment" \in Kinds
          /\ obj \in [Kinds -> Object]
      BY <2>0 DEF TypeOK, Kinds
    <3>2. NoObject.owner = "none"
      BY Constants
    <3>3. obj'["mwhc"] # obj["mwhc"] /\ obj'["mwhc"] # NoObject
      BY <2>2, <3>2
    <3>4. ~(reconcileSelfHostedWebhookRuntime \/ deleteRemoteWebhookRuntimeStrict)
      BY <2>0, <3>3, BeginEffect
    <3>5. ~ensureRemoteCASecret
      <4>1. ensureRemoteCASecret =>
              obj' = obj \/ \E want \in Object : obj' = [obj EXCEPT !["ca"] = want]
        BY <2>0, CAEffect DEF Quits
      <4>. QED
        BY <3>1, <3>3, <4>1
    <3>6. ~ensureRemoteServingTLSSecret
      <4>1. ensureRemoteServingTLSSecret =>
              obj' = obj \/ \E want \in Object : obj' = [obj EXCEPT !["tls"] = want]
        BY <2>0, CertEffect DEF Quits
      <4>. QED
        BY <3>1, <3>3, <4>1
    <3>7. ~applyRemoteSupportingResources
      <4>1. applyRemoteSupportingResources =>
              \A k \in Kinds : obj'[k] = obj[k] \/ k \in Supporting
        BY <2>0, SupportEffect
      <4>. QED
        BY <3>1, <3>3, <4>1 DEF Supporting
    <3>8. ~ensureRemoteDeployment
      <4>1. ensureRemoteDeployment =>
              obj' = obj \/ \E want \in Object : obj' = [obj EXCEPT !["deployment"] = want]
        BY <2>0, DeploymentEffect DEF Quits
      <4>. QED
        BY <3>1, <3>3, <4>1
    <3>9. ~remoteMutatingWebhookConfigurationExists
      BY <2>0, <3>3, ExistsEffect
    <3>10. ~(ProbeForRemoval \/ deleteManagedRemoteWebhookRuntimeObject \/ apiError)
      <4>1. ProbeForRemoval \/ deleteManagedRemoteWebhookRuntimeObject \/ apiError =>
              obj' = obj \/ obj' = [obj EXCEPT ![Current] = NoObject]
        BY <2>0, RemovalStepEffect
      <4>. QED
        BY <3>1, <3>3, <4>1
    <3>11. ~\E k \in CachedKinds : SyncObject(k)
      BY <2>0, <3>3, SyncEffect
    <3>12. ~ObserveDeployment
      BY <2>0, <3>1, <3>3, ObserveEffect
    <3>13. ~PodStep /\ ~HubStep
      BY <3>3 DEF PodStep, HubStep
    <3>14. ASSUME NEW k \in Drifting, Drift(k)
           PROVE  FALSE
      <4>1. obj[k].owner = "managed" /\ \A c \in Kinds \ {k} : obj'[c] = obj[c]
        BY <2>0, <3>14, DriftEffect
      <4>. QED
        BY <2>2, <3>1, <3>3, <4>1
    <3>. QED
      BY <2>0, <3>4, <3>5, <3>6, <3>7, <3>8, <3>9, <3>10, <3>11, <3>12, <3>13, <3>14, StepCases
  <2>3. ASSUME obj["mwhc"].owner = "none", obj'["mwhc"].owner = "managed", worker.ready
        PROVE  obj'["mwhc"].ca \in served
    <3>1. ensureRemoteMutatingWebhookConfiguration
      BY <2>2, <2>3
    <3>2. /\ worker.pc = "mwhc"
          /\ obj' = obj \/ obj' = [obj EXCEPT !["mwhc"] = [Managed EXCEPT !.ca = worker.ca]]
      BY <2>0, <3>1, AdmissionEffect
    <3>3. obj'["mwhc"].ca = worker.ca
      <4>1. "mwhc" \in Kinds /\ obj \in [Kinds -> Object]
        BY <2>0 DEF TypeOK, Kinds
      <4>2. obj'["mwhc"] = [Managed EXCEPT !.ca = worker.ca]
        BY <2>3, <3>2, <4>1
      <4>. QED
        BY <4>2 DEF Managed, NoObject
    <3>4. worker.ca \in served
      BY <2>0, <2>3, <3>2 DEF BackedInv
    <3>. QED
      BY <3>3, <3>4
  <2>. QED
    BY <2>1, <2>3
<1>2. IInv /\ [Next]_vars => [A]_vars
  BY <1>1
<1>. QED
  BY <1>2, Invariance, PTL DEF Spec, AdmissionBacked

\* An object without the operator's labels keeps its owner and its contents whatever the
\* operator does, except for a deletion that had found the labels when it probed
\* (createOrUpdateAdoptableWebhookRuntime, deleteManagedRemoteWebhookRuntimeObject).
THEOREM UnmanagedIsKept == Spec => UnmanagedKept
<1>. DEFINE A == \A k \in Kinds :
                   obj[k].owner = "plain" /\ <<obj'[k].owner, obj'[k].id>> # <<obj[k].owner, obj[k].id>>
                     => worker.pc = "remove" /\ Current = k
<1>1. IInv /\ Next => A
  <2>. SUFFICES ASSUME IInv, Next, NEW k \in Kinds, obj[k].owner = "plain"
                PROVE  \/ obj'[k].owner = obj[k].owner /\ obj'[k].id = obj[k].id
                       \/ worker.pc = "remove" /\ Current = k
    OBVIOUS
  <2>0. TypeOK /\ CAInv /\ CertInv /\ RemovalInv
    BY DEF IInv
  <2>1. obj \in [Kinds -> Object] /\ "deployment" \in Kinds
    BY <2>0 DEF TypeOK, Kinds
  <2>2. CASE reconcileSelfHostedWebhookRuntime \/ deleteRemoteWebhookRuntimeStrict
    BY <2>0, <2>2, BeginEffect
  <2>3. CASE ensureRemoteCASecret
    <3>1. \/ obj' = obj
          \/ obj["ca"].owner # "plain" /\ \E want \in Object : obj' = [obj EXCEPT !["ca"] = want]
      BY <2>0, <2>3, CAEffect DEF Quits
    <3>. QED
      BY <2>1, <3>1
  <2>4. CASE ensureRemoteServingTLSSecret
    <3>1. \/ obj' = obj
          \/ obj["tls"].owner # "plain" /\ \E want \in Object : obj' = [obj EXCEPT !["tls"] = want]
      BY <2>0, <2>4, CertEffect DEF Quits
    <3>. QED
      BY <2>1, <3>1
  <2>5. CASE applyRemoteSupportingResources
    <3>1. obj'[k] = obj[k] \/ obj[k].owner = "none"
      BY <2>0, <2>5, SupportEffect
    <3>. QED
      BY <3>1
  <2>6. CASE ensureRemoteDeployment
    <3>1. \/ obj' = obj
          \/ /\ obj["deployment"].owner # "plain"
             /\ \E want \in Object : obj' = [obj EXCEPT !["deployment"] = want]
      BY <2>0, <2>6, DeploymentEffect DEF Quits
    <3>. QED
      BY <2>1, <3>1, SMTT(30)
  <2>7. CASE remoteMutatingWebhookConfigurationExists
    BY <2>0, <2>7, ExistsEffect
  <2>8. CASE ensureRemoteMutatingWebhookConfiguration
    <3>1. \/ obj' = obj
          \/ obj["mwhc"].owner # "plain" /\ \E want \in Object : obj' = [obj EXCEPT !["mwhc"] = want]
      BY <2>0, <2>8, AdmissionEffect
    <3>. QED
      BY <2>1, <3>1
  <2>9. CASE ProbeForRemoval \/ deleteManagedRemoteWebhookRuntimeObject \/ apiError
    <3>1. \/ obj' = obj
          \/ obj' = [obj EXCEPT ![Current] = NoObject] /\ worker.pc = "remove"
      BY <2>0, <2>9, RemovalStepEffect
    <3>. QED
      BY <2>1, <3>1
  <2>10. CASE \E c \in CachedKinds : SyncObject(c)
    BY <2>0, <2>10, SyncEffect
  <2>11. CASE ObserveDeployment
    <3>1. /\ \A c \in Kinds \ {"deployment"} : obj'[c] = obj[c]
          /\ obj'["deployment"].owner = obj["deployment"].owner
          /\ obj'["deployment"].id = obj["deployment"].id
      BY <2>0, <2>11, ObserveEffect
    <3>. QED
      BY <2>1, <3>1
  <2>12. CASE PodStep \/ HubStep
    BY <2>12 DEF PodStep, HubStep
  <2>13. CASE \E c \in Drifting : Drift(c)
    <3>1. PICK d \in Drifting : Drift(d)
      BY <2>13
    <3>2. obj[d].owner = "managed" /\ \A c \in Kinds \ {d} : obj'[c] = obj[c]
      BY <2>0, <3>1, DriftEffect
    <3>. QED
      BY <3>2
  <2>. QED
    BY <2>0, <2>2, <2>3, <2>4, <2>5, <2>6, <2>7, <2>8, <2>9, <2>10, <2>11, <2>12, <2>13,
       StepCases, Zenon
<1>2. IInv /\ [Next]_vars => [A]_vars
  BY <1>1
<1>. QED
  BY <1>2, Invariance, PTL DEF Spec, UnmanagedKept
================================================================================
