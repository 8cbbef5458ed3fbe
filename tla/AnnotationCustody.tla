--------------------------- MODULE AnnotationCustody ---------------------------
(***************************************************************************)
(* What the operator promises about one remote ServiceAccount, with no     *)
(* worker, cache or patch in sight.  The ServiceAccount carries the ARN of *)
(* at most one role, its owner.  The custody record of a role says that    *)
(* its finalization will find the annotation; it is opened before the role *)
(* becomes the owner, never lost, and closed only when the role is not the *)
(* owner, after which the role never becomes the owner again.              *)
(***************************************************************************)
CONSTANT Roles

VARIABLES
  owner,   \* the role whose ARN the ServiceAccount carries, or "none"
  record   \* record[r]: "blank", "recorded" or "closed"

custodyVars == <<owner, record>>

Init ==
  /\ owner = "none"
  /\ record = [r \in Roles |-> "blank"]

Record(r) ==
  /\ record[r] = "blank"
  /\ record' = [record EXCEPT ![r] = "recorded"]
  /\ UNCHANGED owner

\* Delivery may take the ServiceAccount over from another role.
Deliver(r) ==
  /\ record[r] = "recorded"
  /\ owner' = r
  /\ UNCHANGED record

\* Finalization, or a user of the workload cluster.
Release ==
  /\ owner' = "none"
  /\ UNCHANGED record

Close(r) ==
  /\ owner # r
  /\ record' = [record EXCEPT ![r] = "closed"]
  /\ UNCHANGED owner

Next ==
  \/ \E r \in Roles : Record(r) \/ Deliver(r) \/ Close(r)
  \/ Release

Spec == Init /\ [][Next]_custodyVars
================================================================================
