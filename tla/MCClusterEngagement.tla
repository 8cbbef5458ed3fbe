-------------------------- MODULE MCClusterEngagement --------------------------
EXTENDS ClusterEngagement

CONSTANTS c1, c2

\* A profile with the name and namespace of its cluster, and one that lives in
\* a hub namespace.
MCProfiles == {[ns |-> "a", name |-> "a"], [ns |-> "hub", name |-> "b"]}

Version(label, healthy, access) ==
  [label |-> label, manager |-> label # None, healthy |-> healthy, access |-> access]

\* Both profiles may claim the cluster a; the name of the second one claims b.
MCVersions ==
  {Version("a", TRUE, c1), Version("a", TRUE, c2), Version("a", TRUE, None),
   Version("a", FALSE, c1), Version(None, TRUE, c1)}
================================================================================
