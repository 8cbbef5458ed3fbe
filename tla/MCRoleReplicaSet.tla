--------------------------- MODULE MCRoleReplicaSet ----------------------------
(* Instances of RoleReplicaSet for TLC; RSFleet.cfg gives the constants. *)
EXTENDS RoleReplicaSet
================================================================================
