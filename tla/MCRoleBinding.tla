---------------------------- MODULE MCRoleBinding ----------------------------
(* Instances of RoleBinding for TLC; the RB*.cfg files give the constants. *)
EXTENDS RoleBinding
==============================================================================
