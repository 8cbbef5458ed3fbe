---------------------------- MODULE MCRoleChildren -----------------------------
EXTENDS RoleChildren

\* A foreign policy or an IAM Role without a controller may already be there when
\* the first role object of the name is created.
MCStrangers == {<<"Policy", "foreign">>, <<"Role", "bare">>}
================================================================================
