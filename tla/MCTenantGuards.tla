---------------------------- MODULE MCTenantGuards ----------------------------
(* An instance of TenantGuards for TLC. *)
EXTENDS TenantGuards

CONSTANTS u1, u2, t1

\* Both users are members of the one tenant.
MCMemberTenants == {<<u1, t1>>, <<u2, t1>>}
=============================================================================
