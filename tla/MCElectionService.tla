-------------------------- MODULE MCElectionService --------------------------
(* Instances of ElectionService for TLC. *)
EXTENDS ElectionService

\* The hash of an enrollment of this tenant: distinct for distinct enrollments.
MCVoterHash == [v \in Voters |-> <<v, "tenant">>]
MCHashes == {MCVoterHash[v] : v \in Voters}
=============================================================================
