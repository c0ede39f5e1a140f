--------------------------- MODULE MCElectionReads ---------------------------
(* An instance of ElectionReads, and of the contract it reads, for TLC. *)
EXTENDS ElectionReads, TLC

\* Voter hashes are interchangeable.
MCSymmetry == Permutations(Hashes)
=============================================================================
