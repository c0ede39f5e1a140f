------------------------------- MODULE MCRecords -------------------------------
(* An instance of Records for TLC. *)
EXTENDS Records, TLC

\* The three collections, each with all requests.  One member sends all party
\* requests and the other creates parties: with three requests only one of two
\* members' patches or deletions can find a party of its own.  An outsider
\* tries the configuration.
MCMixes == {UserOps \X {None}, ConfigOps \X Owners} \cup
           {(PartyOps \X {m}) \cup ({"createParty"} \X Members) : m \in Members}

\* Requests, names, emails and the members are interchangeable.
MCSymmetry == UNION {Permutations(S) : S \in {Requests, Names, Emails, Members}}
=============================================================================
