SPECIFICATION Spec
CONSTANTS
    Requests = {r1, r2, r3}
    Voters = {v1, v2, v3}
    Photos = {p1}
    Parties = {k1}
    Operations = {"vote"}
    MaxCandidates = 1
    MaxUint8 = 2
    Registered = 1
    FirstPhoto = p1
    FirstParty = k1
    None = None
    voterHash <- MCVoterHash
    Hashes <- MCHashes
INVARIANT EligibleVoteIsExecutable
\* every request may be answered and nothing be left to do
CHECK_DEADLOCK FALSE
