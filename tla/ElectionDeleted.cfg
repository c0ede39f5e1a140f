SPECIFICATION Spec
CONSTANTS
    Requests = {r1, r2}
    Voters = {v1}
    Photos = {p1}
    Parties = {k1}
    Operations = {"vote", "delete"}
    MaxCandidates = 1
    MaxUint8 = 255
    Registered = 1
    FirstPhoto = p1
    FirstParty = k1
    None = None
    voterHash <- MCVoterHash
    Hashes <- MCHashes
PROPERTY DeletedCandidateTakesNoVote
\* every request may be answered and nothing be left to do
CHECK_DEADLOCK FALSE
