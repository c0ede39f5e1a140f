SPECIFICATION FairSpec
CONSTANTS
    Requests = {r1, r2}
    Voters = {v1, v2}
    Photos = {p1, p2}
    Parties = {k1}
    Operations = {"vote", "end", "add", "update", "delete"}
    MaxCandidates = 2
    MaxUint8 = 255
    Registered = 1
    FirstPhoto = p1
    FirstParty = k1
    None = None
    voterHash <- MCVoterHash
    Hashes <- MCHashes
INVARIANT TypeOK
INVARIANT ConfirmedVoteIsCounted
INVARIANT OneConfirmationPerVoter
INVARIANT BallotsWereRequested
INVARIANT RefusalIsDefinite
INVARIANT PhotosArePinned
PROPERTY ResultIsFinal
PROPERTY EveryRequestAnswered
CHECK_DEADLOCK FALSE
