SPECIFICATION ReadsSpec
CONSTANTS
    Hashes = {h1, h2, h3}
    Photos = {p1}
    Parties = {k1}
    None = None
    MaxCandidates = 2
    MaxUint8 = 2
    Registered = 1
    FirstPhoto = p1
    FirstParty = k1
SYMMETRY MCSymmetry
INVARIANT ReadsTypeOK
INVARIANT TallyMatchesBallots
INVARIANT OneBallotPerHash
INVARIANT CountsAreOfTheRequest
INVARIANT NothingToldIsTakenBack
INVARIANT FinalAnswersAgree
INVARIANT BallotLeadsToCandidates
PROPERTY BoxSpec
