SPECIFICATION FairSpec
CONSTANTS
    Requests = {r1}
    Calls <- MCCalls
    Owners <- MCOwners
    Members = {o1}
    Enrollments <- MCEnrollments
    Persons <- MCPersons
    Fields = {name, ci}
    Values = {nAna, nAnabel, c12, Empty}
    Empty = Empty
    rowOf <- MCRows
    paperOf <- MCPaper
    Occurs <- MCOccurs
    TokenLife = 1
    MaxTime = 1
    MaxTokens = 2
    MaxBallots = 2
    None = None
    o1 = o1
    o2 = o2
    ana = ana
    anabel = anabel
    e1 = e1
    e2 = e2
    e3 = e3
    e4 = e4
    name = name
    ci = ci
    nAna = nAna
    nAnabel = nAnabel
    c12 = c12
INVARIANT TypeOK
INVARIANT TokensAreOfTheRegister
INVARIANT PersonsAreVerifiedAsThemselves
INVARIANT PersonsVoteOncePerRow
PROPERTY EveryVerificationAnswered
\* every request may be answered and nothing be left to do
CHECK_DEADLOCK FALSE
