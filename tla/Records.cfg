SPECIFICATION Spec
CONSTANTS
    Requests = {r1, r2, r3}
    Owners = {o1, o2, o3}
    Members = {o1, o2}
    Names = {n1, n2}
    Emails = {e1, e2}
    Images = {i1}
    None = None
    Mixes <- MCMixes
SYMMETRY MCSymmetry
INVARIANT TypeOK
INVARIANT PartyNamesAreUnique
INVARIANT LogosAreUploaded
INVARIANT SharedAccountsOverlapped
INVARIANT RegisteredCanSignIn
INVARIANT StartIsSeen
PROPERTY PartiesAreTheirOwners
\* every request may be answered and nothing be left to do
CHECK_DEADLOCK FALSE
