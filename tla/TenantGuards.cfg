SPECIFICATION Spec
CONSTANTS
    Users = {u1, u2}
    MemberTenants <- MCMemberTenants
    TokenLife = 1
    MaxTime = 2
    None = None
    u1 = u1
    u2 = u2
    t1 = t1
PROPERTY ValidTokenPasses
