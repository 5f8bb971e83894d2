SPECIFICATION Spec
SYMMETRY MCSymmetry
CONSTANTS
    None = None
    i1 = i1
    i2 = i2
    tok = tok
    Identities = {i1, i2}
    Accessors = {a1, a2}
    RecipientKeys = {x1}
    MemberRoots <- MCOneRoot
    EligibleRoots <- MCSwap
    Reqs <- MCReqs
    Rooms = {r1}
    Docs = {d1}
    Keys = {key1}
    Gates = {}
    Policies <- MCPolicies
    MembershipImage = membership
    Images = {membership}
    MaxEpoch = 1
    MaxTime = 1
INVARIANTS
    TypeOK
    GrantedIsEligible
    OneAccessPerIdentity
    LogsAgree
    RevokedStaysOut
    AdmittedIsBacked
    AdmittedCanBeSealed
CHECK_DEADLOCK FALSE
