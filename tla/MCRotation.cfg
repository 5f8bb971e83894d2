SPECIFICATION Spec
CONSTANTS
    None = None
    i1 = i1
    i2 = i2
    tok = tok
    Identities = {i1, i2}
    Accessors = {a1, a2}
    RecipientKeys = {x1}
    MemberRoots <- MCRoots
    EligibleRoots <- MCRoots
    Reqs = {}
    Rooms = {r1}
    Docs = {}
    Keys = {key1}
    Gates = {}
    Policies = {}
    MembershipImage = membership
    Images = {membership}
    MaxEpoch = 0
    MaxTime = 0
PROPERTIES
    ApprovalKeepsMembers
CHECK_DEADLOCK FALSE
