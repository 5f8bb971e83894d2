SPECIFICATION KeySpec
SYMMETRY MCSymmetry
CONSTANTS
    None = None
    i1 = i1
    Identities = {i1}
    Accessors = {}
    RecipientKeys = {x1}
    MemberRoots = {}
    EligibleRoots = {}
    Reqs = {}
    Rooms = {r1}
    Docs = {d1}
    Keys = {key1, key2}
    Gates = {}
    Policies = {}
    MembershipImage = membership
    Images = {membership}
    MaxEpoch = 2
    MaxTime = 0
    Keypers = {k1, k2, k3}
    Threshold = 2
    Dealers = {j1}
    Kinds = {"seal"}
    LateDeals = FALSE
    MaxAsks = 0
INVARIANTS
    SharesSurviveAnchoring
CHECK_DEADLOCK FALSE
