SPECIFICATION KeySpec
SYMMETRY MCKeySymmetry
CONSTANTS
    None = None
    i1 = i1
    Identities = {i1}
    Accessors = {a1}
    RecipientKeys = {x1}
    MemberRoots = {}
    EligibleRoots <- MCRoots
    Reqs = {}
    Rooms = {r1}
    Docs = {d1}
    Keys = {key1, key2, key3}
    Gates = {}
    Policies = {}
    MembershipImage = membership
    Images = {membership}
    MaxEpoch = 2
    MaxTime = 0
    Keypers = {k1}
    Threshold = 1
    Dealers = {j1, j2}
    Kinds = {"seal", "sealed", "rotate"}
    LateDeals = TRUE
    MaxAsks = 2
INVARIANTS
    KeyTypeOK
    NewKeyWithheld
    KeysOutlastFailures
CHECK_DEADLOCK FALSE
