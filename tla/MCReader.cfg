SPECIFICATION ReaderSpec
SYMMETRY MCSymmetry
VIEW MCView
CONSTANTS
    None = None
    kyc = kyc
    i1 = i1
    Identities = {i1}
    Accessors = {a1}
    RecipientKeys = {x1}
    MemberRoots = {}
    EligibleRoots <- MCRoots
    Reqs = {}
    Rooms = {r1}
    Docs = {d1}
    Keys = {key1, key2, key3}
    Gates = {kyc}
    Policies <- MCPolicies
    MembershipImage = membership
    Images = {membership}
    MaxEpoch = 1
    MaxTime = 0
    Keypers = {k1, k2, k3}
    Threshold = 2
    Dealers = {j1}
    Kinds = {"sealed", "rotate"}
    LateDeals = FALSE
    MaxAsks = 0
    Readers = {v1}
INVARIANTS
    SharesSurviveAnchoring
    MismatchIsDisturbed
CHECK_DEADLOCK FALSE
