SPECIFICATION QueueSpec
CONSTANTS
    None = None
    i1 = i1
    i2 = i2
    a1 = a1
    a2 = a2
    r1 = r1
    Identities = {i1, i2}
    Accessors = {a1, a2}
    RecipientKeys = {x1}
    MemberRoots = {}
    EligibleRoots <- MCRoots
    Reqs = {}
    Rooms = {r1}
    Docs = {}
    Keys = {}
    Gates = {}
    Policies = {}
    MembershipImage = membership
    Images = {membership}
    MaxEpoch = 0
    MaxTime = 0
    Room = r1
    HolderKey <- MCHolderKey
    Tickets = {t1, t2}
    Floor = 2
    MaxCalls = 2
    MaxCrashes = 1
INVARIANTS
    SubmittedIsGranted
    PinnedIsStored
PROPERTIES
    QueuedEnds
CHECK_DEADLOCK FALSE
