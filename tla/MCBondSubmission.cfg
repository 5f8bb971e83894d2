SPECIFICATION Spec
CONSTANTS
    None = None
    i1 = i1
    a1 = a1
    a2 = a2
    x1 = x1
    tok = tok
    Identities = {i1, i2}
    Accessors = {a1, a2}
    RecipientKeys = {x1}
    MemberRoots <- MCRoots
    Reqs <- MCReqs
    BondImage = bond
    OpenImage = open
    RingCap = 1
    Images = {bond, open}
    MaxGrants = 2
    MaxOpenGrants = 2
    MaxTime = 1
    Work <- MCWork
    Others <- MCOthers
    Attempts = 2
    MaxJobs = 2
    MaxFaults = 1
INVARIANTS
    LandedIsGranted
    GivesUpForCause
PROPERTIES
    TasksEnd
CHECK_DEADLOCK FALSE
