SPECIFICATION Spec
CONSTANTS
    Accounts = {a}
    EscrowAddr = escrow
    tok = tok
    i1 = i1
    zero = zero
    None = None
    Tokens = {tok}
    Fee <- MCFee
    Identities = {i1}
    Commitments <- MCCommitments
    InitBalance = 2
    MaxLocks = 2
    MaxTime = 2
    Accessors = {k1}
    RecipientKeys = {x1}
    MemberRoots <- MCMemberRoots
    Reqs <- MCReqs
    BondImage = bond
    OpenImage = bond_open
    Images = {bond, bond_open}
    RingCap = 2
    MaxGrants = 1
    MaxOpenGrants = 2
    Scanners = {s1}
    ScanBatch = 1
    ScanMax = 2
    MinAnonSet = 1
INVARIANTS
    TypeOK
    GrantImpliesBondedMember
    OpenGrantImpliesBonded
    OneGrantPerIdentity
    ScanComplete
PROPERTIES
    KeepsPromise
CHECK_DEADLOCK FALSE
