SPECIFICATION Spec
SYMMETRY MCSymmetry
CONSTANTS
    None = None
    Nobody = Nobody
    k1 = k1
    plain = plain
    feeTaking = feeTaking
    MaxTime = 2
    Accounts = {a, b}
    EscrowAddr = escrow
    Tokens <- MCTokens
    Fee <- MCFee
    Commitments = {i1, i2}
    InitBalance = 2
    MaxLocks = 2
    Issuers = {k1}
    FirstIssuers = {k1}
    Envelopes <- MCEnvelopes
    Accessors = {x1, x2}
    DenyLists <- MCDenyLists
    Auditors = {p1, p2}
    Thresholds = {1}
    MaxGrants <- MCMaxGrants
    MaxPage = 1
    Bars = {1, 2}
    FirstBar = 1
    MaxAdmissions = 1
    TokenHolders = {a, b}
    MaxI128 = 2
    MaxU64 = 1
    MaxResults = 1
    FirstBondToken = plain
    Identities = {i1, i2}
    TierAccessors = {x1}
    Tiers <- MCTiers
    Contexts = {c1}
    TierToken = plain
    TierMinAnon = 2
    RingCap = 1
    Requests = {q1}
    bank = bank
    Rooms = {r1}
    Docs = {d1}
    Readers = {p1, p2}
    Contents = {1}
    Statements <- MCStatements
    Banks = {bank}
    Disclosures <- MCDisclosures
    Floors = {1}
    MaxSeals = 2
    Deployments <- MCDeployments
INVARIANTS
    LocksBacked
    HeldUntilUnlock
    NoSanctionedGrant
    AuditIsASnapshot
    AccessIsEarned
    GrantIsBacked
    TierCrowdIsFunded
    SealedOpens
    AdvertisedIsVouched
PROPERTIES
    LockOnlyStrengthens
    ReleasePaysClaimant
    ReservesCoverSupply
CHECK_DEADLOCK FALSE
