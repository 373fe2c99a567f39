\* Batch submission, rotation, DA policy and anchoring; no withdrawals.
CONSTANTS
    user = user
    s2 = s2
    s3 = s3
    root1 = root1
    root2 = root2
    token = token
    w1 = w1
    w2 = w2
    Addresses = {user, s2, s3}
    NoAddress = NoAddress
    Owner = Owner
    BlocksPerRotation = 2
    MaxBatch = 3
    Roots = {root1, root2}
    NoRoot = NoRoot
    Tokens = {ETH}
    ETH = ETH
    Ids = {}
    Claims <- NoClaims
    V3Leaves <- EmptyLeaves
    LegacyLeaves <- EmptyLeaves
    DisputeGames = {}
    Oracles = {}
    Periods = {}
    MinPeriod = 1
    MaxPeriod = 30
    NotQueued = NotQueued
    NoCommitment = NoCommitment
    Amounts = {}
    MaxTime = 1
    MaxDeposits = 0
    MaxDonations = 0
    QueueLists <- NoQueueLists
    LegacyBatches = 1
    LegacyWithdrawals <- NoClaims
    InitialChallengePeriod = 1
SPECIFICATION Spec
SYMMETRY RootSymmetry
CONSTRAINT SettlementScope
INVARIANT CommitmentsAreChained
PROPERTIES BatchRootsAreFinal DaPolicyIsNotBypassed
CHECK_DEADLOCK FALSE
