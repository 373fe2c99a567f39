\* The life of a withdrawal against legacy and V3 batches; custody.
CONSTANTS
    user = user
    s2 = s2
    s3 = s3
    root1 = root1
    root2 = root2
    token = token
    w1 = w1
    w2 = w2
    Addresses = {user}
    NoAddress = NoAddress
    Owner = Owner
    BlocksPerRotation = 2
    MaxBatch = 2
    Roots = {root1, root2}
    NoRoot = NoRoot
    Tokens = {ETH, token}
    ETH = ETH
    Ids = {w1, w2}
    Claims <- MCClaims
    V3Leaves <- MCV3Leaves
    LegacyLeaves <- MCLegacyLeaves
    DisputeGames = {game}
    Oracles = {oracle}
    Periods = {0, 2}
    MinPeriod = 1
    MaxPeriod = 2
    NotQueued = NotQueued
    NoCommitment = NoCommitment
    Amounts = {2}
    MaxTime = 3
    MaxDeposits = 2
    MaxDonations = 1
    QueueLists <- MCQueueLists
    LegacyBatches = 1
    LegacyWithdrawals <- MCLegacyWithdrawals
    InitialChallengePeriod = 1
SPECIFICATION Spec
CONSTRAINT BridgeScope
INVARIANTS QueuedIsCommitted DelayIsWithinPolicy CustodyCoversCredits
PROPERTY ImplementsEscrow
CHECK_DEADLOCK FALSE
