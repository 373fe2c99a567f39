\* A truthful defender of a true batch of two steps.
CONSTANTS
    user = user
    proposer = proposer
    root1 = root1
    root2 = root2
    root3 = root3
    TrueRoots <- ThreeStates
    w1 = w1
    Addresses = {proposer}
    NoAddress = NoAddress
    Owner = user
    BlocksPerRotation = 2
    MaxBatch = 1
    Roots = {root1, root2, root3, root4}
    NoRoot = NoRoot
    Tokens = {ETH}
    ETH = ETH
    Ids = {}
    Claims <- NoClaims
    V3Leaves <- MCLeaves
    LegacyLeaves <- MCLeaves
    DisputeGames = {game}
    Oracles = {}
    Periods = {}
    MinPeriod = 1
    MaxPeriod = 2
    NotQueued = NotQueued
    NoCommitment = NoCommitment
    Amounts = {}
    MaxTime = 1
    MaxDeposits = 0
    MaxDonations = 0
    QueueLists <- NoQueueLists
    LegacyBatches = 0
    LegacyWithdrawals <- NoClaims
    InitialChallengePeriod = 1
    Parties = {proposer, user}
    DisputeIds = {1}
    Refusing = {}
    BondAmounts = {2}
    StakeAmounts = {2}
    ShareBps = {5000}
    MaxEth = 4
    ThisGame = game
    TransitionClaims <- TrueSteps
    Timeouts = {1}
    DisputeLimits = {1}
    MaxRounds = 3
    MaxIdle = 2
    NoDispute = NoDispute
    NoResolution = NoResolution
SPECIFICATION HonestDefenderSpec
CONSTRAINT PlayScope
INVARIANT HonestDefenderPrevails
CHECK_DEADLOCK FALSE
