\* Two disputes about one batch; a withdrawal out of a disputed batch, whose
\* game the owner may replace.
CONSTANTS
    user = user
    proposer = proposer
    root1 = root1
    root2 = root2
    w1 = w1
    Addresses = {proposer}
    NoAddress = NoAddress
    Owner = user
    BlocksPerRotation = 2
    MaxBatch = 1
    Roots = {root1, root2}
    NoRoot = NoRoot
    Tokens = {ETH}
    ETH = ETH
    Ids = {w1}
    Claims <- MCClaims
    V3Leaves <- MCLeaves
    LegacyLeaves <- MCLeaves
    DisputeGames = {game, newGame}
    Oracles = {}
    Periods = {}
    MinPeriod = 1
    MaxPeriod = 2
    NotQueued = NotQueued
    NoCommitment = NoCommitment
    Amounts = {1}
    MaxTime = 2
    MaxDeposits = 1
    MaxDonations = 0
    QueueLists <- NoQueueLists
    LegacyBatches = 0
    LegacyWithdrawals <- NoClaims
    InitialChallengePeriod = 1
    Parties = {proposer, user}
    DisputeIds = {1, 2}
    Refusing = {}
    BondAmounts = {1, 2}
    StakeAmounts = {2}
    ShareBps = {5000}
    MaxEth = 6
    ThisGame = game
    TransitionClaims <- SoundClaims
    Timeouts = {0}
    DisputeLimits = {2}
    MaxRounds = 2
    MaxIdle = 1
    NoDispute = NoDispute
    NoResolution = NoResolution
SPECIFICATION L1Spec
CONSTRAINT L1Scope
INVARIANTS BondsAreCovered BondsFollowDisputes ActiveCountIsExact FraudIsInvalidated
PROPERTIES NoPaymentAfterFraud DiamondIsUndisturbed
CHECK_DEADLOCK FALSE
