\* Users, sequencer and owner of the L2 bridge; and two stakers, rewards that
\* may round to 0 or run short, changing rates: a stake of 1 at the initial
\* rate earns 1 every two blocks.
CONSTANTS
    wallet = wallet
    alice = alice
    bob = bob
    t1 = t1
    t2 = t2
    s1 = s1
    s2 = s2
    d1 = d1
    d2 = d2
    ETH = ETH
    L1Tokens = {t1, t2}
    L2Tokens = {s1, s2}
    NoToken = NoToken
    L2Users = {alice, bob}
    RefusingEth = {bob}
    L2Callers = {wallet, other}
    DepositIds = {d1, d2}
    DepositOf <- MCDepositOf
    Nonces = {0, 1, 2}
    NoWithdrawal = NoWithdrawal
    CancelPeriod = 2
    RateLimits <- MCLimits
    EthFunding = 1
    MaxL2Time = 3
    InitialPairs <- MCPairs
    InitialRateLimit <- MCLimit
    staker1 = staker1
    staker2 = staker2
    Users = {staker1, staker2}
    StakeAmounts = {1, 2}
    Rates = {50, 100, 10001}
    TeqAmounts = {2}
    Denominator = 100
    MaxStake = 3
    MaxTeq = 3
    MaxBlock = 4
SPECIFICATION L2ContractsSpec
CONSTRAINT OwnerScope
SYMMETRY StakerSymmetry
INVARIANTS SettledOnce AccountsAreExact RateIsLimited RewardsFollowAccrual
CHECK_DEADLOCK FALSE
