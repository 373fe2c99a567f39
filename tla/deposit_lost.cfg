\* One crash, and nothing else goes wrong: is every event read stored?
CONSTANTS
    user = user
    l1Token = l1Token
    l2Token = l2Token
    d1 = d1
    d2 = d2
    ETH = ETH
    L1Tokens = {l1Token}
    L2Tokens = {l2Token}
    NoToken = NoToken
    L2Users = {user}
    RefusingEth = {}
    L2Callers = {wallet}
    DepositIds = {d1, d2}
    DepositOf <- MCDepositOf
    Nonces = {}
    NoWithdrawal = NoWithdrawal
    CancelPeriod = 1
    RateLimits <- NoLimits
    EthFunding = 1
    MaxL2Time = 1
    Wallet = wallet
    NoRow = NoRow
    Limit = 2
    Lookback = 2
    Step = 1
    MaxL1Block = 2
    Passes = {1}
    MaxFaults <- MCCrashOnly
    InitialPairs <- MCPairs
    InitialRateLimit <- NoLimit
SPECIFICATION FairDepositSpec
CONSTRAINT DepositScope
PROPERTY EveryEventIsStored
CHECK_DEADLOCK FALSE
