\* Two deposits through the listener, the table and the processor.
CONSTANTS
    user = user
    l1Token = l1Token
    l2Token = l2Token
    d1 = d1
    d2 = d2
    ETH = ETH
    L1Tokens = {l1Token}
    L2Tokens = {l2Token}
    NoToken = NoToken
    L2Users = {user}
    RefusingEth = {}
    L2Callers = {wallet}
    DepositIds = {d1, d2}
    DepositOf <- MCDepositOf
    Nonces = {}
    NoWithdrawal = NoWithdrawal
    CancelPeriod = 1
    RateLimits <- NoLimits
    EthFunding = 1
    MaxL2Time = 1
    Wallet = wallet
    NoRow = NoRow
    Limit = 2
    Lookback = 1
    Step = 1
    MaxL1Block = 3
    Passes = {1, 2}
    MaxFaults <- MCFaults
    InitialPairs <- MCPairs
    InitialRateLimit <- NoLimit
SPECIFICATION FairDepositSpec
CONSTRAINT DepositScope
INVARIANTS CreditedOnce MarkedIsCredited BackfillLeavesNoGap
PROPERTIES ListenerCatchesUp StoredIsCredited
CHECK_DEADLOCK FALSE
